--------------------------- MODULE DriversProofs ----------------------------
(***************************************************************************)
(* Proofs about Drivers: whatever the driver, its units, the rates and the *)
(* bounds, the counters of substreams and the stream lock agree with who   *)
(* uses the card, packets only go where bandwidth is reserved, nothing     *)
(* goes on without a user, and a PCM is only ready with its stream.        *)
(*                                                                         *)
(* A call into the streams is a composition of outcomes (Duplex).  Each    *)
(* has a lemma that says what every outcome keeps and achieves; so have    *)
(* the functions of each driver that are built from them, and the steps of *)
(* the users, which share one lemma for all drivers.  The inductive        *)
(* invariant, IInv, has three parts: Tidy, about the users; Sound, about   *)
(* the streams of a driver; and Unused, what is left without a user.       *)
(***************************************************************************)
EXTENDS Drivers, FiniteSetTheorems, TLAPS

PcmStates == {"closed", "open", "setup", "prepared", "running", "xrun"}
Flags == [Streams -> BOOLEAN]

\* The cards, whatever their counters have come to.
Cards ==
  [driver : Drivers, life : {"absent", "deferred", "live", "removed", "freed"},
   dirs : SUBSET Streams, ports : SUBSET Streams, master : Streams, inited : BOOLEAN,
   run : Flags, dead : Flags, rate : [Streams -> Rates \cup {AnyRate}], conn : Flags,
   device : Rates, session : BOOLEAN,
   pcm : [Streams -> PcmStates], want : [Streams -> Rates \cup {AnyRate}],
   limit : [Streams -> SUBSET Rates], midi : SUBSET Streams,
   count : [Counters -> Int], lock : Int, lost : [Counters -> Int], lockLost : Int,
   missed : Flags, warned : BOOLEAN, ghost : BOOLEAN, waiting : SUBSET Threads,
   completed : BOOLEAN]

\* What the calls on streams leave alone: all that the users have, but that the PCM of
\* a stream may be aborted.
Held(c) == [s \in Streams |-> IF c.pcm[s] = "running" THEN "xrun" ELSE c.pcm[s]]
Users(c) ==
  <<c.driver, c.life, c.dirs, c.ports, c.master, c.inited, c.want, c.limit, c.midi,
    c.count, c.lock, c.lost, c.lockLost, c.warned, c.ghost, c.waiting, Held(c)>>

Keeps(d, c) == d \in Cards /\ Users(d) = Users(c)

\* The streams and their PCMs are as they were.
SameRun(d, c) == d.run = c.run /\ d.dead = c.dead
SamePcm(d, c) == d.pcm = c.pcm /\ d.missed = c.missed
SameDevice(d, c) == d.device = c.device /\ d.session = c.session
SameLink(d, c) == d.conn = c.conn /\ d.rate = c.rate

\* amdtp_stream_pcm_abort() only touches the PCM.
LEMMA Abort ==
  ASSUME NEW c \in Cards, NEW s \in Streams
  PROVE  LET d == PcmAbort(c, s) IN
           /\ Keeps(d, c) /\ SameRun(d, c) /\ SameDevice(d, c) /\ SameLink(d, c)
           /\ d.pcm = [c.pcm EXCEPT ![s] = IF @ = "running" THEN "xrun" ELSE @]
           /\ d.missed = [c.missed EXCEPT ![s] = @ \/ c.pcm[s] = "prepared"]
  <1> DEFINE p == [c.pcm EXCEPT ![s] = IF @ = "running" THEN "xrun" ELSE @]
             m == [c.missed EXCEPT ![s] = @ \/ c.pcm[s] = "prepared"]
             a == [c EXCEPT !.pcm = p]
             b == [a EXCEPT !.missed = m]
  <1>1. p \in [Streams -> PcmStates] /\ m \in Flags
    BY DEF Cards, PcmStates, Flags
  <1>2. \A t \in Streams : (IF p[t] = "running" THEN "xrun" ELSE p[t])
                            = (IF c.pcm[t] = "running" THEN "xrun" ELSE c.pcm[t])
    BY DEF Cards, PcmStates
  <1>3. PcmAbort(c, s) = b
    BY DEF PcmAbort, Cards
  <1> HIDE DEF p, m
  <1>4. a \in Cards /\ a.pcm = p
    BY <1>1 DEF Cards
  <1>5. Held(a) = Held(c)
    BY <1>2, <1>4 DEF Held
  <1>6. Users(a) = Users(c) /\ SameRun(a, c) /\ SameDevice(a, c) /\ SameLink(a, c)
        /\ a.missed = c.missed
    BY <1>5 DEF Cards, Users, SameRun, SameDevice, SameLink
  <1> HIDE DEF a
  <1>7. b \in Cards /\ b.missed = m /\ b.pcm = a.pcm
    BY <1>1, <1>4 DEF Cards
  <1>8. Held(b) = Held(a)
    BY <1>7 DEF Held
  <1>9. Users(b) = Users(a) /\ SameRun(b, a) /\ SameDevice(b, a) /\ SameLink(b, a)
    BY <1>4, <1>8 DEF Cards, Users, SameRun, SameDevice, SameLink
  <1> HIDE DEF b
  <1> QED
    BY <1>3, <1>4, <1>6, <1>7, <1>9 DEF Keeps, SameRun, SameDevice, SameLink, p, m

\* amdtp_stream_stop() only ends the packets.
LEMMA Stop ==
  ASSUME NEW c \in Cards, NEW s \in Streams
  PROVE  LET d == AmdtpStop(c, s) IN
           /\ Keeps(d, c) /\ SamePcm(d, c) /\ SameDevice(d, c) /\ SameLink(d, c)
           /\ d.dead = c.dead /\ d.run = [c.run EXCEPT ![s] = FALSE]
  <1> DEFINE d == AmdtpStop(c, s)
  <1>1. d \in Cards /\ d.pcm = c.pcm
    BY DEF AmdtpStop, Cards, Flags
  <1>2. Held(d) = Held(c)
    BY <1>1 DEF Held
  <1> QED
    BY <1>1, <1>2
    DEF AmdtpStop, Keeps, Users, SamePcm, SameDevice, SameLink, Cards, Flags

\* One field of the streams is set.
LEMMA SetRun ==
  ASSUME NEW c \in Cards, NEW f \in Flags
  PROVE  LET d == [c EXCEPT !.run = f] IN
           /\ Keeps(d, c) /\ SamePcm(d, c) /\ SameDevice(d, c) /\ SameLink(d, c)
           /\ d.dead = c.dead /\ d.run = f
  <1> DEFINE d == [c EXCEPT !.run = f]
  <1>1. d \in Cards /\ d.pcm = c.pcm
    BY DEF Cards
  <1>2. Held(d) = Held(c)
    BY <1>1 DEF Held
  <1> QED
    BY <1>1, <1>2 DEF Keeps, Users, SamePcm, SameDevice, SameLink, Cards

\* What one field of a card being set leaves alone, for each field the calls set.
LEMMA SetDead ==
  ASSUME NEW c \in Cards, NEW f \in Flags
  PROVE  LET d == [c EXCEPT !.dead = f] IN
           /\ Keeps(d, c) /\ SamePcm(d, c) /\ SameDevice(d, c) /\ SameLink(d, c)
           /\ d.dead = f /\ d.run = c.run
  <1> DEFINE d == [c EXCEPT !.dead = f]
  <1>1. d \in Cards /\ d.pcm = c.pcm
    BY DEF Cards
  <1>2. Held(d) = Held(c)
    BY <1>1 DEF Held
  <1> QED
    BY <1>1, <1>2 DEF Keeps, Users, SamePcm, SameDevice, SameLink, Cards

LEMMA SetRates ==
  ASSUME NEW c \in Cards, NEW f \in [Streams -> Rates \cup {AnyRate}]
  PROVE  LET d == [c EXCEPT !.rate = f] IN
           /\ Keeps(d, c) /\ SameRun(d, c) /\ SamePcm(d, c) /\ SameDevice(d, c) /\ d.conn = c.conn
           /\ d.rate = f
  <1> DEFINE d == [c EXCEPT !.rate = f]
  <1>1. d \in Cards /\ d.pcm = c.pcm
    BY DEF Cards
  <1>2. Held(d) = Held(c)
    BY <1>1 DEF Held
  <1> QED
    BY <1>1, <1>2
    DEF Keeps, Users, SameRun, SamePcm, SameDevice, SameLink, Cards

LEMMA SetConn ==
  ASSUME NEW c \in Cards, NEW f \in Flags
  PROVE  LET d == [c EXCEPT !.conn = f] IN
           /\ Keeps(d, c) /\ SameRun(d, c) /\ SamePcm(d, c) /\ SameDevice(d, c) /\ d.rate = c.rate
           /\ d.conn = f
  <1> DEFINE d == [c EXCEPT !.conn = f]
  <1>1. d \in Cards /\ d.pcm = c.pcm
    BY DEF Cards
  <1>2. Held(d) = Held(c)
    BY <1>1 DEF Held
  <1> QED
    BY <1>1, <1>2
    DEF Keeps, Users, SameRun, SamePcm, SameDevice, SameLink, Cards

LEMMA SetDevice ==
  ASSUME NEW c \in Cards, NEW f \in Rates
  PROVE  LET d == [c EXCEPT !.device = f] IN
           /\ Keeps(d, c) /\ SameRun(d, c) /\ SamePcm(d, c) /\ SameLink(d, c) /\ d.session = c.session
           /\ d.device = f
  <1> DEFINE d == [c EXCEPT !.device = f]
  <1>1. d \in Cards /\ d.pcm = c.pcm
    BY DEF Cards
  <1>2. Held(d) = Held(c)
    BY <1>1 DEF Held
  <1> QED
    BY <1>1, <1>2
    DEF Keeps, Users, SameRun, SamePcm, SameDevice, SameLink, Cards

LEMMA SetSession ==
  ASSUME NEW c \in Cards, NEW f \in BOOLEAN
  PROVE  LET d == [c EXCEPT !.session = f] IN
           /\ Keeps(d, c) /\ SameRun(d, c) /\ SamePcm(d, c) /\ SameLink(d, c) /\ d.device = c.device
           /\ d.session = f
  <1> DEFINE d == [c EXCEPT !.session = f]
  <1>1. d \in Cards /\ d.pcm = c.pcm
    BY DEF Cards
  <1>2. Held(d) = Held(c)
    BY <1>1 DEF Held
  <1> QED
    BY <1>1, <1>2
    DEF Keeps, Users, SameRun, SamePcm, SameDevice, SameLink, Cards

\* cmp_connection_break() or fw_iso_resources_free()
LEMMA Unlink ==
  ASSUME NEW c \in Cards, NEW s \in Streams
  PROVE  LET d == Disconnect(c, s) IN
           /\ Keeps(d, c) /\ SameRun(d, c) /\ SamePcm(d, c) /\ SameDevice(d, c)
           /\ d.conn = [c.conn EXCEPT ![s] = FALSE]
           /\ d.rate = [c.rate EXCEPT ![s] = IF c.run[s] THEN @ ELSE AnyRate]
  <1> DEFINE f == [c.conn EXCEPT ![s] = FALSE]
             r == [c.rate EXCEPT ![s] = IF c.run[s] THEN @ ELSE AnyRate]
             a == [c EXCEPT !.conn = f]
             b == [a EXCEPT !.rate = r]
  <1>1. f \in Flags /\ r \in [Streams -> Rates \cup {AnyRate}]
    BY DEF Cards, Flags
  <1>2. Disconnect(c, s) = b
    BY DEF Disconnect, Cards
  <1> HIDE DEF f, r
  <1>3. /\ Keeps(a, c) /\ SameRun(a, c) /\ SamePcm(a, c) /\ SameDevice(a, c)
        /\ a.rate = c.rate /\ a.conn = f
    BY <1>1, SetConn
  <1> HIDE DEF a
  <1>4. /\ Keeps(b, a) /\ SameRun(b, a) /\ SamePcm(b, a) /\ SameDevice(b, a)
        /\ b.conn = a.conn /\ b.rate = r
    BY <1>1, <1>3, SetRates DEF Keeps
  <1> HIDE DEF b
  <1> QED
    BY <1>2, <1>3, <1>4 DEF Keeps, SameRun, SamePcm, SameDevice, f, r

----------------------------------------------------------------------------
(* Outcomes of calls *)

\* The calls that change nothing: they end well or not.
LEMMA Outcomes ==
  /\ \A c : \A o \in Good(c) : o.ok = TRUE /\ o.card = c
  /\ \A c : \A o \in Bad(c) : o.ok = FALSE /\ o.card = c
  /\ \A c : \A o \in MayFail(c) : o.ok \in BOOLEAN /\ o.card = c
  /\ \A c : \A o \in WaitCallback(c) : o.ok \in BOOLEAN /\ o.card = c
  BY DEF Good, Bad, MayFail, WaitCallback

\* amdtp_stream_start()
LEMMA StartOutcomes ==
  ASSUME NEW c \in Cards, NEW s \in Streams
  PROVE  \A o \in AmdtpStart(c, s) :
           /\ o.ok \in BOOLEAN /\ Keeps(o.card, c)
           /\ SamePcm(o.card, c) /\ SameDevice(o.card, c) /\ SameLink(o.card, c)
           /\ o.ok => /\ o.card.run = [c.run EXCEPT ![s] = TRUE]
                      /\ o.card.dead = [c.dead EXCEPT ![s] = FALSE]
           /\ ~o.ok => /\ o.card.run = c.run
                       /\ o.card.dead \in {c.dead, [c.dead EXCEPT ![s] = FALSE]}
  <1> DEFINE u == [c.run EXCEPT ![s] = TRUE]
             f == [c.dead EXCEPT ![s] = FALSE]
             a == [c EXCEPT !.dead = f]
             b == [a EXCEPT !.run = u]
  <1>1. u \in Flags /\ f \in Flags
    BY DEF Cards, Flags
  <1>2. AmdtpStart(c, s) = Good(b) \cup Bad(c) \cup Bad(a)
    <2>1. [c EXCEPT !.run[s] = TRUE, !.dead[s] = FALSE] = b
      BY DEF Cards
    <2> QED BY <2>1 DEF AmdtpStart
  <1> HIDE DEF u, f
  <1>3. /\ Keeps(a, c) /\ SamePcm(a, c) /\ SameDevice(a, c) /\ SameLink(a, c)
        /\ a.run = c.run /\ a.dead = f
    BY <1>1, SetDead
  <1> HIDE DEF a
  <1>4. /\ Keeps(b, a) /\ SamePcm(b, a) /\ SameDevice(b, a) /\ SameLink(b, a)
        /\ b.dead = a.dead /\ b.run = u
    BY <1>1, <1>3, SetRun DEF Keeps
  <1> HIDE DEF b
  <1>5. Keeps(b, c) /\ SamePcm(b, c) /\ SameDevice(b, c) /\ SameLink(b, c)
    BY <1>3, <1>4 DEF Keeps, SamePcm, SameDevice, SameLink
  <1>6. Keeps(c, c) /\ SamePcm(c, c) /\ SameDevice(c, c) /\ SameLink(c, c)
    BY DEF Keeps, SamePcm, SameDevice, SameLink
  <1> TAKE o \in AmdtpStart(c, s)
  <1>7. \/ o.ok = TRUE /\ o.card = b
        \/ o.ok = FALSE /\ o.card = c
        \/ o.ok = FALSE /\ o.card = a
    BY <1>2, Outcomes
  <1> QED
    BY <1>3, <1>4, <1>5, <1>6, <1>7 DEF u, f

\* cmp_connection_establish(), fw_iso_resources_allocate()
LEMMA ConnectOutcomes ==
  ASSUME NEW c \in Cards, NEW s \in Streams
  PROVE  \A o \in Connect(c, s) :
           /\ o.ok \in BOOLEAN /\ Keeps(o.card, c) /\ SamePcm(o.card, c)
           /\ SameRun(o.card, c) /\ SameDevice(o.card, c) /\ o.card.rate = c.rate
           /\ o.card.conn = IF o.ok THEN [c.conn EXCEPT ![s] = TRUE] ELSE c.conn
  <1> DEFINE f == [c.conn EXCEPT ![s] = TRUE]
             a == [c EXCEPT !.conn = f]
  <1>1. f \in Flags
    BY DEF Cards, Flags
  <1>2. \A o \in Connect(c, s) : o \in Good(a) \/ o \in Bad(c)
    BY DEF Connect, Cards
  <1> HIDE DEF f
  <1>3. /\ Keeps(a, c) /\ SameRun(a, c) /\ SamePcm(a, c) /\ SameDevice(a, c)
        /\ a.rate = c.rate /\ a.conn = f
    BY <1>1, SetConn
  <1> HIDE DEF a
  <1>4. Keeps(c, c) /\ SameRun(c, c) /\ SamePcm(c, c) /\ SameDevice(c, c)
    BY DEF Keeps, SameRun, SamePcm, SameDevice
  <1> TAKE o \in Connect(c, s)
  <1>5. (o.ok = TRUE /\ o.card = a) \/ (o.ok = FALSE /\ o.card = c)
    BY <1>2, Outcomes
  <1> QED
    BY <1>3, <1>4, <1>5 DEF f

\* cmp_connection_update(), fw_iso_resources_update()
LEMMA ReconnectOutcomes ==
  ASSUME NEW c \in Cards, NEW s \in Streams
  PROVE  \A o \in Reconnect(c, s) :
           /\ o.ok \in BOOLEAN /\ Keeps(o.card, c) /\ SamePcm(o.card, c)
           /\ SameRun(o.card, c) /\ SameDevice(o.card, c) /\ o.card.rate = c.rate
           /\ o.card.conn = IF o.ok THEN c.conn ELSE [c.conn EXCEPT ![s] = FALSE]
  <1> DEFINE f == [c.conn EXCEPT ![s] = FALSE]
             a == [c EXCEPT !.conn = f]
  <1>1. f \in Flags
    BY DEF Cards, Flags
  <1>2. \A o \in Reconnect(c, s) : o \in Good(c) \/ o \in Bad(a)
    BY DEF Reconnect, Cards
  <1> HIDE DEF f
  <1>3. /\ Keeps(a, c) /\ SameRun(a, c) /\ SamePcm(a, c) /\ SameDevice(a, c)
        /\ a.rate = c.rate /\ a.conn = f
    BY <1>1, SetConn
  <1> HIDE DEF a
  <1>4. Keeps(c, c) /\ SameRun(c, c) /\ SamePcm(c, c) /\ SameDevice(c, c)
    BY DEF Keeps, SameRun, SamePcm, SameDevice
  <1> TAKE o \in Reconnect(c, s)
  <1>5. (o.ok = FALSE /\ o.card = a) \/ (o.ok = TRUE /\ o.card = c)
    BY <1>2, Outcomes
  <1> QED
    BY <1>3, <1>4, <1>5 DEF f

LEMMA KeepsTrans ==
  ASSUME NEW b, NEW c, NEW d, Keeps(b, c), Keeps(c, d)
  PROVE  Keeps(b, d)
  BY DEF Keeps

LEMMA KeepsSelf == \A c \in Cards : Keeps(c, c)
  BY DEF Keeps

\* What a call on streams leaves alone, field by field.
LEMMA KeepsFields ==
  ASSUME NEW c \in Cards, NEW d, Keeps(d, c)
  PROVE  /\ d.driver = c.driver /\ d.life = c.life /\ d.dirs = c.dirs
         /\ d.ports = c.ports /\ d.master = c.master /\ d.inited = c.inited
         /\ d.want = c.want /\ d.limit = c.limit /\ d.midi = c.midi
         /\ d.count = c.count /\ d.lock = c.lock /\ d.lost = c.lost
         /\ d.lockLost = c.lockLost /\ d.warned = c.warned /\ d.ghost = c.ghost
         /\ d.waiting = c.waiting
         /\ \A s \in Streams :
              d.pcm[s] = c.pcm[s] \/ (d.pcm[s] = "xrun" /\ c.pcm[s] = "running")
                                  \/ (d.pcm[s] = "running" /\ c.pcm[s] = "xrun")
  <1>1. Held(d) = Held(c)
    BY DEF Keeps, Users
  <1>2. \A s \in Streams : Held(d)[s] = Held(c)[s]
    BY <1>1
  <1>3. \A s \in Streams : (IF d.pcm[s] = "running" THEN "xrun" ELSE d.pcm[s])
                            = (IF c.pcm[s] = "running" THEN "xrun" ELSE c.pcm[s])
    BY <1>2 DEF Held
  <1> QED
    BY <1>3 DEF Keeps, Users

\* A stream of a card, and what its users see of it.
SameStream(d, c, s) ==
  /\ d.run[s] = c.run[s] /\ d.dead[s] = c.dead[s]
  /\ d.conn[s] = c.conn[s] /\ d.rate[s] = c.rate[s]
SameUser(d, c, s) == d.pcm[s] = c.pcm[s] /\ d.missed[s] = c.missed[s]
NoStream(c, s) == ~c.run[s] /\ ~c.conn[s]

\* A PCM that was prepared still has its stream, or is known to be aborted.
Heard(c, s) ==
  c.pcm[s] \in {"prepared", "running"} => c.missed[s] \/ (c.run[s] /\ ~c.dead[s])

\* stop_stream() of OXFW and Dice
LEMMA Stopped ==
  ASSUME NEW c \in Cards, NEW s \in Streams
  PROVE  LET d == Disconnect(AmdtpStop(PcmAbort(c, s), s), s) IN
           /\ Keeps(d, c) /\ SameDevice(d, c)
           /\ NoStream(d, s) /\ d.dead[s] = c.dead[s] /\ Heard(d, s)
           /\ \A t \in Streams : t # s => SameStream(d, c, t) /\ SameUser(d, c, t)
  <1> DEFINE a == PcmAbort(c, s)
             b == AmdtpStop(a, s)
             d == Disconnect(b, s)
  <1>1. /\ Keeps(a, c) /\ SameRun(a, c) /\ SameDevice(a, c) /\ SameLink(a, c)
        /\ a.pcm = [c.pcm EXCEPT ![s] = IF @ = "running" THEN "xrun" ELSE @]
        /\ a.missed = [c.missed EXCEPT ![s] = @ \/ c.pcm[s] = "prepared"]
    BY Abort
  <1> HIDE DEF a
  <1>2. /\ Keeps(b, a) /\ SamePcm(b, a) /\ SameDevice(b, a) /\ SameLink(b, a)
        /\ b.dead = a.dead /\ b.run = [a.run EXCEPT ![s] = FALSE]
    BY <1>1, Stop DEF Keeps
  <1> HIDE DEF b
  <1>3. /\ Keeps(d, b) /\ SameRun(d, b) /\ SamePcm(d, b) /\ SameDevice(d, b)
        /\ d.conn = [b.conn EXCEPT ![s] = FALSE]
        /\ d.rate = [b.rate EXCEPT ![s] = IF b.run[s] THEN @ ELSE AnyRate]
    BY <1>1, <1>2, Unlink DEF Keeps
  <1> HIDE DEF d
  <1>4. /\ Keeps(d, c) /\ SameDevice(d, c)
        /\ d.run = [c.run EXCEPT ![s] = FALSE] /\ d.dead = c.dead
        /\ d.conn = [c.conn EXCEPT ![s] = FALSE]
        /\ d.pcm = [c.pcm EXCEPT ![s] = IF @ = "running" THEN "xrun" ELSE @]
        /\ d.missed = [c.missed EXCEPT ![s] = @ \/ c.pcm[s] = "prepared"]
    BY <1>1, <1>2, <1>3 DEF Keeps, SameRun, SameDevice, SameLink, SamePcm
  <1>5. \A t \in Streams : t # s => d.rate[t] = c.rate[t]
    BY <1>1, <1>2, <1>3 DEF SameLink, Cards, Keeps
  <1>6. \A t \in Streams : t # s => SameStream(d, c, t) /\ SameUser(d, c, t)
    BY <1>4, <1>5 DEF SameStream, SameUser, Cards, Flags
  <1>7. NoStream(d, s) /\ d.dead[s] = c.dead[s]
    BY <1>4 DEF NoStream, Cards, Flags
  <1>8. Heard(d, s)
    <2>1. c.pcm[s] # "prepared" => d.pcm[s] \notin {"prepared", "running"}
      BY <1>4 DEF Cards, PcmStates
    <2>2. c.pcm[s] = "prepared" => d.missed[s]
      BY <1>4 DEF Cards, Flags
    <2> QED BY <2>1, <2>2 DEF Heard
  <1> QED BY <1>4, <1>6, <1>7, <1>8 DEF d, b, a

\* The parameters of a stream are set, then it is connected.
LEMMA Linked ==
  ASSUME NEW c \in Cards, NEW s \in Streams, NEW rate \in Rates
  PROVE  \A o \in Connect([c EXCEPT !.rate[s] = rate], s) :
           /\ o.ok \in BOOLEAN /\ Keeps(o.card, c) /\ SameDevice(o.card, c)
           /\ SamePcm(o.card, c) /\ SameRun(o.card, c) /\ o.card.rate[s] = rate
           /\ o.card.conn[s] = (o.ok \/ c.conn[s])
           /\ \A t \in Streams : t # s => SameStream(o.card, c, t)
  <1> DEFINE r == [c.rate EXCEPT ![s] = rate]
             a == [c EXCEPT !.rate = r]
  <1>1. [c EXCEPT !.rate[s] = rate] = a
    BY DEF Cards
  <1>2. r \in [Streams -> Rates \cup {AnyRate}] /\ r[s] = rate
        /\ \A t \in Streams : t # s => r[t] = c.rate[t]
    BY DEF Cards
  <1> HIDE DEF r
  <1>3. /\ Keeps(a, c) /\ SameRun(a, c) /\ SamePcm(a, c) /\ SameDevice(a, c)
        /\ a.conn = c.conn /\ a.rate = r
    BY <1>2, SetRates
  <1> HIDE DEF a
  <1> SUFFICES ASSUME NEW o \in Connect(a, s)
               PROVE  /\ o.ok \in BOOLEAN /\ Keeps(o.card, c) /\ SameDevice(o.card, c)
                      /\ SamePcm(o.card, c) /\ SameRun(o.card, c) /\ o.card.rate[s] = rate
                      /\ o.card.conn[s] = (o.ok \/ c.conn[s])
                      /\ \A t \in Streams : t # s => SameStream(o.card, c, t)
    BY <1>1
  <1> DEFINE e == o.card
  <1>4. /\ o.ok \in BOOLEAN /\ Keeps(e, a) /\ SamePcm(e, a)
        /\ SameRun(e, a) /\ SameDevice(e, a) /\ e.rate = a.rate
        /\ e.conn = IF o.ok THEN [a.conn EXCEPT ![s] = TRUE] ELSE a.conn
    BY <1>3, ConnectOutcomes DEF Keeps
  <1> HIDE DEF e
  <1>5. /\ Keeps(e, c) /\ SamePcm(e, c) /\ SameRun(e, c) /\ SameDevice(e, c)
        /\ e.rate = r
        /\ e.conn = IF o.ok THEN [c.conn EXCEPT ![s] = TRUE] ELSE c.conn
    BY <1>3, <1>4 DEF Keeps, SamePcm, SameRun, SameDevice
  <1>6. \A t \in Streams : t # s => SameStream(e, c, t)
    BY <1>2, <1>5 DEF SameStream, SameRun, Cards, Flags
  <1>7. e.conn[s] = (o.ok \/ c.conn[s]) /\ e.rate[s] = rate
    <2>1. CASE o.ok
      BY <1>2, <1>5, <2>1 DEF Cards, Flags
    <2>2. CASE ~o.ok
      BY <1>2, <1>4, <1>5, <2>2 DEF Cards, Flags
    <2> QED BY <2>1, <2>2
  <1> QED BY <1>4, <1>5, <1>6, <1>7 DEF e

\* amdtp_stream_start(), after which an error frees what the stream had.
LEMMA Ran ==
  ASSUME NEW c \in Cards, NEW s \in Streams, ~c.run[s]
  PROVE  \A o \in OrUndo(AmdtpStart(c, s), LAMBDA e : Disconnect(e, s)) :
           /\ o.ok \in BOOLEAN /\ Keeps(o.card, c) /\ SameDevice(o.card, c)
           /\ SamePcm(o.card, c)
           /\ o.ok => /\ o.card.run[s] /\ ~o.card.dead[s]
                      /\ o.card.conn[s] = c.conn[s] /\ o.card.rate[s] = c.rate[s]
           /\ ~o.ok => NoStream(o.card, s)
           /\ \A t \in Streams : t # s => SameStream(o.card, c, t)
  <1> DEFINE Goal(o) ==
               /\ o.ok \in BOOLEAN /\ Keeps(o.card, c) /\ SameDevice(o.card, c)
               /\ SamePcm(o.card, c)
               /\ o.ok => /\ o.card.run[s] /\ ~o.card.dead[s]
                          /\ o.card.conn[s] = c.conn[s] /\ o.card.rate[s] = c.rate[s]
               /\ ~o.ok => NoStream(o.card, s)
               /\ \A t \in Streams : t # s => SameStream(o.card, c, t)
  <1> SUFFICES ASSUME NEW o \in OrUndo(AmdtpStart(c, s), LAMBDA e : Disconnect(e, s))
               PROVE  Goal(o)
    OBVIOUS
  <1>1. PICK p \in AmdtpStart(c, s) :
          o = IF p.ok THEN p ELSE [ok |-> FALSE, card |-> Disconnect(p.card, s)]
    BY DEF OrUndo
  <1> DEFINE e == p.card
             f == Disconnect(e, s)
  <1>2. /\ p.ok \in BOOLEAN /\ Keeps(e, c)
        /\ SamePcm(e, c) /\ SameDevice(e, c) /\ SameLink(e, c)
        /\ p.ok => /\ e.run = [c.run EXCEPT ![s] = TRUE]
                   /\ e.dead = [c.dead EXCEPT ![s] = FALSE]
        /\ ~p.ok => /\ e.run = c.run
                    /\ e.dead \in {c.dead, [c.dead EXCEPT ![s] = FALSE]}
    BY StartOutcomes
  <1>3. CASE p.ok
    <2>1. o.ok = TRUE /\ o.card = e
      BY <1>1, <1>2, <1>3
    <2> HIDE DEF e
    <2>2. /\ e.run[s] /\ ~e.dead[s]
          /\ \A t \in Streams : t # s => SameStream(e, c, t)
      BY <1>2, <1>3 DEF SameLink, SameStream, Cards, Flags
    <2>3. e.conn[s] = c.conn[s] /\ e.rate[s] = c.rate[s]
      BY <1>2 DEF SameLink
    <2> QED BY <1>2, <2>1, <2>2, <2>3
  <1>4. CASE ~p.ok
    <2>1. o.ok = FALSE /\ o.card = f
      BY <1>1, <1>4
    <2> HIDE DEF e
    <2>2. /\ Keeps(f, e) /\ SameRun(f, e) /\ SamePcm(f, e) /\ SameDevice(f, e)
          /\ f.conn = [e.conn EXCEPT ![s] = FALSE]
          /\ f.rate = [e.rate EXCEPT ![s] = IF e.run[s] THEN @ ELSE AnyRate]
      BY <1>2, Unlink DEF Keeps
    <2> HIDE DEF f
    <2>3. /\ Keeps(f, c) /\ SamePcm(f, c) /\ SameDevice(f, c)
          /\ f.run = c.run /\ f.dead \in {c.dead, [c.dead EXCEPT ![s] = FALSE]}
          /\ f.conn = [c.conn EXCEPT ![s] = FALSE]
      BY <1>2, <1>4, <2>2 DEF Keeps, SamePcm, SameLink, SameRun, SameDevice
    <2>4. \A t \in Streams : t # s => f.rate[t] = c.rate[t]
      BY <1>2, <2>2 DEF SameLink, Cards
    <2>5. \A t \in Streams : t # s => SameStream(f, c, t)
      BY <2>3, <2>4 DEF SameStream, Cards, Flags
    <2>6. NoStream(f, s)
      BY <2>3 DEF NoStream, Cards, Flags
    <2> QED BY <2>1, <2>3, <2>5, <2>6
  <1> QED BY <1>2, <1>3, <1>4

----------------------------------------------------------------------------
(* The streams of OXFW *)

\* Packets go where a connection is, at the rate of the device.
OxfwSound(c) ==
  /\ \A s \in Streams : (c.run[s] => c.conn[s]) /\ Heard(c, s)
  /\ c.run["rx"] => c.rate["rx"] = c.device
  /\ ~c.session
\* The same, of all streams but s.
OxfwOthers(c, s) ==
  /\ \A t \in Streams : t # s => (c.run[t] => c.conn[t]) /\ Heard(c, t)
  /\ s # "rx" => (c.run["rx"] => c.rate["rx"] = c.device)
  /\ ~c.session
OxfwUnused(c) == \A s \in Streams : c.count[s] = 0 => NoStream(c, s)

\* stop_stream() ends the one stream, and repairs what only that one lacked.
LEMMA OxfwStopped ==
  ASSUME NEW c \in Cards, NEW s \in Streams
  PROVE  LET d == OxfwStopStream(c, s) IN
           /\ Keeps(d, c) /\ SameDevice(d, c) /\ NoStream(d, s)
           /\ \A t \in Streams : t # s => SameStream(d, c, t)
           /\ OxfwOthers(c, s) => OxfwSound(d)
           /\ OxfwSound(c) => OxfwSound(d)
  <1> DEFINE d == OxfwStopStream(c, s)
  <1>1. /\ Keeps(d, c) /\ SameDevice(d, c) /\ NoStream(d, s) /\ Heard(d, s)
        /\ \A t \in Streams : t # s => SameStream(d, c, t) /\ SameUser(d, c, t)
    BY Stopped DEF OxfwStopStream
  <1> HIDE DEF d
  <1>2. ASSUME OxfwOthers(c, s) PROVE OxfwSound(d)
    <2>1. \A t \in Streams : (d.run[t] => d.conn[t]) /\ Heard(d, t)
      BY <1>1, <1>2 DEF OxfwOthers, Heard, SameStream, SameUser, NoStream
    <2>2. (d.run["rx"] => d.rate["rx"] = d.device) /\ ~d.session
      BY <1>1, <1>2 DEF OxfwOthers, SameDevice, SameStream, NoStream, Streams
    <2> QED BY <2>1, <2>2 DEF OxfwSound
  <1>3. OxfwSound(c) => OxfwOthers(c, s)
    BY DEF OxfwSound, OxfwOthers
  <1> QED BY <1>1, <1>2, <1>3 DEF d

\* What a call may come to that starts the stream s of c.
OxfwOutcome(o, c, s) ==
  /\ o.ok \in BOOLEAN /\ Keeps(o.card, c) /\ OxfwSound(o.card)
  /\ SameDevice(o.card, c)
  /\ \A t \in Streams : t # s => SameStream(o.card, c, t)
OxfwStarted(o, c, s) ==
  OxfwOutcome(o, c, s) /\ (o.ok => o.card.run[s] /\ ~o.card.dead[s])

\* start_stream(), of a stream that does not run
LEMMA OxfwStarts ==
  ASSUME NEW c \in Cards, NEW s \in Streams, NEW rate \in Rates,
         OxfwSound(c), ~c.run[s], s = "rx" => rate = c.device
  PROVE  \A o \in OxfwStartStream(c, s, rate) : OxfwStarted(o, c, s)
  <1> DEFINE a == [c EXCEPT !.rate[s] = rate]
             Start(d) == OrUndo(AmdtpStart(d, s), LAMBDA e : Disconnect(e, s))
             Wait(d) == OrUndo(WaitCallback(d), LAMBDA e : OxfwStopStream(e, s))
             Run == Then(Connect(a, s), Start)
  <1>1. OxfwStartStream(c, s, rate) = Bad(c) \cup Then(Run, Wait)
    BY DEF OxfwStartStream
  <1>2. ASSUME NEW o \in Connect(a, s)
        PROVE  /\ OxfwOutcome(o, c, s)
               /\ ~o.card.run[s]
               /\ o.ok => o.card.conn[s] /\ o.card.rate[s] = rate
    <2> DEFINE e == o.card
    <2>1. /\ o.ok \in BOOLEAN /\ Keeps(e, c) /\ SameDevice(e, c)
          /\ SamePcm(e, c) /\ SameRun(e, c) /\ e.rate[s] = rate
          /\ e.conn[s] = (o.ok \/ c.conn[s])
          /\ \A t \in Streams : t # s => SameStream(e, c, t)
      BY Linked
    <2> HIDE DEF e
    <2>2. \A t \in Streams : (e.run[t] => e.conn[t]) /\ Heard(e, t)
      BY <2>1 DEF OxfwSound, Heard, SameStream, SamePcm, SameRun
    <2>3. (e.run["rx"] => e.rate["rx"] = e.device) /\ ~e.session
      BY <2>1 DEF OxfwSound, SameDevice, SameStream, SameRun, Streams
    <2>4. ~e.run[s] /\ (o.ok => e.conn[s])
      BY <2>1 DEF SameRun
    <2> QED BY <2>1, <2>2, <2>3, <2>4 DEF OxfwOutcome, OxfwSound, e
  <1>3. ASSUME NEW d \in Cards, OxfwSound(d), ~d.run[s], d.conn[s],
               s = "rx" => d.rate["rx"] = d.device,
               NEW o \in Start(d)
        PROVE  OxfwStarted(o, d, s)
    <2> DEFINE e == o.card
    <2>1. /\ o.ok \in BOOLEAN /\ Keeps(e, d) /\ SameDevice(e, d) /\ SamePcm(e, d)
          /\ o.ok => /\ e.run[s] /\ ~e.dead[s]
                     /\ e.conn[s] = d.conn[s] /\ e.rate[s] = d.rate[s]
          /\ ~o.ok => NoStream(e, s)
          /\ \A t \in Streams : t # s => SameStream(e, d, t)
      BY <1>3, Ran
    <2> HIDE DEF e
    <2>2. \A t \in Streams : (e.run[t] => e.conn[t]) /\ Heard(e, t)
      BY <2>1, <1>3 DEF OxfwSound, Heard, SameStream, SamePcm, NoStream
    <2>3. (e.run["rx"] => e.rate["rx"] = e.device) /\ ~e.session
      BY <2>1, <1>3 DEF OxfwSound, SameDevice, SameStream, NoStream, Streams
    <2> QED BY <2>1, <2>2, <2>3 DEF OxfwOutcome, OxfwStarted, OxfwSound, e
  <1>4. ASSUME NEW d \in Cards, OxfwSound(d), d.run[s], ~d.dead[s],
               NEW o \in Wait(d)
        PROVE  OxfwStarted(o, d, s)
    <2>1. PICK p \in WaitCallback(d) :
            o = IF p.ok THEN p ELSE [ok |-> FALSE, card |-> OxfwStopStream(p.card, s)]
      BY DEF OrUndo
    <2>2. p.ok \in BOOLEAN /\ p.card = d
      BY Outcomes
    <2>3. CASE p.ok
      <3>1. o.ok = TRUE /\ o.card = d
        BY <2>1, <2>2, <2>3
      <3> QED BY <3>1, <1>4 DEF OxfwOutcome, OxfwStarted, Keeps, SameDevice, SameStream
    <2>4. CASE ~p.ok
      <3>1. o.ok = FALSE /\ o.card = OxfwStopStream(d, s)
        BY <2>1, <2>2, <2>4
      <3> QED BY <3>1, <1>4, OxfwStopped DEF OxfwOutcome, OxfwStarted
    <2> QED BY <2>2, <2>3, <2>4
  <1> HIDE DEF Start, Wait, a
  <1>7. ASSUME NEW o \in Run PROVE OxfwStarted(o, c, s)
    <2>1. PICK p \in Connect(a, s) : o \in IF p.ok THEN Start(p.card) ELSE {p}
      BY DEF Then
    <2>2. /\ OxfwOutcome(p, c, s) /\ ~p.card.run[s]
          /\ p.ok => p.card.conn[s] /\ p.card.rate[s] = rate
      BY <1>2
    <2>3. CASE p.ok
      <3>1. o \in Start(p.card)
        BY <2>1, <2>3
      <3>2. /\ p.card \in Cards /\ OxfwSound(p.card) /\ p.card.conn[s]
            /\ s = "rx" => p.card.rate["rx"] = p.card.device
        BY <2>2, <2>3 DEF OxfwOutcome, Keeps, SameDevice
      <3>3. OxfwStarted(o, p.card, s)
        BY <1>3, <2>2, <3>1, <3>2
      <3> QED BY <2>2, <3>3 DEF OxfwStarted, OxfwOutcome, Keeps, SameDevice, SameStream
    <2>4. CASE ~p.ok
      BY <2>1, <2>2, <2>4 DEF OxfwStarted
    <2> QED BY <2>2, <2>3, <2>4 DEF OxfwOutcome
  <1> HIDE DEF Run
  <1>8. ASSUME NEW o \in Then(Run, Wait) PROVE OxfwStarted(o, c, s)
    <2>1. PICK p \in Run : o \in IF p.ok THEN Wait(p.card) ELSE {p}
      BY DEF Then
    <2>2. OxfwStarted(p, c, s)
      BY <1>7
    <2>3. CASE p.ok
      <3>1. o \in Wait(p.card)
        BY <2>1, <2>3
      <3>2. p.card \in Cards /\ OxfwSound(p.card) /\ p.card.run[s] /\ ~p.card.dead[s]
        BY <2>2, <2>3 DEF OxfwStarted, OxfwOutcome, Keeps
      <3>3. OxfwStarted(o, p.card, s)
        BY <1>4, <3>1, <3>2
      <3> QED BY <2>2, <3>3 DEF OxfwStarted, OxfwOutcome, Keeps, SameDevice, SameStream
    <2>4. CASE ~p.ok
      BY <2>1, <2>2, <2>4 DEF OxfwStarted
    <2> QED BY <2>2, <2>3, <2>4 DEF OxfwStarted, OxfwOutcome
  <1>9. ASSUME NEW o \in Bad(c) PROVE OxfwStarted(o, c, s)
    <2>1. o.ok = FALSE /\ o.card = c
      BY Outcomes
    <2> QED BY <2>1 DEF OxfwOutcome, OxfwStarted, Keeps, SameDevice, SameStream
  <1> QED BY <1>1, <1>8, <1>9

\* What a call may come to on a card whose streams are in order.
OxfwReached(o, c) ==
  /\ o.ok \in BOOLEAN /\ Keeps(o.card, c)
  /\ OxfwSound(o.card) /\ OxfwUnused(o.card)

\* Stopping any stream keeps those without users quiet.
LEMMA OxfwStoppedUnused ==
  ASSUME NEW c \in Cards, NEW s \in Streams, OxfwOthers(c, s),
         \A t \in Streams : t # s /\ c.count[t] = 0 => NoStream(c, t)
  PROVE  /\ Keeps(OxfwStopStream(c, s), c)
         /\ OxfwSound(OxfwStopStream(c, s)) /\ OxfwUnused(OxfwStopStream(c, s))
  <1> DEFINE d == OxfwStopStream(c, s)
  <1>1. /\ Keeps(d, c) /\ NoStream(d, s) /\ OxfwSound(d)
        /\ \A t \in Streams : t # s => SameStream(d, c, t)
    BY OxfwStopped
  <1> HIDE DEF d
  <1>2. d.count = c.count
    BY <1>1, KeepsFields
  <1>3. OxfwUnused(d)
    BY <1>1, <1>2 DEF OxfwUnused, NoStream, SameStream
  <1> QED BY <1>1, <1>3 DEF d

\* The change of format leaves nothing running at another rate.
LEMMA OxfwChangesFormat ==
  ASSUME NEW c \in Cards, NEW s \in Streams, NEW rate \in Rates,
         OxfwSound(c), OxfwUnused(c), c.count[s] # 0
  PROVE  \A o \in OxfwChangeFormat(c, s, rate) :
           /\ OxfwReached(o, c)
           /\ o.ok => o.card.device = rate /\ (o.card.run[s] => ~o.card.dead[s])
  <1> DEFINE StopOpposite(d) ==
               IF OxfwOpposite(d, s) = {} THEN d ELSE OxfwStopStream(d, "rx")
             RestartOpposite(d) ==
               IF OxfwOpposite(d, s) # {} /\ ~d.run["rx"] /\ d.count[Other(s)] > 0
               THEN OxfwStartStream(d, "rx", rate) ELSE Good(d)
             Checked == IF OxfwOpposite(c, s) = {} THEN Good(c) ELSE MayFail(c)
             Set(d) == OxfwSetStreamFormat(OxfwStopStream(StopOpposite(d), s), rate)
             Formatted == Then(Checked, Set)
  <1>1. OxfwChangeFormat(c, s, rate) = Then(Formatted, RestartOpposite)
    BY DEF OxfwChangeFormat
  <1>2. OxfwReached([ok |-> TRUE, card |-> c], c)
    BY DEF OxfwReached, Keeps
  <1>3. \A o \in Checked : o.ok \in BOOLEAN /\ o.card = c
    BY Outcomes
  <1>4. ASSUME NEW o \in Set(c)
        PROVE  /\ OxfwReached(o, c) /\ ~o.card.run[s]
               /\ o.ok => o.card.device = rate
    <2> DEFINE a == StopOpposite(c)
               b == OxfwStopStream(a, s)
               e == [b EXCEPT !.device = rate]
    <2>1. Keeps(a, c) /\ OxfwSound(a) /\ OxfwUnused(a)
          /\ (OxfwOpposite(c, s) # {} => ~a.run["rx"])
      <3>1. CASE OxfwOpposite(c, s) = {}
        BY <3>1 DEF Keeps
      <3>2. CASE OxfwOpposite(c, s) # {}
        <4>1. Keeps(OxfwStopStream(c, "rx"), c) /\ OxfwSound(OxfwStopStream(c, "rx"))
              /\ OxfwUnused(OxfwStopStream(c, "rx"))
          BY OxfwStoppedUnused DEF OxfwUnused, OxfwSound, OxfwOthers, Streams
        <4>2. ~OxfwStopStream(c, "rx").run["rx"]
          BY OxfwStopped DEF NoStream, Streams
        <4> QED BY <4>1, <4>2, <3>2
      <3> QED BY <3>1, <3>2
    <2>2. OxfwOpposite(c, s) = {} => s = "rx" \/ ~c.run["rx"]
      BY DEF OxfwOpposite, Streams
    <2> HIDE DEF a
    <2>3. /\ Keeps(b, a) /\ OxfwSound(b) /\ OxfwUnused(b) /\ ~b.run[s]
          /\ (OxfwOpposite(c, s) # {} => ~b.run["rx"])
      <3>1. a \in Cards
        BY <2>1 DEF Keeps
      <3>2. Keeps(b, a) /\ OxfwSound(b) /\ OxfwUnused(b)
        BY <3>1, <2>1, OxfwStoppedUnused DEF OxfwUnused, OxfwSound, OxfwOthers
      <3>3. NoStream(b, s) /\ \A t \in Streams : t # s => SameStream(b, a, t)
        BY <3>1, OxfwStopped
      <3> QED BY <3>2, <3>3, <2>1 DEF NoStream, SameStream, Streams
    <2>4. ~b.run["rx"]
      <3>1. s = "tx" => OxfwOpposite(c, s) # {}
        BY DEF OxfwOpposite
      <3> QED BY <3>1, <2>3 DEF Streams
    <2>5. o \in MayFail(e) \/ o \in Bad(b)
      BY DEF OxfwSetStreamFormat, a
    <2> HIDE DEF b
    <2>6. /\ Keeps(e, b) /\ SameRun(e, b) /\ SamePcm(e, b) /\ SameLink(e, b)
          /\ e.session = b.session /\ e.device = rate
      BY <2>3, SetDevice DEF Keeps
    <2> HIDE DEF e
    <2>7. OxfwSound(e) /\ ~e.run[s]
      BY <2>3, <2>4, <2>6
      DEF OxfwSound, Heard, SameRun, SamePcm, SameLink
    <2>8. OxfwUnused(e)
      <3>1. e.count = b.count
        BY <2>6, <2>3, KeepsFields DEF Keeps
      <3> QED BY <3>1, <2>3, <2>6 DEF OxfwUnused, NoStream, SameRun, SameLink
    <2>9. Keeps(b, c) /\ Keeps(e, c)
      BY <2>1, <2>3, <2>6 DEF Keeps
    <2>10. \/ o.ok \in BOOLEAN /\ o.card = e
           \/ o.ok = FALSE /\ o.card = b
      BY <2>5, Outcomes
    <2> QED BY <2>3, <2>6, <2>7, <2>8, <2>9, <2>10 DEF OxfwReached
  <1> HIDE DEF Set, Checked
  <1>5. ASSUME NEW o \in Formatted
        PROVE  /\ OxfwReached(o, c)
               /\ o.ok => o.card.device = rate /\ ~o.card.run[s]
    <2>1. PICK p \in Checked : o \in IF p.ok THEN Set(p.card) ELSE {p}
      BY DEF Then
    <2>2. p.ok \in BOOLEAN /\ p.card = c
      BY <1>3
    <2>3. CASE p.ok
      BY <2>1, <2>2, <2>3, <1>4
    <2>4. CASE ~p.ok
      <3>1. o.ok = FALSE /\ o.card = c
        BY <2>1, <2>2, <2>4
      <3> QED BY <3>1 DEF OxfwReached, Keeps
    <2> QED BY <2>2, <2>3, <2>4
  <1> HIDE DEF Formatted
  <1>6. ASSUME NEW d, Keeps(d, c), OxfwSound(d), OxfwUnused(d), d.device = rate,
               ~d.run[s], NEW o \in RestartOpposite(d)
        PROVE  /\ OxfwReached(o, d)
               /\ o.ok => o.card.device = rate /\ (o.card.run[s] => ~o.card.dead[s])
    <2>0. d \in Cards /\ d.count = c.count
      BY <1>6, KeepsFields DEF Keeps
    <2>1. CASE OxfwOpposite(d, s) # {} /\ ~d.run["rx"] /\ d.count[Other(s)] > 0
      <3>1. o \in OxfwStartStream(d, "rx", rate)
        BY <2>1
      <3>2. OxfwStarted(o, d, "rx")
        BY <2>0, <2>1, <3>1, <1>6, OxfwStarts DEF Streams
      <3>3. d.count["rx"] # 0
        BY <2>0, <2>1 DEF Other, Streams
      <3> DEFINE e == o.card
      <3> HIDE DEF e
      <3>4. /\ o.ok \in BOOLEAN /\ Keeps(e, d) /\ OxfwSound(e) /\ e.device = rate
            /\ \A t \in Streams : t # "rx" => SameStream(e, d, t)
            /\ o.ok => e.run["rx"] /\ ~e.dead["rx"]
        BY <3>2, <1>6 DEF OxfwStarted, OxfwOutcome, SameDevice, e
      <3>5. e.count = d.count
        BY <3>4, <2>0, KeepsFields
      <3>6. OxfwUnused(e)
        BY <3>3, <3>4, <3>5, <1>6 DEF OxfwUnused, NoStream, SameStream
      <3>7. o.ok => (e.run[s] => ~e.dead[s])
        BY <3>4, <1>6 DEF SameStream, Streams
      <3> QED BY <3>4, <3>6, <3>7 DEF OxfwReached, e
    <2>2. CASE ~(OxfwOpposite(d, s) # {} /\ ~d.run["rx"] /\ d.count[Other(s)] > 0)
      <3>1. o.ok = TRUE /\ o.card = d
        BY <2>2, Outcomes
      <3> QED BY <3>1, <2>0, <1>6 DEF OxfwReached, Keeps
    <2> QED BY <2>1, <2>2
  <1> HIDE DEF RestartOpposite
  <1>7. ASSUME NEW o \in Then(Formatted, RestartOpposite)
        PROVE  /\ OxfwReached(o, c)
               /\ o.ok => o.card.device = rate /\ (o.card.run[s] => ~o.card.dead[s])
    <2>1. PICK p \in Formatted : o \in IF p.ok THEN RestartOpposite(p.card) ELSE {p}
      BY DEF Then
    <2>2. OxfwReached(p, c) /\ (p.ok => p.card.device = rate /\ ~p.card.run[s])
      BY <1>5
    <2>3. CASE p.ok
      <3>1. o \in RestartOpposite(p.card)
        BY <2>1, <2>3
      <3>2. /\ OxfwReached(o, p.card)
            /\ o.ok => o.card.device = rate /\ (o.card.run[s] => ~o.card.dead[s])
        BY <3>1, <2>2, <2>3, <1>6 DEF OxfwReached
      <3> QED BY <3>2, <2>2 DEF OxfwReached, Keeps
    <2>4. CASE ~p.ok
      BY <2>1, <2>2, <2>4
    <2> QED BY <2>2, <2>3, <2>4 DEF OxfwReached
  <1> QED BY <1>1, <1>7

\* snd_oxfw_stream_start_simplex(): a good end means a stream that runs.
LEMMA OxfwStartsSimplex ==
  ASSUME NEW c \in Cards, NEW s \in Streams, NEW rate \in Rates \cup {AnyRate},
         OxfwSound(c), OxfwUnused(c)
  PROVE  \A o \in OxfwStartSimplex(c, s, rate) :
           /\ OxfwReached(o, c)
           /\ o.ok /\ c.count[s] # 0 =>
                /\ o.card.run[s] /\ ~o.card.dead[s]
                /\ s = "rx" /\ rate # AnyRate => o.card.rate["rx"] = rate
  <1> DEFINE Format(d) ==
               (IF rate \in {AnyRate, d.device} THEN Good(d) ELSE {})
               \cup (IF rate = AnyRate THEN {} ELSE OxfwChangeFormat(d, s, rate))
             Start(d) == IF d.run[s] THEN Good(d) ELSE OxfwStartStream(d, s, d.device)
             Alive(d) == MayFail(IF d.dead[s] THEN OxfwStopStream(d, s) ELSE d)
             Rest(d) == Then(Format(d), Start)
             First == Then(MayFail(c), Alive)
  <1>1. OxfwStartSimplex(c, s, rate)
          = IF c.count[s] = 0 THEN Good(c) ELSE Then(First, Rest)
    BY DEF OxfwStartSimplex
  <1>2. ASSUME c.count[s] = 0, NEW o \in Good(c)
        PROVE  OxfwReached(o, c)
    BY Outcomes DEF OxfwReached, Keeps
  <1>3. ASSUME NEW o \in Alive(c)
        PROVE  OxfwReached(o, c) /\ (o.card.run[s] => ~o.card.dead[s])
    <2>1. CASE c.dead[s]
      <3>1. o.ok \in BOOLEAN /\ o.card = OxfwStopStream(c, s)
        BY <2>1, Outcomes
      <3>2. Keeps(o.card, c) /\ OxfwSound(o.card) /\ OxfwUnused(o.card)
        BY <3>1, OxfwStoppedUnused DEF OxfwUnused, OxfwSound, OxfwOthers
      <3>3. ~o.card.run[s]
        BY <3>1, OxfwStopped DEF NoStream
      <3> QED BY <3>1, <3>2, <3>3 DEF OxfwReached
    <2>2. CASE ~c.dead[s]
      <3>1. o.ok \in BOOLEAN /\ o.card = c
        BY <2>2, Outcomes
      <3> QED BY <3>1, <2>2 DEF OxfwReached, Keeps
    <2> QED BY <2>1, <2>2
  <1> HIDE DEF Alive
  <1>4. ASSUME NEW o \in First
        PROVE  OxfwReached(o, c) /\ (o.ok => (o.card.run[s] => ~o.card.dead[s]))
    <2>1. PICK p \in MayFail(c) : o \in IF p.ok THEN Alive(p.card) ELSE {p}
      BY DEF Then
    <2>2. p.ok \in BOOLEAN /\ p.card = c
      BY Outcomes
    <2>3. CASE p.ok
      BY <2>1, <2>2, <2>3, <1>3
    <2>4. CASE ~p.ok
      <3>1. o.ok = FALSE /\ o.card = c
        BY <2>1, <2>2, <2>4
      <3> QED BY <3>1 DEF OxfwReached, Keeps
    <2> QED BY <2>2, <2>3, <2>4
  <1> HIDE DEF First
  <1>5. ASSUME NEW d, Keeps(d, c), OxfwSound(d), OxfwUnused(d), c.count[s] # 0,
               d.run[s] => ~d.dead[s], NEW o \in Format(d)
        PROVE  /\ OxfwReached(o, c)
               /\ o.ok => /\ rate \in {AnyRate, o.card.device}
                          /\ o.card.run[s] => ~o.card.dead[s]
    <2>0. d \in Cards /\ d.count = c.count
      BY <1>5, KeepsFields DEF Keeps
    <2>1. CASE o \in Good(d) /\ rate \in {AnyRate, d.device}
      <3>1. o.ok = TRUE /\ o.card = d
        BY <2>1, Outcomes
      <3> QED BY <3>1, <2>0, <2>1, <1>5 DEF OxfwReached
    <2>2. CASE o \in OxfwChangeFormat(d, s, rate) /\ rate # AnyRate
      <3>0. rate \in Rates
        BY <2>2
      <3>1. /\ OxfwReached(o, d)
            /\ o.ok => o.card.device = rate /\ (o.card.run[s] => ~o.card.dead[s])
        BY <2>0, <2>2, <1>5, <3>0, OxfwChangesFormat
      <3> QED BY <3>1, <1>5 DEF OxfwReached, Keeps
    <2> QED BY <1>5, <2>1, <2>2
  <1>6. ASSUME NEW d, Keeps(d, c), OxfwSound(d), OxfwUnused(d), c.count[s] # 0,
               d.run[s] => ~d.dead[s], rate \in {AnyRate, d.device}, NEW o \in Start(d)
        PROVE  /\ OxfwReached(o, c)
               /\ o.ok => /\ o.card.run[s] /\ ~o.card.dead[s]
                          /\ s = "rx" /\ rate # AnyRate => o.card.rate["rx"] = rate
    <2>0. d \in Cards /\ d.count = c.count /\ d.device \in Rates
      BY <1>6, KeepsFields DEF Keeps, Cards
    <2>1. CASE d.run[s]
      <3>1. o.ok = TRUE /\ o.card = d
        BY <2>1, Outcomes
      <3> QED BY <3>1, <2>1, <1>6 DEF OxfwReached, OxfwSound
    <2>2. CASE ~d.run[s]
      <3> DEFINE e == o.card
      <3>1. OxfwStarted(o, d, s)
        BY <2>0, <2>2, <1>6, OxfwStarts
      <3>2. e.count = d.count
        BY <3>1, <2>0, KeepsFields DEF OxfwStarted, OxfwOutcome
      <3> HIDE DEF e
      <3>3. /\ o.ok \in BOOLEAN /\ Keeps(e, d) /\ OxfwSound(e) /\ e.device = d.device
            /\ \A t \in Streams : t # s => SameStream(e, d, t)
            /\ o.ok => e.run[s] /\ ~e.dead[s]
        BY <3>1 DEF OxfwStarted, OxfwOutcome, SameDevice, e
      <3>4. OxfwUnused(e)
        BY <3>2, <3>3, <2>0, <1>6 DEF OxfwUnused, NoStream, SameStream
      <3>5. o.ok /\ s = "rx" /\ rate # AnyRate => e.rate["rx"] = rate
        BY <3>3, <1>6 DEF OxfwSound
      <3> QED BY <3>3, <3>4, <3>5, <1>6 DEF OxfwReached, Keeps, e
    <2> QED BY <2>1, <2>2
  <1> HIDE DEF Format, Start
  <1>7. ASSUME NEW d, Keeps(d, c), OxfwSound(d), OxfwUnused(d), c.count[s] # 0,
               d.run[s] => ~d.dead[s], NEW o \in Rest(d)
        PROVE  /\ OxfwReached(o, c)
               /\ o.ok => /\ o.card.run[s] /\ ~o.card.dead[s]
                          /\ s = "rx" /\ rate # AnyRate => o.card.rate["rx"] = rate
    <2>1. PICK p \in Format(d) : o \in IF p.ok THEN Start(p.card) ELSE {p}
      BY DEF Then
    <2>2. /\ OxfwReached(p, c)
          /\ p.ok => /\ rate \in {AnyRate, p.card.device}
                     /\ p.card.run[s] => ~p.card.dead[s]
      BY <1>5, <1>7
    <2>3. CASE p.ok
      <3>1. o \in Start(p.card)
        BY <2>1, <2>3
      <3> QED BY <3>1, <2>2, <2>3, <1>6, <1>7 DEF OxfwReached
    <2>4. CASE ~p.ok
      BY <2>1, <2>2, <2>4
    <2> QED BY <2>2, <2>3, <2>4 DEF OxfwReached
  <1> HIDE DEF Rest
  <1>8. ASSUME c.count[s] # 0, NEW o \in Then(First, Rest)
        PROVE  /\ OxfwReached(o, c)
               /\ o.ok => /\ o.card.run[s] /\ ~o.card.dead[s]
                          /\ s = "rx" /\ rate # AnyRate => o.card.rate["rx"] = rate
    <2>1. PICK p \in First : o \in IF p.ok THEN Rest(p.card) ELSE {p}
      BY DEF Then
    <2>2. OxfwReached(p, c) /\ (p.ok => (p.card.run[s] => ~p.card.dead[s]))
      BY <1>4
    <2>3. CASE p.ok
      <3>1. o \in Rest(p.card)
        BY <2>1, <2>3
      <3> QED BY <3>1, <2>2, <2>3, <1>7, <1>8 DEF OxfwReached
    <2>4. CASE ~p.ok
      BY <2>1, <2>2, <2>4
    <2> QED BY <2>2, <2>3, <2>4 DEF OxfwReached
  <1> QED BY <1>1, <1>2, <1>8

\* snd_oxfw_stream_stop_simplex(), once a user of that stream is gone
LEMMA OxfwStopsSimplex ==
  ASSUME NEW c \in Cards, NEW s \in Streams, OxfwSound(c),
         \A t \in Streams : t # s /\ c.count[t] = 0 => NoStream(c, t)
  PROVE  LET d == OxfwStopSimplex(c, s) IN
           Keeps(d, c) /\ OxfwSound(d) /\ OxfwUnused(d)
  <1>1. CASE c.count[s] > 0
    <2>1. OxfwStopSimplex(c, s) = c
      BY <1>1 DEF OxfwStopSimplex
    <2>2. c.count[s] # 0
      BY <1>1 DEF Cards
    <2> QED BY <2>1, <2>2 DEF OxfwUnused, Keeps
  <1>2. CASE ~(c.count[s] > 0)
    <2>1. OxfwStopSimplex(c, s) = OxfwStopStream(c, s)
      BY <1>2 DEF OxfwStopSimplex
    <2> QED BY <2>1, OxfwStoppedUnused DEF OxfwSound, OxfwOthers
  <1> QED BY <1>1, <1>2

\* snd_oxfw_stream_update_simplex()
LEMMA OxfwUpdates ==
  ASSUME NEW c \in Cards, NEW s \in Streams, OxfwSound(c), OxfwUnused(c)
  PROVE  \A d \in OxfwUpdateSimplex(c, s) :
           Keeps(d, c) /\ OxfwSound(d) /\ OxfwUnused(d)
  <1> TAKE d \in OxfwUpdateSimplex(c, s)
  <1>1. PICK o \in Reconnect(c, s) :
          d = IF o.ok THEN o.card ELSE OxfwStopStream(o.card, s)
    BY DEF OxfwUpdateSimplex
  <1> DEFINE e == o.card
  <1>2. /\ o.ok \in BOOLEAN /\ Keeps(e, c) /\ SamePcm(e, c)
        /\ SameRun(e, c) /\ SameDevice(e, c) /\ e.rate = c.rate
        /\ e.conn = IF o.ok THEN c.conn ELSE [c.conn EXCEPT ![s] = FALSE]
    BY ReconnectOutcomes
  <1> HIDE DEF e
  <1>3. e.count = c.count /\ e \in Cards
    BY <1>2, KeepsFields DEF Keeps
  <1>4. CASE o.ok
    <2>1. d = e
      BY <1>1, <1>4 DEF e
    <2>2. OxfwSound(e)
      BY <1>2, <1>4 DEF OxfwSound, Heard, SameRun, SamePcm, SameDevice
    <2>3. OxfwUnused(e)
      BY <1>2, <1>3, <1>4 DEF OxfwUnused, NoStream, SameRun
    <2> QED BY <1>2, <2>1, <2>2, <2>3
  <1>5. CASE ~o.ok
    <2>1. d = OxfwStopStream(e, s)
      BY <1>1, <1>5 DEF e
    <2>2. OxfwOthers(e, s)
      BY <1>2, <1>5
      DEF OxfwOthers, OxfwSound, Heard, SameRun, SamePcm, SameDevice, Cards, Flags
    <2>3. \A t \in Streams : t # s /\ e.count[t] = 0 => NoStream(e, t)
      BY <1>2, <1>3, <1>5 DEF OxfwUnused, NoStream, SameRun, Cards, Flags
    <2>4. Keeps(d, e) /\ OxfwSound(d) /\ OxfwUnused(d)
      BY <1>3, <2>1, <2>2, <2>3, OxfwStoppedUnused
    <2> QED BY <1>2, <2>4 DEF Keeps
  <1> QED BY <1>2, <1>4, <1>5

----------------------------------------------------------------------------
(* The streams of Dice *)

\* Packets go where resources are, and PCM playback knows of its stream.
DiceLinked(c) == Heard(c, "rx") /\ \A s \in Streams : c.run[s] => c.conn[s]
\* The master only runs with its slave, at the rate of the device.
DiceSound(c) ==
  /\ DiceLinked(c)
  /\ c.run[c.master] => \A s \in Streams : c.run[s] /\ c.rate[s] = c.device
DiceUnused(c) ==
  c.count["both"] = 0 => ~c.session /\ \A s \in Streams : NoStream(c, s)

\* stop_stream() ends the one stream.
LEMMA DiceStopped ==
  ASSUME NEW c \in Cards, NEW s \in Streams
  PROVE  LET d == DiceStopStream(c, s) IN
           /\ Keeps(d, c) /\ SameDevice(d, c) /\ NoStream(d, s)
           /\ \A t \in Streams : t # s => SameStream(d, c, t)
           /\ DiceLinked(c) => DiceLinked(d)
  <1> DEFINE d == DiceStopStream(c, s)
  <1>1. /\ Keeps(d, c) /\ SameDevice(d, c) /\ NoStream(d, s) /\ Heard(d, s)
        /\ \A t \in Streams : t # s => SameStream(d, c, t) /\ SameUser(d, c, t)
    BY Stopped DEF DiceStopStream
  <1> HIDE DEF d
  <1>2. ASSUME DiceLinked(c) PROVE DiceLinked(d)
    <2>1. \A t \in Streams : d.run[t] => d.conn[t]
      BY <1>1, <1>2 DEF DiceLinked, SameStream, NoStream
    <2>2. Heard(d, "rx")
      BY <1>1, <1>2 DEF DiceLinked, Heard, SameStream, SameUser, Streams
    <2> QED BY <2>1, <2>2 DEF DiceLinked
  <1> QED BY <1>1, <1>2 DEF d

\* What a call may come to that starts the stream s of c, which did not run.
DiceOutcome(o, c, s) ==
  /\ o.ok \in BOOLEAN /\ Keeps(o.card, c) /\ DiceLinked(o.card)
  /\ SameDevice(o.card, c)
  /\ \A t \in Streams : t # s => SameStream(o.card, c, t)
DiceStarted(o, c, s, rate) ==
  /\ DiceOutcome(o, c, s)
  /\ o.ok => o.card.run[s] /\ ~o.card.dead[s] /\ o.card.rate[s] = rate
  /\ ~o.ok => ~o.card.run[s]
DiceKept(o, c, s, rate) ==
  /\ DiceOutcome(o, c, s) /\ ~o.card.run[s]
  /\ o.ok => o.card.conn[s] /\ o.card.rate[s] = rate

\* start_stream(), of a stream that does not run
LEMMA DiceStarts ==
  ASSUME NEW c \in Cards, NEW s \in Streams, NEW rate \in Rates,
         DiceLinked(c), ~c.run[s]
  PROVE  \A o \in DiceStartStream(c, s, rate) : DiceStarted(o, c, s, rate)
  <1> DEFINE a == [c EXCEPT !.rate[s] = rate]
             Write(d) == OrUndo(MayFail(d), LAMBDA e : Disconnect(e, s))
             Start(d) == OrUndo(AmdtpStart(d, s), LAMBDA e : Disconnect(e, s))
             Keep == Then(Connect(a, s), Write)
  <1>1. DiceStartStream(c, s, rate) = Then(Keep, Start)
    BY DEF DiceStartStream, DiceKeepResources
  <1>2. ASSUME NEW o \in Connect(a, s)
        PROVE  DiceKept(o, c, s, rate)
    <2> DEFINE e == o.card
    <2>1. /\ o.ok \in BOOLEAN /\ Keeps(e, c) /\ SameDevice(e, c)
          /\ SamePcm(e, c) /\ SameRun(e, c) /\ e.rate[s] = rate
          /\ e.conn[s] = (o.ok \/ c.conn[s])
          /\ \A t \in Streams : t # s => SameStream(e, c, t)
      BY Linked
    <2> HIDE DEF e
    <2>2. (\A t \in Streams : e.run[t] => e.conn[t]) /\ Heard(e, "rx")
      BY <2>1 DEF DiceLinked, Heard, SameStream, SamePcm, SameRun
    <2>3. ~e.run[s] /\ (o.ok => e.conn[s])
      BY <2>1 DEF SameRun
    <2> QED BY <2>1, <2>2, <2>3 DEF DiceOutcome, DiceKept, DiceLinked, e
  <1>3. ASSUME NEW d \in Cards, DiceLinked(d), ~d.run[s], d.conn[s], d.rate[s] = rate,
               NEW o \in Write(d)
        PROVE  DiceKept(o, d, s, rate)
    <2>1. PICK p \in MayFail(d) :
            o = IF p.ok THEN p ELSE [ok |-> FALSE, card |-> Disconnect(p.card, s)]
      BY DEF OrUndo
    <2>2. p.ok \in BOOLEAN /\ p.card = d
      BY Outcomes
    <2>3. CASE p.ok
      <3>1. o.ok = TRUE /\ o.card = d
        BY <2>1, <2>2, <2>3
      <3> QED BY <3>1, <1>3 DEF DiceKept, DiceOutcome, Keeps, SameDevice, SameStream
    <2>4. CASE ~p.ok
      <3> DEFINE f == Disconnect(d, s)
      <3>1. o.ok = FALSE /\ o.card = f
        BY <2>1, <2>2, <2>4
      <3>2. /\ Keeps(f, d) /\ SameRun(f, d) /\ SamePcm(f, d) /\ SameDevice(f, d)
            /\ f.conn = [d.conn EXCEPT ![s] = FALSE]
            /\ f.rate = [d.rate EXCEPT ![s] = IF d.run[s] THEN @ ELSE AnyRate]
        BY Unlink
      <3> HIDE DEF f
      <3>3. \A t \in Streams : t # s => SameStream(f, d, t)
        BY <3>2 DEF SameStream, SameRun, Cards, Flags
      <3>4. (\A t \in Streams : f.run[t] => f.conn[t]) /\ Heard(f, "rx") /\ ~f.run[s]
        BY <3>2, <1>3 DEF DiceLinked, Heard, SameRun, SamePcm, Cards, Flags
      <3> QED BY <3>1, <3>2, <3>3, <3>4 DEF DiceKept, DiceOutcome, DiceLinked
    <2> QED BY <2>2, <2>3, <2>4
  <1>4. ASSUME NEW d \in Cards, DiceLinked(d), ~d.run[s], d.conn[s], d.rate[s] = rate,
               NEW o \in Start(d)
        PROVE  DiceStarted(o, d, s, rate)
    <2> DEFINE e == o.card
    <2>1. /\ o.ok \in BOOLEAN /\ Keeps(e, d) /\ SameDevice(e, d) /\ SamePcm(e, d)
          /\ o.ok => /\ e.run[s] /\ ~e.dead[s]
                     /\ e.conn[s] = d.conn[s] /\ e.rate[s] = d.rate[s]
          /\ ~o.ok => NoStream(e, s)
          /\ \A t \in Streams : t # s => SameStream(e, d, t)
      BY <1>4, Ran
    <2> HIDE DEF e
    <2>2. (\A t \in Streams : e.run[t] => e.conn[t]) /\ Heard(e, "rx")
      BY <2>1, <1>4 DEF DiceLinked, Heard, SameStream, SamePcm, NoStream, Streams
    <2> QED BY <2>1, <2>2, <1>4 DEF DiceOutcome, DiceStarted, DiceLinked, NoStream, e
  <1> HIDE DEF Start, Write, a
  <1>5. ASSUME NEW o \in Keep PROVE DiceKept(o, c, s, rate)
    <2>1. PICK p \in Connect(a, s) : o \in IF p.ok THEN Write(p.card) ELSE {p}
      BY DEF Then
    <2>2. DiceKept(p, c, s, rate)
      BY <1>2
    <2>3. CASE p.ok
      <3>1. o \in Write(p.card)
        BY <2>1, <2>3
      <3>2. DiceKept(o, p.card, s, rate)
        BY <1>3, <2>2, <2>3, <3>1 DEF DiceKept, DiceOutcome, Keeps
      <3> QED BY <2>2, <3>2 DEF DiceKept, DiceOutcome, Keeps, SameDevice, SameStream
    <2>4. CASE ~p.ok
      BY <2>1, <2>2, <2>4
    <2> QED BY <2>2, <2>3, <2>4 DEF DiceKept, DiceOutcome
  <1> HIDE DEF Keep
  <1>6. ASSUME NEW o \in Then(Keep, Start) PROVE DiceStarted(o, c, s, rate)
    <2>1. PICK p \in Keep : o \in IF p.ok THEN Start(p.card) ELSE {p}
      BY DEF Then
    <2>2. DiceKept(p, c, s, rate)
      BY <1>5
    <2>3. CASE p.ok
      <3>1. o \in Start(p.card)
        BY <2>1, <2>3
      <3>2. DiceStarted(o, p.card, s, rate)
        BY <1>4, <2>2, <2>3, <3>1 DEF DiceKept, DiceOutcome, Keeps
      <3> QED BY <2>2, <3>2
              DEF DiceKept, DiceStarted, DiceOutcome, Keeps, SameDevice, SameStream
    <2>4. CASE ~p.ok
      BY <2>1, <2>2, <2>4 DEF DiceKept, DiceStarted
    <2> QED BY <2>2, <2>3, <2>4 DEF DiceKept, DiceOutcome
  <1> QED BY <1>1, <1>6

\* What the start of both streams may come to.
Silent(c) == \A s \in Streams : ~c.run[s]
Plays(c, rate) ==
  /\ c.device = rate
  /\ \A s \in Streams : c.run[s] /\ ~c.dead[s] /\ c.rate[s] = rate
DiceBoth(o, c, rate) ==
  /\ o.ok \in BOOLEAN /\ Keeps(o.card, c) /\ DiceLinked(o.card)
  /\ IF o.ok THEN Plays(o.card, rate) ELSE Silent(o.card)

\* A stop of both leaves nothing, in whatever order.
LEMMA DiceStoppedBoth ==
  ASSUME NEW c \in Cards, NEW s \in Streams
  PROVE  LET d == DiceStopStream(DiceStopStream(c, s), Other(s)) IN
           /\ Keeps(d, c) /\ SameDevice(d, c) /\ \A t \in Streams : NoStream(d, t)
           /\ DiceLinked(c) => DiceLinked(d)
  <1> DEFINE e == DiceStopStream(c, s)
             d == DiceStopStream(e, Other(s))
  <1>1. Other(s) \in Streams /\ Other(s) # s /\ \A t \in Streams : t \in {s, Other(s)}
    BY DEF Other, Streams
  <1>2. /\ Keeps(e, c) /\ SameDevice(e, c) /\ NoStream(e, s)
        /\ DiceLinked(c) => DiceLinked(e)
    BY DiceStopped
  <1> HIDE DEF e
  <1>3. /\ Keeps(d, e) /\ SameDevice(d, e) /\ NoStream(d, Other(s))
        /\ \A t \in Streams : t # Other(s) => SameStream(d, e, t)
        /\ DiceLinked(e) => DiceLinked(d)
    BY <1>1, <1>2, DiceStopped DEF Keeps
  <1> HIDE DEF d
  <1> QED BY <1>1, <1>2, <1>3 DEF Keeps, SameDevice, NoStream, SameStream, d, e

\* Enabling the device does not concern the streams.
LEMMA DiceCleared ==
  ASSUME NEW c \in Cards, NEW b \in BOOLEAN
  PROVE  LET d == [c EXCEPT !.session = b] IN
           /\ Keeps(d, c) /\ SameRun(d, c) /\ SameLink(d, c) /\ d.device = c.device
           /\ d.session = b /\ (DiceLinked(c) => DiceLinked(d))
  <1> DEFINE d == [c EXCEPT !.session = b]
  <1>1. /\ Keeps(d, c) /\ SameRun(d, c) /\ SamePcm(d, c) /\ SameLink(d, c)
        /\ d.device = c.device /\ d.session = b
    BY SetSession
  <1> HIDE DEF d
  <1> QED BY <1>1 DEF DiceLinked, Heard, SameRun, SamePcm, SameLink, d

\* Lines 227-270: both run, or none does.
LEMMA DiceStartsBoth ==
  ASSUME NEW c \in Cards, NEW rate \in Rates, DiceLinked(c), ~c.run[c.master]
  PROVE  \A o \in DiceStartBoth(c, rate) : DiceBoth(o, c, rate)
  <1> DEFINE stopped == DiceClearEnable(DiceStopStream(c, DiceSlave(c)))
             SetRate(d) == MayFail([d EXCEPT !.device = rate]) \cup Bad(d)
             StartMaster(d) == DiceStartStream(d, d.master, rate)
             StartSlave(d) ==
               OrUndo(DiceStartStream(d, DiceSlave(d), rate),
                      LAMBDA e : DiceStopStream(e, e.master))
             Enable(d) ==
               OrUndo(Good([d EXCEPT !.session = TRUE]) \cup Bad(d),
                      LAMBDA e : DiceStopStream(DiceStopStream(e, e.master), DiceSlave(e)))
             Wait(d) ==
               OrUndo(WaitCallback(d),
                      LAMBDA e : DiceStopStream(DiceStopStream(DiceClearEnable(e), e.master),
                                                DiceSlave(e)))
             C1 == SetRate(stopped)
             C2 == Then(C1, StartMaster)
             C3 == Then(C2, StartSlave)
             C4 == Then(C3, Enable)
             m == c.master
             n == Other(m)
  <1>1. DiceStartBoth(c, rate) = Then(C4, Wait)
    BY DEF DiceStartBoth
  <1>2. /\ m \in Streams /\ n \in Streams /\ n # m
        /\ \A t \in Streams : t = m \/ t = n
    BY DEF Cards, Other, Streams
  <1>3. \A d : Keeps(d, c) => d \in Cards /\ d.master = m /\ DiceSlave(d) = n
    BY KeepsFields DEF DiceSlave, Keeps
  <1>4. Keeps(stopped, c) /\ DiceLinked(stopped) /\ Silent(stopped)
    <2> DEFINE d == DiceStopStream(c, n)
    <2>1. /\ Keeps(d, c) /\ NoStream(d, n) /\ DiceLinked(d)
          /\ \A t \in Streams : t # n => SameStream(d, c, t)
      BY <1>2, DiceStopped
    <2>2. stopped = [d EXCEPT !.session = FALSE]
      BY DEF DiceClearEnable, DiceSlave
    <2> HIDE DEF d, stopped
    <2>3. Keeps(stopped, d) /\ DiceLinked(stopped) /\ SameRun(stopped, d)
      BY <2>1, <2>2, DiceCleared DEF Keeps
    <2>4. Silent(stopped)
      BY <2>1, <2>3, <1>2 DEF Silent, SameRun, SameStream, NoStream
    <2> QED BY <2>1, <2>3, <2>4 DEF Keeps
  <1> HIDE DEF stopped
  <1>5. ASSUME NEW o \in C1
        PROVE  /\ o.ok \in BOOLEAN /\ Keeps(o.card, c) /\ DiceLinked(o.card)
               /\ Silent(o.card) /\ (o.ok => o.card.device = rate)
    <2> DEFINE e == [stopped EXCEPT !.device = rate]
    <2>1. o \in MayFail(e) \/ o \in Bad(stopped)
      OBVIOUS
    <2>2. /\ Keeps(e, stopped) /\ SameRun(e, stopped) /\ SamePcm(e, stopped)
          /\ SameLink(e, stopped) /\ e.device = rate
      BY <1>4, SetDevice DEF Keeps
    <2> HIDE DEF e
    <2>3. Keeps(e, c) /\ DiceLinked(e) /\ Silent(e)
      BY <1>4, <2>2
      DEF Keeps, DiceLinked, Heard, Silent, SameRun, SamePcm, SameLink
    <2>4. \/ o.ok \in BOOLEAN /\ o.card = e
          \/ o.ok = FALSE /\ o.card = stopped
      BY <2>1, Outcomes
    <2> QED BY <1>4, <2>2, <2>3, <2>4
  <1> HIDE DEF C1
  <1>6. ASSUME NEW o \in C2
        PROVE  /\ o.ok \in BOOLEAN /\ Keeps(o.card, c) /\ DiceLinked(o.card)
               /\ ~o.card.run[n]
               /\ o.ok => /\ o.card.run[m] /\ ~o.card.dead[m] /\ o.card.rate[m] = rate
                          /\ o.card.device = rate
               /\ ~o.ok => Silent(o.card)
    <2>1. PICK p \in C1 : o \in IF p.ok THEN StartMaster(p.card) ELSE {p}
      BY DEF Then
    <2>2. /\ p.ok \in BOOLEAN /\ Keeps(p.card, c) /\ DiceLinked(p.card)
          /\ Silent(p.card) /\ (p.ok => p.card.device = rate)
      BY <1>5
    <2>3. CASE p.ok
      <3>1. o \in DiceStartStream(p.card, m, rate)
        BY <2>1, <2>2, <2>3, <1>3
      <3>2. DiceStarted(o, p.card, m, rate)
        BY <1>2, <1>3, <2>2, <3>1, DiceStarts DEF Silent
      <3> QED BY <1>2, <2>2, <2>3, <3>2
              DEF DiceStarted, DiceOutcome, Keeps, SameDevice, SameStream, Silent
    <2>4. CASE ~p.ok
      BY <2>1, <2>2, <2>4, <1>2 DEF Silent
    <2> QED BY <2>2, <2>3, <2>4
  <1> HIDE DEF C2
  <1>7. ASSUME NEW o \in C3 PROVE DiceBoth(o, c, rate)
    <2>1. PICK p \in C2 : o \in IF p.ok THEN StartSlave(p.card) ELSE {p}
      BY DEF Then
    <2> DEFINE d == p.card
    <2>2. /\ p.ok \in BOOLEAN /\ Keeps(d, c) /\ DiceLinked(d)
          /\ ~d.run[n]
          /\ p.ok => /\ d.run[m] /\ ~d.dead[m] /\ d.rate[m] = rate
                     /\ d.device = rate
          /\ ~p.ok => Silent(d)
      BY <1>6
    <2>3. CASE p.ok
      <3>1. o \in StartSlave(d) /\ d \in Cards /\ DiceSlave(d) = n
        BY <2>1, <2>2, <2>3, <1>3
      <3>2. PICK q \in DiceStartStream(d, n, rate) :
              o = IF q.ok THEN q
                  ELSE [ok |-> FALSE, card |-> DiceStopStream(q.card, q.card.master)]
        BY <3>1 DEF OrUndo
      <3> HIDE DEF d
      <3>3. DiceStarted(q, d, n, rate)
        BY <1>2, <2>2, <3>1, DiceStarts
      <3>4. Keeps(q.card, c) /\ q.card \in Cards /\ q.card.master = m
        BY <3>3, <2>2, <1>3 DEF DiceStarted, DiceOutcome, Keeps
      <3>5. CASE q.ok
        <4>1. o = q
          BY <3>2, <3>5
        <4>2. Plays(q.card, rate)
          BY <1>2, <2>2, <2>3, <3>3, <3>5
          DEF Plays, DiceStarted, DiceOutcome, SameDevice, SameStream
        <4> QED BY <4>1, <4>2, <3>3, <3>4, <3>5 DEF DiceBoth, DiceStarted, DiceOutcome
      <3>6. CASE ~q.ok
        <4> DEFINE f == DiceStopStream(q.card, m)
        <4>1. o.ok = FALSE /\ o.card = f
          BY <3>2, <3>4, <3>6
        <4>2. /\ Keeps(f, q.card) /\ NoStream(f, m)
              /\ \A t \in Streams : t # m => SameStream(f, q.card, t)
              /\ DiceLinked(q.card) => DiceLinked(f)
          BY <3>4, <1>2, DiceStopped
        <4> HIDE DEF f
        <4>3. Silent(f)
          BY <1>2, <4>2, <3>3, <3>6 DEF DiceStarted, Silent, NoStream, SameStream
        <4> QED BY <4>1, <4>2, <4>3, <3>3, <3>4
                DEF DiceBoth, DiceStarted, DiceOutcome, Keeps
      <3> QED BY <3>3, <3>5, <3>6 DEF DiceStarted, DiceOutcome
    <2>4. CASE ~p.ok
      BY <2>1, <2>2, <2>4 DEF DiceBoth
    <2> QED BY <2>2, <2>3, <2>4
  <1> HIDE DEF C3
  <1>8. ASSUME NEW d, Keeps(d, c), DiceLinked(d)
        PROVE  LET e == DiceStopStream(DiceStopStream(d, d.master), DiceSlave(d)) IN
                 Keeps(e, c) /\ DiceLinked(e) /\ Silent(e)
    <2> DEFINE e == DiceStopStream(DiceStopStream(d, m), n)
    <2>1. d \in Cards /\ d.master = m /\ DiceSlave(d) = n
      BY <1>3, <1>8
    <2>2. /\ Keeps(e, d) /\ (\A t \in Streams : NoStream(e, t))
          /\ DiceLinked(d) => DiceLinked(e)
      BY <2>1, <1>2, DiceStoppedBoth
    <2> HIDE DEF e
    <2>3. Keeps(e, c) /\ DiceLinked(e) /\ Silent(e)
      BY <2>2, <1>8 DEF Keeps, Silent, NoStream
    <2> QED BY <2>1, <2>3 DEF e
  <1>9. ASSUME NEW o \in C4 PROVE DiceBoth(o, c, rate)
    <2>1. PICK p \in C3 : o \in IF p.ok THEN Enable(p.card) ELSE {p}
      BY DEF Then
    <2> DEFINE d == p.card
               e == [d EXCEPT !.session = TRUE]
    <2>2. DiceBoth(p, c, rate)
      BY <1>7
    <2>3. CASE p.ok
      <3>1. o \in Enable(d)
        BY <2>1, <2>3
      <3>2. PICK q \in Good(e) \cup Bad(d) :
              o = IF q.ok THEN q
                  ELSE [ok |-> FALSE,
                        card |-> DiceStopStream(DiceStopStream(q.card, q.card.master),
                                                DiceSlave(q.card))]
        BY <3>1 DEF OrUndo
      <3>3. (q.ok = TRUE /\ q.card = e) \/ (q.ok = FALSE /\ q.card = d)
        BY Outcomes
      <3>4. CASE q.ok
        <4>1. o.ok = TRUE /\ o.card = e
          BY <3>2, <3>3, <3>4
        <4>2. /\ Keeps(e, d) /\ SameRun(e, d) /\ SameLink(e, d) /\ e.device = d.device
              /\ DiceLinked(d) => DiceLinked(e)
          BY <2>2, DiceCleared DEF DiceBoth, Keeps
        <4> HIDE DEF e
        <4>3. Plays(e, rate)
          BY <4>2, <2>2, <2>3 DEF DiceBoth, Plays, SameRun, SameLink
        <4> QED BY <4>1, <4>2, <4>3, <2>2 DEF DiceBoth, Keeps
      <3>5. CASE ~q.ok
        <4> DEFINE f == DiceStopStream(DiceStopStream(d, d.master), DiceSlave(d))
        <4>1. o.ok = FALSE /\ o.card = f
          BY <3>2, <3>3, <3>5
        <4>2. Keeps(f, c) /\ DiceLinked(f) /\ Silent(f)
          BY <1>8, <2>2 DEF DiceBoth
        <4> HIDE DEF f
        <4> QED BY <4>1, <4>2 DEF DiceBoth
      <3> QED BY <3>3, <3>4, <3>5
    <2>4. CASE ~p.ok
      BY <2>1, <2>2, <2>4
    <2> QED BY <2>2, <2>3, <2>4 DEF DiceBoth
  <1> HIDE DEF C4
  <1>10. ASSUME NEW o \in Then(C4, Wait) PROVE DiceBoth(o, c, rate)
    <2>1. PICK p \in C4 : o \in IF p.ok THEN Wait(p.card) ELSE {p}
      BY DEF Then
    <2> DEFINE d == p.card
               e == [d EXCEPT !.session = FALSE]
    <2>2. DiceBoth(p, c, rate)
      BY <1>9
    <2>3. CASE p.ok
      <3>1. o \in Wait(d)
        BY <2>1, <2>3
      <3>2. PICK q \in WaitCallback(d) :
              o = IF q.ok THEN q
                  ELSE [ok |-> FALSE,
                        card |-> DiceStopStream(
                                   DiceStopStream(DiceClearEnable(q.card), q.card.master),
                                   DiceSlave(q.card))]
        BY <3>1 DEF OrUndo
      <3>3. q.ok \in BOOLEAN /\ q.card = d
        BY Outcomes
      <3>4. CASE q.ok
        <4>1. o.ok = TRUE /\ o.card = d
          BY <3>2, <3>3, <3>4
        <4> QED BY <4>1, <2>2, <2>3 DEF DiceBoth
      <3>5. CASE ~q.ok
        <4>1. Keeps(e, d) /\ (DiceLinked(d) => DiceLinked(e))
          BY <2>2, DiceCleared DEF DiceBoth, Keeps
        <4>2. /\ d \in Cards /\ e \in Cards
              /\ d.master = m /\ DiceSlave(d) = n /\ e.master = m /\ DiceSlave(e) = n
          BY <4>1, <1>3, <2>2 DEF DiceBoth, Keeps
        <4>3. DiceClearEnable(d) = e
          BY DEF DiceClearEnable
        <4> HIDE DEF e
        <4> DEFINE f == DiceStopStream(DiceStopStream(e, e.master), DiceSlave(e))
        <4>4. o.ok = FALSE /\ o.card = f
          BY <3>2, <3>3, <3>5, <4>2, <4>3
        <4>5. Keeps(f, c) /\ DiceLinked(f) /\ Silent(f)
          BY <1>8, <2>2, <4>1 DEF DiceBoth, Keeps
        <4> HIDE DEF f
        <4> QED BY <4>4, <4>5 DEF DiceBoth
      <3> QED BY <3>3, <3>4, <3>5
    <2>4. CASE ~p.ok
      BY <2>1, <2>2, <2>4
    <2> QED BY <2>2, <2>3, <2>4 DEF DiceBoth
  <1> QED BY <1>1, <1>10

DiceReached(o, c) == o.ok \in BOOLEAN /\ Keeps(o.card, c) /\ DiceSound(o.card)

\* A card whose master was just stopped is in order.
LEMMA DiceStoppedMaster ==
  ASSUME NEW c \in Cards, DiceLinked(c)
  PROVE  LET d == DiceStopStream(c, c.master) IN
           Keeps(d, c) /\ SameDevice(d, c) /\ DiceSound(d) /\ ~d.run[d.master]
  <1> DEFINE d == DiceStopStream(c, c.master)
  <1>1. c.master \in Streams
    BY DEF Cards
  <1>2. /\ Keeps(d, c) /\ SameDevice(d, c) /\ NoStream(d, c.master) /\ DiceLinked(d)
    BY <1>1, DiceStopped
  <1>3. d.master = c.master
    BY <1>2, KeepsFields
  <1> HIDE DEF d
  <1> QED BY <1>2, <1>3 DEF DiceSound, NoStream, d

\* snd_dice_stream_start_duplex(): a good end means that both run.
LEMMA DiceStartsDuplex ==
  ASSUME NEW c \in Cards, NEW rate \in Rates \cup {AnyRate}, DiceSound(c)
  PROVE  \A o \in DiceStartDuplex(c, rate) :
           /\ DiceReached(o, c)
           /\ DiceUnused(c) => DiceUnused(o.card)
           /\ o.ok /\ c.count["both"] # 0 =>
                \A s \in Streams :
                  /\ o.card.run[s] /\ ~o.card.dead[s]
                  /\ rate # AnyRate => o.card.rate[s] = rate
  <1> DEFINE Alive(d) ==
               MayFail(IF d.dead["tx"] \/ d.dead["rx"] THEN DiceStopStream(d, d.master)
                       ELSE d)
             Asked(d) == IF rate = AnyRate THEN d.device ELSE rate
             Rated(d) == IF Asked(d) # d.device THEN DiceStopStream(d, d.master) ELSE d
             Start(d) == IF Rated(d).run[d.master] THEN Good(d)
                         ELSE DiceStartBoth(Rated(d), Asked(d))
             First == Then(MayFail(c), Alive)
             Goal(o) ==
               /\ DiceReached(o, c)
               /\ o.ok => \A s \in Streams :
                            /\ o.card.run[s] /\ ~o.card.dead[s]
                            /\ rate # AnyRate => o.card.rate[s] = rate
  <1>1. DiceStartDuplex(c, rate)
          = IF c.count["both"] = 0 THEN Good(c) ELSE Then(First, Start)
    BY DEF DiceStartDuplex
  <1>2. ASSUME NEW o \in Alive(c)
        PROVE  /\ DiceReached(o, c)
               /\ o.card.run[o.card.master] => \A s \in Streams : ~o.card.dead[s]
    <2>1. CASE c.dead["tx"] \/ c.dead["rx"]
      <3>1. o.ok \in BOOLEAN /\ o.card = DiceStopStream(c, c.master)
        BY <2>1, Outcomes
      <3> QED BY <3>1, DiceStoppedMaster DEF DiceSound, DiceReached
    <2>2. CASE ~(c.dead["tx"] \/ c.dead["rx"])
      <3>1. o.ok \in BOOLEAN /\ o.card = c
        BY <2>2, Outcomes
      <3> QED BY <3>1, <2>2 DEF DiceReached, Keeps, Streams
    <2> QED BY <2>1, <2>2
  <1> HIDE DEF Alive
  <1>3. ASSUME NEW o \in First
        PROVE  /\ DiceReached(o, c)
               /\ o.ok => (o.card.run[o.card.master] => \A s \in Streams : ~o.card.dead[s])
    <2>1. PICK p \in MayFail(c) : o \in IF p.ok THEN Alive(p.card) ELSE {p}
      BY DEF Then
    <2>2. p.ok \in BOOLEAN /\ p.card = c
      BY Outcomes
    <2>3. CASE p.ok
      BY <2>1, <2>2, <2>3, <1>2
    <2>4. CASE ~p.ok
      <3>1. o.ok = FALSE /\ o.card = c
        BY <2>1, <2>2, <2>4
      <3> QED BY <3>1 DEF DiceReached, Keeps
    <2> QED BY <2>2, <2>3, <2>4
  <1> HIDE DEF First
  <1>4. ASSUME NEW d, Keeps(d, c), DiceSound(d),
               d.run[d.master] => \A s \in Streams : ~d.dead[s],
               NEW o \in Start(d)
        PROVE  Goal(o)
    <2> DEFINE r == Asked(d)
               e == Rated(d)
    <2>1. d \in Cards /\ d.device \in Rates /\ d.master \in Streams
      BY <1>4 DEF Keeps, Cards
    <2>2. r \in Rates /\ (rate # AnyRate => r = rate)
      BY <2>1
    <2> HIDE DEF r
    <2>3. /\ Keeps(e, d) /\ DiceSound(e) /\ e.master = d.master
          /\ e.run[e.master] => e = d /\ r = d.device
      <3>1. CASE r # d.device
        <4>1. e = DiceStopStream(d, d.master)
          BY <3>1 DEF r
        <4>2. Keeps(e, d) /\ DiceSound(e) /\ ~e.run[e.master]
          BY <4>1, <2>1, <1>4, DiceStoppedMaster DEF DiceSound
        <4> HIDE DEF e
        <4> QED BY <4>2, <2>1, KeepsFields
      <3>2. CASE r = d.device
        <4>1. e = d
          BY <3>2 DEF r
        <4> HIDE DEF e
        <4> QED BY <4>1, <3>2, <2>1, <1>4 DEF Keeps
      <3> QED BY <3>1, <3>2
    <2>4. o \in IF e.run[d.master] THEN Good(d) ELSE DiceStartBoth(e, r)
      BY DEF r
    <2> HIDE DEF e
    <2>5. CASE e.run[d.master]
      <3>1. o.ok = TRUE /\ o.card = d
        BY <2>4, <2>5, Outcomes
      <3>2. d.run[d.master] /\ r = d.device
        BY <2>3, <2>5
      <3>3. \A s \in Streams : d.run[s] /\ ~d.dead[s] /\ d.rate[s] = r
        BY <3>2, <1>4 DEF DiceSound
      <3> QED BY <3>1, <3>3, <2>2, <1>4 DEF DiceReached
    <2>6. CASE ~e.run[d.master]
      <3>1. o \in DiceStartBoth(e, r)
        BY <2>4, <2>6
      <3>2. e \in Cards /\ DiceLinked(e) /\ ~e.run[e.master]
        BY <2>3, <2>6 DEF Keeps, DiceSound
      <3>3. DiceBoth(o, e, r)
        BY <3>1, <3>2, <2>2, DiceStartsBoth
      <3>4. Keeps(o.card, c) /\ o.card \in Cards /\ o.card.master \in Streams
        BY <3>3, <2>3, <1>4 DEF DiceBoth, Keeps, Cards
      <3>5. DiceSound(o.card)
        BY <3>3, <3>4 DEF DiceBoth, DiceSound, Plays, Silent
      <3>6. o.ok => \A s \in Streams :
                      /\ o.card.run[s] /\ ~o.card.dead[s]
                      /\ rate # AnyRate => o.card.rate[s] = rate
        BY <3>3, <2>2 DEF DiceBoth, Plays
      <3> QED BY <3>3, <3>4, <3>5, <3>6 DEF DiceReached, DiceBoth
    <2> QED BY <2>5, <2>6
  <1> HIDE DEF Start
  <1>5. ASSUME NEW o \in Then(First, Start) PROVE Goal(o)
    <2>1. PICK p \in First : o \in IF p.ok THEN Start(p.card) ELSE {p}
      BY DEF Then
    <2>2. /\ DiceReached(p, c)
          /\ p.ok => (p.card.run[p.card.master] => \A s \in Streams : ~p.card.dead[s])
      BY <1>3
    <2>3. CASE p.ok
      <3>1. o \in Start(p.card)
        BY <2>1, <2>3
      <3> HIDE DEF Goal
      <3> QED BY <3>1, <2>2, <2>3, <1>4 DEF DiceReached
    <2>4. CASE ~p.ok
      BY <2>1, <2>2, <2>4
    <2> QED BY <2>2, <2>3, <2>4 DEF DiceReached
  <1>6. CASE c.count["both"] = 0
    <2> TAKE o \in DiceStartDuplex(c, rate)
    <2>1. o.ok = TRUE /\ o.card = c
      BY <1>1, <1>6, Outcomes
    <2> QED BY <2>1, <1>6 DEF DiceReached, Keeps
  <1>7. CASE c.count["both"] # 0
    <2> TAKE o \in DiceStartDuplex(c, rate)
    <2>1. Goal(o)
      BY <1>1, <1>5, <1>7
    <2>2. o.card.count = c.count
      BY <2>1, KeepsFields DEF DiceReached
    <2> QED BY <2>1, <2>2, <1>7 DEF DiceUnused
  <1> QED BY <1>6, <1>7

\* snd_dice_stream_stop_duplex() and _update_duplex() leave nothing.
LEMMA DiceStopsAll ==
  ASSUME NEW c \in Cards, NEW s \in Streams, DiceLinked(c)
  PROVE  LET d == DiceStopStream(DiceStopStream([c EXCEPT !.session = FALSE], s), Other(s)) IN
           Keeps(d, c) /\ DiceSound(d) /\ DiceUnused(d)
  <1> DEFINE e == [c EXCEPT !.session = FALSE]
             d == DiceStopStream(DiceStopStream(e, s), Other(s))
  <1>1. Keeps(e, c) /\ e.session = FALSE /\ DiceLinked(e)
    BY DiceCleared
  <1> HIDE DEF e
  <1>2. /\ Keeps(d, e) /\ SameDevice(d, e) /\ (\A t \in Streams : NoStream(d, t))
        /\ DiceLinked(d)
    BY <1>1, DiceStoppedBoth DEF Keeps
  <1> HIDE DEF d
  <1>3. d.master \in Streams
    BY <1>2 DEF Keeps, Cards
  <1>4. DiceSound(d) /\ DiceUnused(d)
    BY <1>1, <1>2, <1>3 DEF DiceSound, DiceUnused, NoStream, SameDevice
  <1> QED BY <1>1, <1>2, <1>4 DEF Keeps, d, e

\* snd_dice_stream_stop_duplex(), once a user is gone
LEMMA DiceStopsDuplex ==
  ASSUME NEW c \in Cards, DiceSound(c)
  PROVE  LET d == DiceStopDuplex(c) IN Keeps(d, c) /\ DiceSound(d) /\ DiceUnused(d)
  <1>1. CASE c.count["both"] > 0
    <2>1. DiceStopDuplex(c) = c /\ c.count["both"] # 0
      BY <1>1 DEF DiceStopDuplex
    <2> QED BY <2>1 DEF DiceUnused, Keeps
  <1>2. CASE ~(c.count["both"] > 0)
    <2> DEFINE d == DiceStopStream(DiceStopStream([c EXCEPT !.session = FALSE], "tx"), "rx")
    <2>1. DiceStopDuplex(c) = d
      BY <1>2 DEF DiceStopDuplex, DiceClearEnable
    <2>2. "tx" \in Streams /\ Other("tx") = "rx"
      BY DEF Streams, Other
    <2>3. Keeps(d, c) /\ DiceSound(d) /\ DiceUnused(d)
      BY <2>2, DiceStopsAll DEF DiceSound
    <2> QED BY <2>1, <2>3
  <1> QED BY <1>1, <1>2

----------------------------------------------------------------------------
(* The streams of Digi 00x *)

\* The stream from the device only runs with the other one, at the rate of the device.
DigiSound(c) ==
  /\ c.run["tx"] => c.run["rx"]
  /\ c.run["rx"] => \A s \in Streams : c.rate[s] = c.device
\* Without users nothing goes on.
DuplexUnused(c) ==
  (\A s \in Streams : c.count[s] = 0) => ~c.session /\ \A s \in Streams : NoStream(c, s)

\* Stopping all leaves nothing.
LEMMA DigiStopped ==
  ASSUME NEW c \in Cards
  PROVE  LET d == DigiStopAll(c) IN
           /\ Keeps(d, c) /\ d.device = c.device /\ ~d.session
           /\ \A s \in Streams : NoStream(d, s)
           /\ DigiSound(d) /\ DuplexUnused(d)
  <1> DEFINE d1 == [c EXCEPT !.session = FALSE]
             d2 == AmdtpStop(d1, "tx")
             d3 == AmdtpStop(d2, "rx")
             d4 == Disconnect(d3, "tx")
             d5 == Disconnect(d4, "rx")
  <1>0. "tx" \in Streams /\ "rx" \in Streams
    BY DEF Streams
  <1>1. DigiStopAll(c) = d5
    BY DEF DigiStopAll
  <1>2. Keeps(d1, c) /\ d1.device = c.device /\ d1.session = FALSE
    BY SetSession
  <1> HIDE DEF d1
  <1>3. Keeps(d2, d1) /\ SameDevice(d2, d1) /\ d2.run = [d1.run EXCEPT !["tx"] = FALSE]
    BY <1>0, <1>2, Stop DEF Keeps
  <1> HIDE DEF d2
  <1>4. Keeps(d3, d2) /\ SameDevice(d3, d2) /\ d3.run = [d2.run EXCEPT !["rx"] = FALSE]
    BY <1>0, <1>3, Stop DEF Keeps
  <1> HIDE DEF d3
  <1>5. Keeps(d4, d3) /\ SameDevice(d4, d3) /\ SameRun(d4, d3)
        /\ d4.conn = [d3.conn EXCEPT !["tx"] = FALSE]
    BY <1>0, <1>4, Unlink DEF Keeps
  <1> HIDE DEF d4
  <1>6. Keeps(d5, d4) /\ SameDevice(d5, d4) /\ SameRun(d5, d4)
        /\ d5.conn = [d4.conn EXCEPT !["rx"] = FALSE]
    BY <1>0, <1>5, Unlink DEF Keeps
  <1> HIDE DEF d5
  <1>7. Keeps(d5, c) /\ d5.device = c.device /\ ~d5.session
    BY <1>2, <1>3, <1>4, <1>5, <1>6 DEF Keeps, SameDevice
  <1>8. /\ d1.run \in Flags /\ d3.conn \in Flags
    BY <1>2, <1>4 DEF Keeps, Cards
  <1>9. \A s \in Streams : ~d5.run[s]
    BY <1>3, <1>4, <1>5, <1>6, <1>8 DEF SameRun, Flags, Streams
  <1>10. \A s \in Streams : ~d5.conn[s]
    BY <1>5, <1>6, <1>8 DEF Flags, Streams
  <1>11. \A s \in Streams : NoStream(d5, s)
    BY <1>9, <1>10 DEF NoStream
  <1>12. DigiSound(d5) /\ DuplexUnused(d5)
    BY <1>0, <1>7, <1>9, <1>11 DEF DigiSound, DuplexUnused
  <1> QED BY <1>1, <1>7, <1>11, <1>12

\* keep_resources(): the rate is that of both.
LEMMA DigiKeeps ==
  ASSUME NEW c \in Cards, NEW rate \in Rates
  PROVE  \A o \in DigiKeepResources(c, rate) :
           /\ o.ok \in BOOLEAN /\ Keeps(o.card, c) /\ SameRun(o.card, c)
           /\ o.card.device = c.device
           /\ o.ok => \A s \in Streams : o.card.rate[s] = rate
  <1> DEFINE Out(d) == Connect([d EXCEPT !.rate["tx"] = rate], "tx")
             Both == Then(Connect([c EXCEPT !.rate["rx"] = rate], "rx"), Out)
  <1>0. "tx" \in Streams /\ "rx" \in Streams
    BY DEF Streams
  <1>1. DigiKeepResources(c, rate) = Then(Both, MayFail)
    BY DEF DigiKeepResources
  <1>2. ASSUME NEW o \in Connect([c EXCEPT !.rate["rx"] = rate], "rx")
        PROVE  /\ o.ok \in BOOLEAN /\ Keeps(o.card, c) /\ SameRun(o.card, c)
               /\ o.card.device = c.device /\ o.card.rate["rx"] = rate
    BY <1>0, Linked DEF SameDevice
  <1>3. ASSUME NEW d \in Cards, NEW o \in Out(d)
        PROVE  /\ o.ok \in BOOLEAN /\ Keeps(o.card, d) /\ SameRun(o.card, d)
               /\ o.card.device = d.device /\ o.card.rate["tx"] = rate
               /\ o.card.rate["rx"] = d.rate["rx"]
    BY <1>0, <1>3, Linked DEF SameDevice, SameStream
  <1> HIDE DEF Out
  <1>4. ASSUME NEW o \in Both
        PROVE  /\ o.ok \in BOOLEAN /\ Keeps(o.card, c) /\ SameRun(o.card, c)
               /\ o.card.device = c.device
               /\ o.ok => \A s \in Streams : o.card.rate[s] = rate
    <2>1. PICK p \in Connect([c EXCEPT !.rate["rx"] = rate], "rx") :
            o \in IF p.ok THEN Out(p.card) ELSE {p}
      BY DEF Then
    <2>2. /\ p.ok \in BOOLEAN /\ Keeps(p.card, c) /\ SameRun(p.card, c)
          /\ p.card.device = c.device /\ p.card.rate["rx"] = rate
      BY <1>2
    <2>3. CASE p.ok
      <3>1. o \in Out(p.card)
        BY <2>1, <2>3
      <3>2. /\ o.ok \in BOOLEAN /\ Keeps(o.card, p.card) /\ SameRun(o.card, p.card)
            /\ o.card.device = p.card.device /\ o.card.rate["tx"] = rate
            /\ o.card.rate["rx"] = p.card.rate["rx"]
        BY <1>3, <2>2, <3>1 DEF Keeps
      <3> QED BY <2>2, <3>2 DEF Keeps, SameRun, Streams
    <2>4. CASE ~p.ok
      BY <2>1, <2>2, <2>4
    <2> QED BY <2>2, <2>3, <2>4
  <1> HIDE DEF Both
  <1> TAKE o \in DigiKeepResources(c, rate)
  <1>5. PICK p \in Both : o \in IF p.ok THEN MayFail(p.card) ELSE {p}
    BY <1>1 DEF Then
  <1>6. /\ p.ok \in BOOLEAN /\ Keeps(p.card, c) /\ SameRun(p.card, c)
        /\ p.card.device = c.device
        /\ p.ok => \A s \in Streams : p.card.rate[s] = rate
    BY <1>4
  <1>7. CASE p.ok
    <2>1. o.ok \in BOOLEAN /\ o.card = p.card
      BY <1>5, <1>7, Outcomes
    <2> QED BY <1>6, <1>7, <2>1
  <1>8. CASE ~p.ok
    BY <1>5, <1>6, <1>8
  <1> QED BY <1>6, <1>7, <1>8

\* The stream from the device, which StartRx leaves alone.
SameTx(d, c) == d.run["tx"] = c.run["tx"] /\ d.dead["tx"] = c.dead["tx"]
RxPlays(d, rate) ==
  /\ d.run["rx"] /\ ~d.dead["rx"] /\ d.device = rate
  /\ \A s \in Streams : d.rate[s] = rate

\* The stream to the device comes first.
LEMMA DigiStartsRx ==
  ASSUME NEW c \in Cards, NEW rate \in Rates, c.run["rx"] => RxPlays(c, rate)
  PROVE  \A o \in DigiStartRx(c, rate) :
           /\ o.ok \in BOOLEAN /\ Keeps(o.card, c)
           /\ o.ok => RxPlays(o.card, rate) /\ SameTx(o.card, c)
  <1> DEFINE Keep(d) == DigiKeepResources(d, rate)
             Run(d) == Then(AmdtpStart(d, "rx"), WaitCallback)
             C1 == DigiSetRate(c, rate)
             C2 == Then(C1, Keep)
             C3 == Then(C2, DigiBeginSession)
  <1>0. "tx" \in Streams /\ "rx" \in Streams
    BY DEF Streams
  <1>1. DigiStartRx(c, rate) = IF c.run["rx"] THEN Good(c) ELSE Then(C3, Run)
    BY DEF DigiStartRx
  <1>2. ASSUME NEW o \in C1
        PROVE  /\ o.ok \in BOOLEAN /\ Keeps(o.card, c) /\ SameRun(o.card, c)
               /\ o.ok => o.card.device = rate
    <2> DEFINE e == [c EXCEPT !.device = rate]
    <2>1. o \in Good(e) \/ o \in Bad(c)
      BY DEF DigiSetRate
    <2>2. Keeps(e, c) /\ SameRun(e, c) /\ e.device = rate
      BY SetDevice
    <2> HIDE DEF e
    <2>3. (o.ok = TRUE /\ o.card = e) \/ (o.ok = FALSE /\ o.card = c)
      BY <2>1, Outcomes
    <2> QED BY <2>2, <2>3 DEF Keeps, SameRun
  <1> HIDE DEF C1
  <1>3. ASSUME NEW o \in C2
        PROVE  /\ o.ok \in BOOLEAN /\ Keeps(o.card, c) /\ SameRun(o.card, c)
               /\ o.ok => o.card.device = rate /\ \A s \in Streams : o.card.rate[s] = rate
    <2>1. PICK p \in C1 : o \in IF p.ok THEN Keep(p.card) ELSE {p}
      BY DEF Then
    <2>2. /\ p.ok \in BOOLEAN /\ Keeps(p.card, c) /\ SameRun(p.card, c)
          /\ p.ok => p.card.device = rate
      BY <1>2
    <2>3. CASE p.ok
      <3>1. o \in DigiKeepResources(p.card, rate)
        BY <2>1, <2>3
      <3>2. /\ o.ok \in BOOLEAN /\ Keeps(o.card, p.card) /\ SameRun(o.card, p.card)
            /\ o.card.device = p.card.device
            /\ o.ok => \A s \in Streams : o.card.rate[s] = rate
        BY <2>2, <3>1, DigiKeeps DEF Keeps
      <3> QED BY <2>2, <2>3, <3>2 DEF Keeps, SameRun
    <2>4. CASE ~p.ok
      BY <2>1, <2>2, <2>4
    <2> QED BY <2>2, <2>3, <2>4
  <1> HIDE DEF C2, Keep
  <1>4. ASSUME NEW o \in C3
        PROVE  /\ o.ok \in BOOLEAN /\ Keeps(o.card, c) /\ SameRun(o.card, c)
               /\ o.ok => o.card.device = rate /\ \A s \in Streams : o.card.rate[s] = rate
    <2>1. PICK p \in C2 : o \in IF p.ok THEN DigiBeginSession(p.card) ELSE {p}
      BY DEF Then
    <2> DEFINE d == p.card
               e == [d EXCEPT !.session = TRUE]
    <2>2. /\ p.ok \in BOOLEAN /\ Keeps(d, c) /\ SameRun(d, c)
          /\ p.ok => d.device = rate /\ \A s \in Streams : d.rate[s] = rate
      BY <1>3
    <2>3. CASE p.ok
      <3>1. o \in Good(e) \/ o \in Bad(d)
        BY <2>1, <2>3 DEF DigiBeginSession
      <3> HIDE DEF d
      <3>2. Keeps(e, d) /\ SameRun(e, d) /\ SameLink(e, d) /\ e.device = d.device
        BY <2>2, SetSession DEF Keeps
      <3> HIDE DEF e
      <3>3. (o.ok = TRUE /\ o.card = e) \/ (o.ok = FALSE /\ o.card = d)
        BY <3>1, Outcomes
      <3> QED BY <2>2, <2>3, <3>2, <3>3 DEF Keeps, SameRun, SameLink
    <2>4. CASE ~p.ok
      BY <2>1, <2>2, <2>4
    <2> QED BY <2>2, <2>3, <2>4
  <1> HIDE DEF C3
  <1>5. ASSUME NEW d \in Cards, NEW o \in Run(d)
        PROVE  /\ o.ok \in BOOLEAN /\ Keeps(o.card, d)
               /\ o.ok => /\ o.card.run["rx"] /\ ~o.card.dead["rx"]
                          /\ o.card.device = d.device /\ o.card.rate = d.rate
                          /\ SameTx(o.card, d)
    <2>1. PICK p \in AmdtpStart(d, "rx") :
            o \in IF p.ok THEN WaitCallback(p.card) ELSE {p}
      BY DEF Then
    <2> DEFINE e == p.card
    <2>2. /\ p.ok \in BOOLEAN /\ Keeps(e, d) /\ SameDevice(e, d) /\ SameLink(e, d)
          /\ p.ok => /\ e.run = [d.run EXCEPT !["rx"] = TRUE]
                     /\ e.dead = [d.dead EXCEPT !["rx"] = FALSE]
      BY <1>0, StartOutcomes
    <2>3. CASE p.ok
      <3>1. o.ok \in BOOLEAN /\ o.card = e
        BY <2>1, <2>2, <2>3, Outcomes
      <3> HIDE DEF e
      <3>2. e.run["rx"] /\ ~e.dead["rx"] /\ SameTx(e, d)
        BY <2>2, <2>3, <1>0 DEF SameTx, Cards, Flags
      <3> QED BY <2>2, <3>1, <3>2 DEF SameDevice, SameLink
    <2>4. CASE ~p.ok
      BY <2>1, <2>2, <2>4
    <2> QED BY <2>2, <2>3, <2>4
  <1> HIDE DEF Run
  <1>6. ASSUME NEW o \in Then(C3, Run)
        PROVE  /\ o.ok \in BOOLEAN /\ Keeps(o.card, c)
               /\ o.ok => RxPlays(o.card, rate) /\ SameTx(o.card, c)
    <2>1. PICK p \in C3 : o \in IF p.ok THEN Run(p.card) ELSE {p}
      BY DEF Then
    <2>2. /\ p.ok \in BOOLEAN /\ Keeps(p.card, c) /\ SameRun(p.card, c)
          /\ p.ok => p.card.device = rate /\ \A s \in Streams : p.card.rate[s] = rate
      BY <1>4
    <2>3. CASE p.ok
      <3>1. o \in Run(p.card) /\ p.card \in Cards
        BY <2>1, <2>2, <2>3 DEF Keeps
      <3>2. /\ o.ok \in BOOLEAN /\ Keeps(o.card, p.card)
            /\ o.ok => /\ o.card.run["rx"] /\ ~o.card.dead["rx"]
                       /\ o.card.device = p.card.device /\ o.card.rate = p.card.rate
                       /\ SameTx(o.card, p.card)
        BY <3>1, <1>5
      <3> QED BY <2>2, <2>3, <3>2 DEF Keeps, SameRun, SameTx, RxPlays
    <2>4. CASE ~p.ok
      BY <2>1, <2>2, <2>4
    <2> QED BY <2>2, <2>3, <2>4
  <1> TAKE o \in DigiStartRx(c, rate)
  <1>7. CASE c.run["rx"]
    <2>1. o.ok = TRUE /\ o.card = c
      BY <1>1, <1>7, Outcomes
    <2> QED BY <2>1, <1>7 DEF Keeps, SameTx
  <1>8. CASE ~c.run["rx"]
    BY <1>1, <1>6, <1>8
  <1> QED BY <1>7, <1>8

\* The stream from the device, which needs the other
LEMMA DigiStartsTx ==
  ASSUME NEW c \in Cards, NEW rate \in Rates, RxPlays(c, rate),
         c.run["tx"] => ~c.dead["tx"]
  PROVE  \A o \in DigiStartTx(c) :
           /\ o.ok \in BOOLEAN /\ Keeps(o.card, c)
           /\ o.ok => /\ RxPlays(o.card, rate)
                      /\ c.count["tx"] > 0 => o.card.run["tx"] /\ ~o.card.dead["tx"]
  <1>0. "tx" \in Streams /\ "rx" \in Streams
    BY DEF Streams
  <1> TAKE o \in DigiStartTx(c)
  <1>1. CASE c.count["tx"] > 0 /\ ~c.run["tx"]
    <2>1. PICK p \in AmdtpStart(c, "tx") :
            o \in IF p.ok THEN WaitCallback(p.card) ELSE {p}
      BY <1>1 DEF DigiStartTx, Then
    <2> DEFINE e == p.card
    <2>2. /\ p.ok \in BOOLEAN /\ Keeps(e, c) /\ SameDevice(e, c) /\ SameLink(e, c)
          /\ p.ok => /\ e.run = [c.run EXCEPT !["tx"] = TRUE]
                     /\ e.dead = [c.dead EXCEPT !["tx"] = FALSE]
      BY <1>0, StartOutcomes
    <2>3. CASE p.ok
      <3>1. o.ok \in BOOLEAN /\ o.card = e
        BY <2>1, <2>2, <2>3, Outcomes
      <3> HIDE DEF e
      <3>2. e.run["tx"] /\ ~e.dead["tx"] /\ e.run["rx"] /\ ~e.dead["rx"]
        BY <2>2, <2>3, <1>0 DEF RxPlays, Cards, Flags
      <3> QED BY <2>2, <3>1, <3>2 DEF SameDevice, SameLink, RxPlays
    <2>4. CASE ~p.ok
      BY <2>1, <2>2, <2>4
    <2> QED BY <2>2, <2>3, <2>4
  <1>2. CASE ~(c.count["tx"] > 0 /\ ~c.run["tx"])
    <2>1. o \in Good(c)
      BY <1>2 DEF DigiStartTx
    <2>2. o.ok = TRUE /\ o.card = c
      BY <2>1, Outcomes
    <2> QED BY <2>2, <1>2 DEF Keeps
  <1> QED BY <1>1, <1>2

\* snd_dg00x_stream_start_duplex(): a good end means that all that are used run.
LEMMA DigiStartsDuplex ==
  ASSUME NEW c \in Cards, NEW rate \in Rates \cup {AnyRate}, DigiSound(c)
  PROVE  \A o \in DigiStartDuplex(c, rate) :
           /\ o.ok \in BOOLEAN /\ Keeps(o.card, c) /\ DigiSound(o.card)
           /\ DuplexUnused(c) => DuplexUnused(o.card)
           /\ o.ok => \A s \in Streams :
                        c.count[s] > 0 =>
                          /\ o.card.run[s] /\ ~o.card.dead[s]
                          /\ rate # AnyRate => o.card.rate[s] = rate
  <1> DEFINE Asked(d) == IF rate = AnyRate THEN d.device ELSE rate
             Fresh(d) == IF Asked(d) # d.device \/ d.dead["tx"] \/ d.dead["rx"]
                         THEN DigiStopAll(d) ELSE d
             Rx(d) == DigiStartRx(Fresh(d), Asked(d))
             Both == Then(MayFail(c), Rx)
             All == Then(Both, DigiStartTx)
             f == Fresh(c)
             r == Asked(c)
  <1>0. "tx" \in Streams /\ "rx" \in Streams
    BY DEF Streams
  <1>1. DigiStartDuplex(c, rate)
          = IF c.count["tx"] = 0 /\ c.count["rx"] = 0 THEN Good(c)
            ELSE OrUndo(All, DigiStopAll)
    BY DEF DigiStartDuplex
  <1>2. r \in Rates /\ (rate # AnyRate => r = rate)
    BY DEF Cards
  <1>3. /\ f \in Cards /\ Keeps(f, c)
        /\ f.run["rx"] => RxPlays(f, r)
        /\ f.run["tx"] => ~f.dead["tx"]
    <2>1. CASE r # c.device \/ c.dead["tx"] \/ c.dead["rx"]
      <3>1. f = DigiStopAll(c)
        BY <2>1
      <3> HIDE DEF f, r
      <3>2. Keeps(f, c) /\ \A s \in Streams : NoStream(f, s)
        BY <3>1, DigiStopped
      <3> QED BY <1>0, <3>2 DEF Keeps, NoStream
    <2>2. CASE ~(r # c.device \/ c.dead["tx"] \/ c.dead["rx"])
      <3>1. f = c
        BY <2>2
      <3> HIDE DEF f, r
      <3> QED BY <3>1, <2>2 DEF Keeps, RxPlays, DigiSound
    <2> QED BY <2>1, <2>2
  <1>4. Rx(c) = DigiStartRx(f, r)
    OBVIOUS
  <1> HIDE DEF f, r, Rx
  <1>5. ASSUME NEW o \in Both
        PROVE  /\ o.ok \in BOOLEAN /\ Keeps(o.card, c)
               /\ o.ok => RxPlays(o.card, r) /\ (o.card.run["tx"] => ~o.card.dead["tx"])
    <2>1. PICK p \in MayFail(c) : o \in IF p.ok THEN Rx(p.card) ELSE {p}
      BY DEF Then
    <2>2. p.ok \in BOOLEAN /\ p.card = c
      BY Outcomes
    <2>3. CASE p.ok
      <3>1. o \in DigiStartRx(f, r)
        BY <2>1, <2>2, <2>3, <1>4
      <3>2. /\ o.ok \in BOOLEAN /\ Keeps(o.card, f)
            /\ o.ok => RxPlays(o.card, r) /\ SameTx(o.card, f)
        BY <3>1, <1>2, <1>3, DigiStartsRx
      <3> QED BY <3>2, <1>3 DEF Keeps, SameTx
    <2>4. CASE ~p.ok
      <3>1. o.ok = FALSE /\ o.card = c
        BY <2>1, <2>2, <2>4
      <3> QED BY <3>1 DEF Keeps
    <2> QED BY <2>2, <2>3, <2>4
  <1> HIDE DEF Both
  <1>6. ASSUME NEW o \in All
        PROVE  /\ o.ok \in BOOLEAN /\ Keeps(o.card, c)
               /\ o.ok => /\ RxPlays(o.card, r)
                          /\ c.count["tx"] > 0 => o.card.run["tx"] /\ ~o.card.dead["tx"]
    <2>1. PICK p \in Both : o \in IF p.ok THEN DigiStartTx(p.card) ELSE {p}
      BY DEF Then
    <2>2. /\ p.ok \in BOOLEAN /\ Keeps(p.card, c)
          /\ p.ok => RxPlays(p.card, r) /\ (p.card.run["tx"] => ~p.card.dead["tx"])
      BY <1>5
    <2>3. CASE p.ok
      <3>1. o \in DigiStartTx(p.card) /\ p.card \in Cards
        BY <2>1, <2>2, <2>3 DEF Keeps
      <3>2. /\ o.ok \in BOOLEAN /\ Keeps(o.card, p.card)
            /\ o.ok => /\ RxPlays(o.card, r)
                       /\ p.card.count["tx"] > 0 => o.card.run["tx"] /\ ~o.card.dead["tx"]
        BY <3>1, <1>2, <2>2, <2>3, DigiStartsTx
      <3>3. p.card.count = c.count
        BY <2>2, KeepsFields
      <3> QED BY <2>2, <3>2, <3>3 DEF Keeps
    <2>4. CASE ~p.ok
      BY <2>1, <2>2, <2>4
    <2> QED BY <2>2, <2>3, <2>4
  <1> HIDE DEF All
  <1> TAKE o \in DigiStartDuplex(c, rate)
  <1>7. CASE c.count["tx"] = 0 /\ c.count["rx"] = 0
    <2>1. o.ok = TRUE /\ o.card = c
      BY <1>1, <1>7, Outcomes
    <2>2. \A s \in Streams : ~(c.count[s] > 0)
      BY <1>7 DEF Streams
    <2> QED BY <2>1, <2>2 DEF Keeps
  <1>8. CASE ~(c.count["tx"] = 0 /\ c.count["rx"] = 0)
    <2>1. PICK p \in All :
            o = IF p.ok THEN p ELSE [ok |-> FALSE, card |-> DigiStopAll(p.card)]
      BY <1>1, <1>8 DEF OrUndo
    <2>2. /\ p.ok \in BOOLEAN /\ Keeps(p.card, c)
          /\ p.ok => /\ RxPlays(p.card, r)
                     /\ c.count["tx"] > 0 => p.card.run["tx"] /\ ~p.card.dead["tx"]
      BY <1>6
    <2>3. \A d : Keeps(d, c) => DuplexUnused(d)
      BY <1>0, <1>8, KeepsFields DEF DuplexUnused
    <2>4. CASE p.ok
      <3>1. o = p
        BY <2>1, <2>4
      <3>2. DigiSound(p.card)
        BY <2>2, <2>4 DEF DigiSound, RxPlays
      <3>3. \A s \in Streams :
              c.count[s] > 0 =>
                /\ p.card.run[s] /\ ~p.card.dead[s]
                /\ rate # AnyRate => p.card.rate[s] = rate
        BY <2>2, <2>4, <1>2 DEF RxPlays, Streams
      <3> QED BY <2>2, <2>3, <3>1, <3>2, <3>3
    <2>5. CASE ~p.ok
      <3>1. o.ok = FALSE /\ o.card = DigiStopAll(p.card)
        BY <2>1, <2>5
      <3>2. Keeps(o.card, p.card) /\ DigiSound(o.card) /\ DuplexUnused(o.card)
        BY <3>1, <2>2, DigiStopped DEF Keeps
      <3> QED BY <2>2, <3>1, <3>2 DEF Keeps
    <2> QED BY <2>2, <2>4, <2>5
  <1> QED BY <1>7, <1>8

\* snd_dg00x_stream_stop_duplex(), once a user is gone
LEMMA DigiStopsDuplex ==
  ASSUME NEW c \in Cards, DigiSound(c)
  PROVE  LET d == DigiStopDuplex(c) IN Keeps(d, c) /\ DigiSound(d) /\ DuplexUnused(d)
  <1>0. "tx" \in Streams /\ "rx" \in Streams
    BY DEF Streams
  <1>1. CASE c.count["tx"] > 0
    <2>1. DigiStopDuplex(c) = c
      BY <1>1 DEF DigiStopDuplex
    <2>2. c.count["tx"] # 0
      BY <1>1
    <2> QED BY <2>1, <2>2, <1>0 DEF DuplexUnused, Keeps
  <1>2. CASE ~(c.count["tx"] > 0) /\ c.count["rx"] > 0
    <2> DEFINE d == AmdtpStop(c, "tx")
    <2>1. DigiStopDuplex(c) = d /\ c.count["rx"] # 0
      BY <1>2 DEF DigiStopDuplex
    <2>2. /\ Keeps(d, c) /\ SameDevice(d, c) /\ SameLink(d, c)
          /\ d.run = [c.run EXCEPT !["tx"] = FALSE]
      BY <1>0, Stop
    <2> HIDE DEF d
    <2>3. d.count = c.count
      BY <2>2, KeepsFields
    <2>4. ~d.run["tx"] /\ d.run["rx"] = c.run["rx"]
      BY <2>2, <1>0 DEF Cards, Flags
    <2> QED BY <1>0, <2>1, <2>2, <2>3, <2>4 DEF DigiSound, DuplexUnused, SameDevice, SameLink
  <1>3. CASE ~(c.count["tx"] > 0) /\ ~(c.count["rx"] > 0)
    <2>1. DigiStopDuplex(c) = DigiStopAll(c)
      BY <1>3 DEF DigiStopDuplex
    <2> QED BY <2>1, DigiStopped
  <1> QED BY <1>1, <1>2, <1>3

\* digi00x does not look at what the update comes to; that concerns the resources only.
LEMMA DigiUpdates ==
  ASSUME NEW c \in Cards, NEW s \in Streams, DigiSound(c), DuplexUnused(c)
  PROVE  \A o \in Reconnect(c, s) :
           Keeps(o.card, c) /\ DigiSound(o.card) /\ DuplexUnused(o.card)
  <1> TAKE o \in Reconnect(c, s)
  <1> DEFINE e == o.card
  <1>1. /\ o.ok \in BOOLEAN /\ Keeps(e, c) /\ SameRun(e, c) /\ SameDevice(e, c)
        /\ e.rate = c.rate
        /\ e.conn = IF o.ok THEN c.conn ELSE [c.conn EXCEPT ![s] = FALSE]
    BY ReconnectOutcomes
  <1> HIDE DEF e
  <1>2. \A t \in Streams : e.conn[t] => c.conn[t]
    BY <1>1 DEF Cards, Flags
  <1>3. e.count = c.count
    BY <1>1, KeepsFields
  <1> QED BY <1>1, <1>2, <1>3
          DEF DigiSound, DuplexUnused, NoStream, SameRun, SameDevice, e

----------------------------------------------------------------------------
(* The streams of BeBoB *)

\* Both connections are there, at the rate of the device, or none is, and the master only
\* runs with them; its slave may outlive both.
BebobSound(c) ==
  /\ \A s \in Streams : c.conn[s] = c.session
  /\ c.session => \A s \in Streams : c.rate[s] = c.device
  /\ c.run["tx"] => c.session
Quiet(c) == ~c.session /\ \A s \in Streams : NoStream(c, s)

\* A card without connections is sound when its master does not run,
LEMMA UnlinkedIsSound ==
  ASSUME NEW c \in Cards, ~c.session, \A s \in Streams : ~c.conn[s], ~c.run["tx"]
  PROVE  BebobSound(c)
  <1>1. c.session = FALSE /\ \A s \in Streams : c.conn[s] = FALSE
    BY DEF Cards, Flags
  <1> QED BY <1>1 DEF BebobSound

\* and in order when nothing goes on.
LEMMA QuietIsSound ==
  ASSUME NEW c \in Cards, Quiet(c)
  PROVE  BebobSound(c) /\ DuplexUnused(c)
  <1>1. "tx" \in Streams /\ "rx" \in Streams
    BY DEF Streams
  <1>2. c.session = FALSE /\ \A s \in Streams : c.conn[s] = FALSE
    BY DEF Quiet, NoStream, Cards, Flags
  <1> QED BY <1>1, <1>2 DEF Quiet, NoStream, BebobSound, DuplexUnused

\* break_both_connections()
LEMMA BebobBroken ==
  ASSUME NEW c \in Cards
  PROVE  LET d == BebobBreakBoth(c) IN
           /\ Keeps(d, c) /\ SameRun(d, c) /\ d.device = c.device
           /\ ~d.session /\ \A s \in Streams : ~d.conn[s]
  <1> DEFINE a == Disconnect(c, "rx")
             b == Disconnect(a, "tx")
             d == [b EXCEPT !.session = FALSE]
  <1>0. "tx" \in Streams /\ "rx" \in Streams
    BY DEF Streams
  <1>1. BebobBreakBoth(c) = d
    BY DEF BebobBreakBoth
  <1>2. /\ Keeps(a, c) /\ SameRun(a, c) /\ SameDevice(a, c)
        /\ a.conn = [c.conn EXCEPT !["rx"] = FALSE]
    BY <1>0, Unlink
  <1> HIDE DEF a
  <1>3. /\ Keeps(b, a) /\ SameRun(b, a) /\ SameDevice(b, a)
        /\ b.conn = [a.conn EXCEPT !["tx"] = FALSE]
    BY <1>0, <1>2, Unlink DEF Keeps
  <1> HIDE DEF b
  <1>4. /\ Keeps(d, b) /\ SameRun(d, b) /\ SameLink(d, b) /\ d.device = b.device
        /\ d.session = FALSE
    BY <1>3, SetSession DEF Keeps
  <1> HIDE DEF d
  <1>5. \A s \in Streams : ~d.conn[s]
    BY <1>2, <1>3, <1>4 DEF SameLink, Cards, Flags, Streams
  <1> QED BY <1>1, <1>2, <1>3, <1>4, <1>5 DEF Keeps, SameRun, SameDevice

\* The master stops, and the connections are broken.
LEMMA BebobStoppedMaster ==
  ASSUME NEW c \in Cards
  PROVE  LET d == BebobStopMaster(c) IN
           /\ Keeps(d, c) /\ d.device = c.device /\ ~d.session
           /\ \A s \in Streams : ~d.conn[s]
           /\ ~d.run["tx"] /\ d.run["rx"] = c.run["rx"]
           /\ BebobSound(d)
           /\ ~c.run["rx"] => Quiet(d)
  <1> DEFINE a == AmdtpStop(c, "tx")
             d == BebobBreakBoth(a)
  <1>0. "tx" \in Streams /\ "rx" \in Streams
    BY DEF Streams
  <1>1. BebobStopMaster(c) = d
    BY DEF BebobStopMaster
  <1>2. Keeps(a, c) /\ SameDevice(a, c) /\ a.run = [c.run EXCEPT !["tx"] = FALSE]
    BY <1>0, Stop
  <1> HIDE DEF a
  <1>3. /\ Keeps(d, a) /\ SameRun(d, a) /\ d.device = a.device
        /\ ~d.session /\ \A s \in Streams : ~d.conn[s]
    BY <1>2, BebobBroken DEF Keeps
  <1> HIDE DEF d
  <1>4. ~d.run["tx"] /\ d.run["rx"] = c.run["rx"]
    BY <1>0, <1>2, <1>3 DEF SameRun, Cards, Flags
  <1>5. ~c.run["rx"] => Quiet(d)
    BY <1>3, <1>4 DEF Quiet, NoStream, Streams
  <1>6. BebobSound(d)
    BY <1>3, <1>4, UnlinkedIsSound DEF Keeps
  <1> QED BY <1>1, <1>2, <1>3, <1>4, <1>5, <1>6 DEF Keeps, SameDevice

\* Both connections, or none of them.
BebobLink(d, rate) ==
  d.session /\ \A s \in Streams : d.conn[s] /\ d.rate[s] = rate
BebobNoLink(d) == ~d.session /\ \A s \in Streams : ~d.conn[s]

\* make_both_connections(): both or none
LEMMA BebobMakes ==
  ASSUME NEW c \in Cards, NEW rate \in Rates,
         c.session => BebobLink(c, rate), ~c.session => BebobNoLink(c)
  PROVE  \A o \in BebobMakeBoth(c, rate) :
           /\ o.ok \in BOOLEAN /\ Keeps(o.card, c) /\ SameRun(o.card, c)
           /\ o.card.device = c.device
           /\ IF o.ok THEN BebobLink(o.card, rate) ELSE BebobNoLink(o.card)
  <1> DEFINE r == [s \in Streams |-> rate]
             a == [c EXCEPT !.rate = r]
             Out == Connect(a, "tx")
             In(d) == OrUndo(Connect(d, "rx"), LAMBDA e : Disconnect(e, "tx"))
             Connected(d) == Good([d EXCEPT !.session = TRUE])
             Both == Then(Out, In)
  <1>0. "tx" \in Streams /\ "rx" \in Streams
    BY DEF Streams
  <1>1. BebobMakeBoth(c, rate)
          = IF c.session THEN Good(c) ELSE Then(Both, Connected)
    BY DEF BebobMakeBoth
  <1>2. r \in [Streams -> Rates \cup {AnyRate}] /\ \A s \in Streams : r[s] = rate
    OBVIOUS
  <1> HIDE DEF r
  <1>3. /\ Keeps(a, c) /\ SameRun(a, c) /\ SameDevice(a, c)
        /\ a.conn = c.conn /\ a.rate = r
    BY <1>2, SetRates
  <1> HIDE DEF a
  <1> SUFFICES ASSUME NEW o \in BebobMakeBoth(c, rate)
               PROVE  /\ o.ok \in BOOLEAN /\ Keeps(o.card, c) /\ SameRun(o.card, c)
                      /\ o.card.device = c.device
                      /\ IF o.ok THEN BebobLink(o.card, rate) ELSE BebobNoLink(o.card)
    OBVIOUS
  <1>4. CASE c.session
    <2>1. o.ok = TRUE /\ o.card = c
      BY <1>1, <1>4, Outcomes
    <2> QED BY <2>1, <1>4 DEF Keeps, SameRun
  <1>5. CASE ~c.session
    <2>0. \A s \in Streams : c.conn[s] = FALSE
      BY <1>5 DEF BebobNoLink, Cards, Flags
    <2>1. ASSUME NEW p \in Out
          PROVE  /\ p.ok \in BOOLEAN /\ Keeps(p.card, c) /\ SameRun(p.card, c)
                 /\ SameDevice(p.card, c) /\ p.card.rate = r /\ ~p.card.conn["rx"]
                 /\ p.card.conn["tx"] = p.ok
      <3> DEFINE e == p.card
      <3>1. /\ p.ok \in BOOLEAN /\ Keeps(e, a) /\ SameRun(e, a) /\ SameDevice(e, a)
            /\ e.rate = a.rate
            /\ e.conn = IF p.ok THEN [a.conn EXCEPT !["tx"] = TRUE] ELSE a.conn
        BY <1>0, <1>3, ConnectOutcomes DEF Keeps
      <3> HIDE DEF e
      <3>2. ~e.conn["rx"] /\ e.conn["tx"] = p.ok
        <4>1. CASE p.ok
          BY <1>0, <1>3, <3>1, <2>0, <4>1 DEF Cards, Flags
        <4>2. CASE ~p.ok
          BY <1>0, <1>3, <3>1, <2>0, <4>2 DEF Cards, Flags
        <4> QED BY <4>1, <4>2
      <3> QED BY <1>3, <3>1, <3>2 DEF Keeps, SameRun, SameDevice, e
    <2>2. ASSUME NEW d \in Cards, d.rate = r, ~d.conn["rx"], d.conn["tx"], NEW q \in In(d)
          PROVE  /\ q.ok \in BOOLEAN /\ Keeps(q.card, d) /\ SameRun(q.card, d)
                 /\ SameDevice(q.card, d)
                 /\ q.ok => \A s \in Streams : q.card.conn[s] /\ q.card.rate[s] = rate
                 /\ ~q.ok => \A s \in Streams : ~q.card.conn[s]
      <3>1. PICK p \in Connect(d, "rx") :
              q = IF p.ok THEN p ELSE [ok |-> FALSE, card |-> Disconnect(p.card, "tx")]
        BY DEF OrUndo
      <3> DEFINE e == p.card
      <3>2. /\ p.ok \in BOOLEAN /\ Keeps(e, d) /\ SameRun(e, d) /\ SameDevice(e, d)
            /\ e.rate = d.rate
            /\ e.conn = IF p.ok THEN [d.conn EXCEPT !["rx"] = TRUE] ELSE d.conn
        BY <1>0, ConnectOutcomes
      <3>3. CASE p.ok
        <4>1. q = p
          BY <3>1, <3>3
        <4> HIDE DEF e
        <4>2. \A s \in Streams : e.conn[s] /\ e.rate[s] = rate
          BY <3>2, <3>3, <2>2, <1>2 DEF Cards, Flags, Streams
        <4> QED BY <3>2, <3>3, <4>1, <4>2 DEF e
      <3>4. CASE ~p.ok
        <4> DEFINE f == Disconnect(e, "tx")
        <4>1. q.ok = FALSE /\ q.card = f
          BY <3>1, <3>4
        <4> HIDE DEF e
        <4>2. /\ Keeps(f, e) /\ SameRun(f, e) /\ SameDevice(f, e)
              /\ f.conn = [e.conn EXCEPT !["tx"] = FALSE]
          BY <1>0, <3>2, Unlink DEF Keeps
        <4> HIDE DEF f
        <4>3. \A s \in Streams : ~f.conn[s]
          BY <3>2, <3>4, <4>2, <2>2 DEF Cards, Flags, Streams
        <4> QED BY <3>2, <4>1, <4>2, <4>3 DEF Keeps, SameRun, SameDevice
      <3> QED BY <3>2, <3>3, <3>4
    <2> HIDE DEF Out, In
    <2>3. ASSUME NEW q \in Both
          PROVE  /\ q.ok \in BOOLEAN /\ Keeps(q.card, c) /\ SameRun(q.card, c)
                 /\ SameDevice(q.card, c)
                 /\ q.ok => \A s \in Streams : q.card.conn[s] /\ q.card.rate[s] = rate
                 /\ ~q.ok => \A s \in Streams : ~q.card.conn[s]
      <3>1. PICK p \in Out : q \in IF p.ok THEN In(p.card) ELSE {p}
        BY DEF Then
      <3>2. /\ p.ok \in BOOLEAN /\ Keeps(p.card, c) /\ SameRun(p.card, c)
            /\ SameDevice(p.card, c) /\ p.card.rate = r /\ ~p.card.conn["rx"]
            /\ p.card.conn["tx"] = p.ok
        BY <2>1
      <3>3. CASE p.ok
        <4>1. q \in In(p.card) /\ p.card \in Cards /\ p.card.conn["tx"]
          BY <3>1, <3>2, <3>3 DEF Keeps
        <4>2. /\ q.ok \in BOOLEAN /\ Keeps(q.card, p.card) /\ SameRun(q.card, p.card)
              /\ SameDevice(q.card, p.card)
              /\ q.ok => \A s \in Streams : q.card.conn[s] /\ q.card.rate[s] = rate
              /\ ~q.ok => \A s \in Streams : ~q.card.conn[s]
          BY <2>2, <3>2, <4>1
        <4> QED BY <3>2, <4>2 DEF Keeps, SameRun, SameDevice
      <3>4. CASE ~p.ok
        <4>1. q = p
          BY <3>1, <3>4
        <4>2. \A s \in Streams : ~p.card.conn[s]
          BY <3>2, <3>4 DEF Streams
        <4> QED BY <3>2, <3>4, <4>1, <4>2
      <3> QED BY <3>2, <3>3, <3>4
    <2> HIDE DEF Both
    <2>4. PICK p \in Both : o \in IF p.ok THEN Connected(p.card) ELSE {p}
      BY <1>1, <1>5 DEF Then
    <2> DEFINE d == p.card
               e == [d EXCEPT !.session = TRUE]
    <2>5. /\ p.ok \in BOOLEAN /\ Keeps(d, c) /\ SameRun(d, c) /\ SameDevice(d, c)
          /\ p.ok => \A s \in Streams : d.conn[s] /\ d.rate[s] = rate
          /\ ~p.ok => \A s \in Streams : ~d.conn[s]
      BY <2>3
    <2>6. CASE p.ok
      <3>1. o.ok = TRUE /\ o.card = e
        BY <2>4, <2>6, Outcomes
      <3> HIDE DEF d
      <3>2. /\ Keeps(e, d) /\ SameRun(e, d) /\ SameLink(e, d) /\ e.device = d.device
            /\ e.session = TRUE
        BY <2>5, SetSession DEF Keeps
      <3> HIDE DEF e
      <3>3. BebobLink(e, rate)
        BY <2>5, <2>6, <3>2 DEF BebobLink, SameLink
      <3> QED BY <2>5, <3>1, <3>2, <3>3 DEF Keeps, SameRun, SameDevice
    <2>7. CASE ~p.ok
      <3>1. o = p
        BY <2>4, <2>7
      <3> QED BY <1>5, <2>5, <2>7, <3>1 DEF BebobNoLink, SameDevice
    <2> QED BY <2>5, <2>6, <2>7
  <1> QED BY <1>4, <1>5

SameRx(d, c) == d.run["rx"] = c.run["rx"] /\ d.dead["rx"] = c.dead["rx"]
\* The master runs; the device may yet have to be told the rate.
BebobRuns(d, c, rate) ==
  BebobLink(d, rate) /\ d.run["tx"] /\ ~d.dead["tx"] /\ SameRx(d, c)

\* rate_spec->set()
LEMMA BebobSetsRate ==
  ASSUME NEW c \in Cards, NEW rate \in Rates
  PROVE  \A o \in BebobSetRate(c, rate) :
           /\ o.ok \in BOOLEAN /\ Keeps(o.card, c) /\ SameRun(o.card, c)
           /\ SameLink(o.card, c) /\ o.card.session = c.session
           /\ o.card.device \in {c.device, rate} /\ (o.ok => o.card.device = rate)
  <1> DEFINE e == [c EXCEPT !.device = rate]
  <1> TAKE o \in BebobSetRate(c, rate)
  <1>1. o \in MayFail(e) \/ o \in Bad(c)
    BY DEF BebobSetRate
  <1>2. /\ Keeps(e, c) /\ SameRun(e, c) /\ SameLink(e, c) /\ e.session = c.session
        /\ e.device = rate
    BY SetDevice
  <1> HIDE DEF e
  <1>3. \/ o.ok \in BOOLEAN /\ o.card = e
        \/ o.ok = FALSE /\ o.card = c
    BY <1>1, Outcomes
  <1> QED BY <1>2, <1>3 DEF Keeps, SameRun, SameLink

\* Lines 572-630: the master runs at the rate asked for, or no harm is done.
LEMMA BebobStartsMaster ==
  ASSUME NEW c \in Cards, NEW rate \in Rates, BebobSound(c),
         c.session => c.device = rate, c.run["tx"] => ~c.dead["tx"]
  PROVE  \A o \in BebobStartMaster(c, rate) :
           /\ o.ok \in BOOLEAN /\ Keeps(o.card, c)
           /\ o.ok => BebobRuns(o.card, c, rate) /\ o.card.device = rate
           /\ ~o.ok => BebobSound(o.card)
  <1> DEFINE Make(d) == BebobMakeBoth(d, rate)
             Start(d) == OrUndo(BebobStartStream(d, "tx"), BebobBreakBoth)
             Ensure(d) == IF BebobSpecial(d)
                          THEN OrUndo(BebobSetRate(d, rate), BebobStopMaster) ELSE Good(d)
             Wait(d) == OrUndo(WaitCallback(d), BebobStopMaster)
             C1 == IF BebobSpecial(c) THEN Good(c) ELSE BebobSetRate(c, rate)
             C2 == Then(C1, Make)
             C3 == Then(C2, Start)
             C4 == Then(C3, Ensure)
             Told(d) == BebobSpecial(c) \/ d.device = rate
  <1>0. "tx" \in Streams /\ "rx" \in Streams
    BY DEF Streams
  <1>1. BebobStartMaster(c, rate)
          = IF c.run["tx"] THEN Good(c) ELSE Then(C4, Wait)
    BY DEF BebobStartMaster
  <1>2. (c.session => BebobLink(c, rate)) /\ (~c.session => BebobNoLink(c))
    BY DEF BebobSound, BebobLink, BebobNoLink
  <1>3. \A d : Keeps(d, c) => d \in Cards /\ BebobSpecial(d) = BebobSpecial(c)
    BY KeepsFields DEF Keeps, BebobSpecial
  <1>4. CASE c.run["tx"]
    <2> TAKE o \in BebobStartMaster(c, rate)
    <2>1. o.ok = TRUE /\ o.card = c
      BY <1>1, <1>4, Outcomes
    <2>2. c.session
      BY <1>4 DEF BebobSound
    <2> QED BY <2>1, <2>2, <1>2, <1>4 DEF BebobRuns, Keeps, SameRx
  <1>5. CASE ~c.run["tx"]
    <2>1. ASSUME NEW o \in C1
          PROVE  /\ o.ok \in BOOLEAN /\ Keeps(o.card, c) /\ SameRun(o.card, c)
                 /\ o.card.session => BebobLink(o.card, rate)
                 /\ ~o.card.session => BebobNoLink(o.card)
                 /\ o.ok => Told(o.card)
                 /\ ~o.ok => BebobSound(o.card)
      <3>1. CASE BebobSpecial(c)
        <4>1. o.ok = TRUE /\ o.card = c
          BY <3>1, Outcomes
        <4> QED BY <4>1, <3>1, <1>2 DEF Keeps, SameRun
      <3>2. CASE ~BebobSpecial(c)
        <4> DEFINE e == o.card
        <4>1. /\ o.ok \in BOOLEAN /\ Keeps(e, c) /\ SameRun(e, c) /\ SameLink(e, c)
              /\ e.session = c.session
              /\ e.device \in {c.device, rate} /\ (o.ok => e.device = rate)
          BY <3>2, BebobSetsRate
        <4> HIDE DEF e
        <4>2. (e.session => BebobLink(e, rate)) /\ (~e.session => BebobNoLink(e))
          BY <4>1, <1>2 DEF BebobLink, BebobNoLink, SameLink
        <4>3. e.session => e.device = rate
          BY <4>1
        <4>4. BebobSound(e)
          BY <4>1, <4>2, <4>3 DEF BebobSound, BebobLink, SameRun, SameLink
        <4> QED BY <4>1, <4>2, <4>4 DEF e
      <3> QED BY <3>1, <3>2
    <2> HIDE DEF C1, Told
    <2>2. ASSUME NEW o \in C2
          PROVE  /\ o.ok \in BOOLEAN /\ Keeps(o.card, c) /\ SameRun(o.card, c)
                 /\ o.ok => BebobLink(o.card, rate) /\ Told(o.card)
                 /\ ~o.ok => BebobSound(o.card)
      <3>1. PICK p \in C1 : o \in IF p.ok THEN Make(p.card) ELSE {p}
        BY DEF Then
      <3> DEFINE d == p.card
                 e == o.card
      <3>2. /\ p.ok \in BOOLEAN /\ Keeps(d, c) /\ SameRun(d, c)
            /\ d.session => BebobLink(d, rate)
            /\ ~d.session => BebobNoLink(d)
            /\ p.ok => Told(d)
            /\ ~p.ok => BebobSound(d)
        BY <2>1
      <3>3. CASE p.ok
        <4>1. o \in BebobMakeBoth(d, rate) /\ d \in Cards
          BY <3>1, <3>2, <3>3, <1>3
        <4> HIDE DEF d
        <4>2. /\ o.ok \in BOOLEAN /\ Keeps(e, d) /\ SameRun(e, d)
              /\ e.device = d.device
              /\ IF o.ok THEN BebobLink(e, rate) ELSE BebobNoLink(e)
          BY <3>2, <4>1, BebobMakes
        <4> HIDE DEF e
        <4>3. Keeps(e, c) /\ SameRun(e, c) /\ Told(e)
          BY <3>2, <3>3, <4>2 DEF Keeps, SameRun, Told
        <4>4. ~o.ok => BebobSound(e)
          BY <1>5, <4>2, <4>3, <1>3, UnlinkedIsSound DEF BebobNoLink, SameRun
        <4> QED BY <4>2, <4>3, <4>4 DEF e
      <3>4. CASE ~p.ok
        <4>1. o = p
          BY <3>1, <3>4
        <4> QED BY <4>1, <3>2, <3>4
      <3> QED BY <3>2, <3>3, <3>4
    <2> HIDE DEF C2, Make
    <2>3. ASSUME NEW o \in C3
          PROVE  /\ o.ok \in BOOLEAN /\ Keeps(o.card, c)
                 /\ o.ok => BebobRuns(o.card, c, rate) /\ Told(o.card)
                 /\ ~o.ok => BebobSound(o.card)
      <3>1. PICK p \in C2 : o \in IF p.ok THEN Start(p.card) ELSE {p}
        BY DEF Then
      <3> DEFINE d == p.card
      <3>2. /\ p.ok \in BOOLEAN /\ Keeps(d, c) /\ SameRun(d, c)
            /\ p.ok => BebobLink(d, rate) /\ Told(d)
            /\ ~p.ok => BebobSound(d)
        BY <2>2
      <3>3. CASE p.ok
        <4>1. o \in Start(d) /\ d \in Cards
          BY <3>1, <3>2, <3>3, <1>3
        <4>2. PICK q \in AmdtpStart(d, "tx") :
                o = IF q.ok THEN q ELSE [ok |-> FALSE, card |-> BebobBreakBoth(q.card)]
          BY <4>1 DEF OrUndo, BebobStartStream
        <4> HIDE DEF d
        <4> DEFINE e == q.card
                   f == BebobBreakBoth(e)
        <4>3. /\ q.ok \in BOOLEAN /\ Keeps(e, d) /\ SameDevice(e, d) /\ SameLink(e, d)
              /\ q.ok => /\ e.run = [d.run EXCEPT !["tx"] = TRUE]
                         /\ e.dead = [d.dead EXCEPT !["tx"] = FALSE]
              /\ ~q.ok => e.run = d.run
          BY <1>0, <4>1, StartOutcomes
        <4>4. CASE q.ok
          <5>1. o.ok = TRUE /\ o.card = e
            BY <4>2, <4>3, <4>4
          <5> HIDE DEF e
          <5>2. e.run["tx"] /\ ~e.dead["tx"] /\ SameRx(e, d)
            BY <1>0, <4>1, <4>3, <4>4 DEF SameRx, Cards, Flags
          <5>3. BebobLink(e, rate) /\ Told(e)
            BY <3>2, <3>3, <4>3 DEF BebobLink, Told, SameDevice, SameLink
          <5>4. SameRx(e, c) /\ Keeps(e, c)
            BY <5>2, <3>2, <4>3 DEF SameRx, SameRun, Keeps
          <5> QED BY <5>1, <5>2, <5>3, <5>4 DEF BebobRuns
        <4>5. CASE ~q.ok
          <5>1. o.ok = FALSE /\ o.card = f
            BY <4>2, <4>5
          <5> HIDE DEF e
          <5>2. /\ Keeps(f, e) /\ SameRun(f, e) /\ ~f.session
                /\ \A s \in Streams : ~f.conn[s]
            BY <4>3, BebobBroken DEF Keeps
          <5> HIDE DEF f
          <5>3. f.run = c.run /\ Keeps(f, c)
            BY <3>2, <4>3, <4>5, <5>2 DEF SameRun, Keeps
          <5>4. BebobSound(f)
            BY <1>5, <5>2, <5>3, <1>3, UnlinkedIsSound
          <5> QED BY <5>1, <5>3, <5>4
        <4> QED BY <4>3, <4>4, <4>5
      <3>4. CASE ~p.ok
        <4>1. o = p
          BY <3>1, <3>4
        <4> QED BY <4>1, <3>2, <3>4
      <3> QED BY <3>2, <3>3, <3>4
    <2> HIDE DEF C3, Start
    <2>4. ASSUME NEW d, Keeps(d, c)
          PROVE  Keeps(BebobStopMaster(d), c) /\ BebobSound(BebobStopMaster(d))
      <3>1. Keeps(BebobStopMaster(d), d) /\ BebobSound(BebobStopMaster(d))
        BY <2>4, BebobStoppedMaster DEF Keeps
      <3> QED BY <3>1, <2>4 DEF Keeps
    <2>5. ASSUME NEW o \in C4
          PROVE  /\ o.ok \in BOOLEAN /\ Keeps(o.card, c)
                 /\ o.ok => BebobRuns(o.card, c, rate) /\ o.card.device = rate
                 /\ ~o.ok => BebobSound(o.card)
      <3>1. PICK p \in C3 : o \in IF p.ok THEN Ensure(p.card) ELSE {p}
        BY DEF Then
      <3> DEFINE d == p.card
      <3>2. /\ p.ok \in BOOLEAN /\ Keeps(d, c)
            /\ p.ok => BebobRuns(d, c, rate) /\ Told(d)
            /\ ~p.ok => BebobSound(d)
        BY <2>3
      <3>3. CASE p.ok /\ BebobSpecial(c)
        <4>1. o \in OrUndo(BebobSetRate(d, rate), BebobStopMaster) /\ d \in Cards
          BY <3>1, <3>2, <3>3, <1>3
        <4>2. PICK q \in BebobSetRate(d, rate) :
                o = IF q.ok THEN q ELSE [ok |-> FALSE, card |-> BebobStopMaster(q.card)]
          BY <4>1 DEF OrUndo
        <4> HIDE DEF d
        <4> DEFINE e == q.card
        <4>3. /\ q.ok \in BOOLEAN /\ Keeps(e, d) /\ SameRun(e, d)
              /\ SameLink(e, d) /\ e.session = d.session
              /\ (q.ok => e.device = rate)
          BY <4>1, BebobSetsRate
        <4> HIDE DEF e
        <4>4. Keeps(e, c) /\ BebobRuns(e, c, rate)
          BY <4>3, <3>2, <3>3 DEF Keeps, BebobRuns, BebobLink, SameRx, SameRun, SameLink
        <4>5. CASE q.ok
          <5>1. o = q
            BY <4>2, <4>5
          <5> QED BY <5>1, <4>3, <4>4, <4>5 DEF e
        <4>6. CASE ~q.ok
          <5>1. o.ok = FALSE /\ o.card = BebobStopMaster(e)
            BY <4>2, <4>6 DEF e
          <5> QED BY <5>1, <4>4, <2>4
        <4> QED BY <4>3, <4>5, <4>6
      <3>4. CASE p.ok /\ ~BebobSpecial(c)
        <4>1. o \in Good(d)
          BY <3>1, <3>2, <3>4, <1>3
        <4>2. o.ok = TRUE /\ o.card = d
          BY <4>1, Outcomes
        <4> QED BY <4>2, <3>2, <3>4 DEF Told
      <3>5. CASE ~p.ok
        <4>1. o = p
          BY <3>1, <3>5
        <4> QED BY <4>1, <3>2, <3>5
      <3> QED BY <3>2, <3>3, <3>4, <3>5
    <2> HIDE DEF C4, Ensure
    <2> TAKE o \in BebobStartMaster(c, rate)
    <2>6. PICK p \in C4 : o \in IF p.ok THEN Wait(p.card) ELSE {p}
      BY <1>1, <1>5 DEF Then
    <2>7. /\ p.ok \in BOOLEAN /\ Keeps(p.card, c)
          /\ p.ok => BebobRuns(p.card, c, rate) /\ p.card.device = rate
          /\ ~p.ok => BebobSound(p.card)
      BY <2>5
    <2>8. CASE p.ok
      <3>1. PICK q \in WaitCallback(p.card) :
              o = IF q.ok THEN q ELSE [ok |-> FALSE, card |-> BebobStopMaster(q.card)]
        BY <2>6, <2>8 DEF OrUndo
      <3>2. q.ok \in BOOLEAN /\ q.card = p.card
        BY Outcomes
      <3>3. CASE q.ok
        <4>1. o.ok = TRUE /\ o.card = p.card
          BY <3>1, <3>2, <3>3
        <4> QED BY <4>1, <2>7, <2>8
      <3>4. CASE ~q.ok
        <4>1. o.ok = FALSE /\ o.card = BebobStopMaster(p.card)
          BY <3>1, <3>2, <3>4
        <4> QED BY <4>1, <2>7, <2>4
      <3> QED BY <3>2, <3>3, <3>4
    <2>9. CASE ~p.ok
      <3>1. o = p
        BY <2>6, <2>9
      <3> QED BY <3>1, <2>7, <2>9
    <2> QED BY <2>7, <2>8, <2>9
  <1> QED BY <1>4, <1>5

\* Both streams may be used: they are connected, and what runs has no error.
BebobPlays(c, rate) ==
  /\ BebobLink(c, rate) /\ c.device = rate
  /\ c.run["tx"] /\ ~c.dead["tx"] /\ (c.run["rx"] => ~c.dead["rx"])

\* Both stop.
LEMMA BebobStoppedBoth ==
  ASSUME NEW c \in Cards
  PROVE  LET d == BebobStopMaster(AmdtpStop(c, "rx")) IN
           Keeps(d, c) /\ d.device = c.device /\ Quiet(d)
  <1> DEFINE a == AmdtpStop(c, "rx")
             d == BebobStopMaster(a)
  <1>0. "rx" \in Streams
    BY DEF Streams
  <1>1. Keeps(a, c) /\ SameDevice(a, c) /\ a.run = [c.run EXCEPT !["rx"] = FALSE]
    BY <1>0, Stop
  <1> HIDE DEF a
  <1>2. ~a.run["rx"]
    BY <1>0, <1>1 DEF Cards, Flags
  <1>3. Keeps(d, a) /\ d.device = a.device /\ Quiet(d)
    BY <1>1, <1>2, BebobStoppedMaster DEF Keeps
  <1> QED BY <1>1, <1>3 DEF Keeps, SameDevice, d, a

\* Lines 632-650: the slave runs, or nothing does.
LEMMA BebobStartsSlave ==
  ASSUME NEW c \in Cards, NEW rate \in Rates, BebobPlays(c, rate)
  PROVE  \A o \in BebobStartSlave(c) :
           /\ o.ok \in BOOLEAN /\ Keeps(o.card, c)
           /\ o.ok => /\ BebobPlays(o.card, rate)
                      /\ c.count["rx"] > 0 => o.card.run["rx"]
           /\ ~o.ok => Quiet(o.card)
  <1> DEFINE Undo(e) == BebobStopMaster(AmdtpStop(e, "rx"))
             Wait(d) == OrUndo(WaitCallback(d), Undo)
             Run == OrUndo(BebobStartStream(c, "rx"), BebobStopMaster)
  <1>0. "tx" \in Streams /\ "rx" \in Streams
    BY DEF Streams
  <1>1. BebobStartSlave(c)
          = IF c.count["rx"] > 0 /\ ~c.run["rx"] THEN Then(Run, Wait) ELSE Good(c)
    BY DEF BebobStartSlave
  <1> TAKE o \in BebobStartSlave(c)
  <1>2. CASE c.count["rx"] > 0 /\ ~c.run["rx"]
    <2>1. ASSUME NEW p \in Run
          PROVE  /\ p.ok \in BOOLEAN /\ Keeps(p.card, c)
                 /\ p.ok => BebobPlays(p.card, rate) /\ p.card.run["rx"]
                 /\ ~p.ok => Quiet(p.card)
      <3>1. PICK q \in AmdtpStart(c, "rx") :
              p = IF q.ok THEN q ELSE [ok |-> FALSE, card |-> BebobStopMaster(q.card)]
        BY DEF OrUndo, BebobStartStream
      <3> DEFINE e == q.card
      <3>2. /\ q.ok \in BOOLEAN /\ Keeps(e, c) /\ SameDevice(e, c) /\ SameLink(e, c)
            /\ q.ok => /\ e.run = [c.run EXCEPT !["rx"] = TRUE]
                       /\ e.dead = [c.dead EXCEPT !["rx"] = FALSE]
            /\ ~q.ok => e.run = c.run
        BY <1>0, StartOutcomes
      <3>3. CASE q.ok
        <4>1. p.ok = TRUE /\ p.card = e
          BY <3>1, <3>2, <3>3
        <4> HIDE DEF e
        <4>2. e.run["tx"] /\ ~e.dead["tx"] /\ e.run["rx"] /\ ~e.dead["rx"]
          BY <1>0, <3>2, <3>3 DEF BebobPlays, Cards, Flags
        <4>3. BebobLink(e, rate) /\ e.device = rate
          BY <3>2 DEF BebobPlays, BebobLink, SameDevice, SameLink
        <4> QED BY <3>2, <4>1, <4>2, <4>3 DEF BebobPlays
      <3>4. CASE ~q.ok
        <4>1. p.ok = FALSE /\ p.card = BebobStopMaster(e)
          BY <3>1, <3>4
        <4> HIDE DEF e
        <4>2. e \in Cards /\ ~e.run["rx"]
          BY <1>2, <3>2, <3>4 DEF Keeps
        <4>3. Keeps(p.card, e) /\ Quiet(p.card)
          BY <4>1, <4>2, BebobStoppedMaster
        <4> QED BY <3>2, <4>1, <4>3 DEF Keeps
      <3> QED BY <3>2, <3>3, <3>4
    <2>0. o \in Then(Run, Wait)
      BY <1>1, <1>2
    <2> HIDE DEF Run, Wait
    <2>2. PICK p \in Run : o \in IF p.ok THEN Wait(p.card) ELSE {p}
      BY <2>0 DEF Then
    <2>3. /\ p.ok \in BOOLEAN /\ Keeps(p.card, c)
          /\ p.ok => BebobPlays(p.card, rate) /\ p.card.run["rx"]
          /\ ~p.ok => Quiet(p.card)
      BY <2>1
    <2>4. CASE p.ok
      <3>1. PICK q \in WaitCallback(p.card) :
              o = IF q.ok THEN q ELSE [ok |-> FALSE, card |-> Undo(q.card)]
        BY <2>2, <2>4 DEF OrUndo, Wait
      <3>2. q.ok \in BOOLEAN /\ q.card = p.card
        BY Outcomes
      <3>3. CASE q.ok
        <4>1. o.ok = TRUE /\ o.card = p.card
          BY <3>1, <3>2, <3>3
        <4> QED BY <4>1, <2>3, <2>4
      <3>4. CASE ~q.ok
        <4>1. o.ok = FALSE /\ o.card = Undo(p.card)
          BY <3>1, <3>2, <3>4
        <4>2. Keeps(o.card, p.card) /\ Quiet(o.card)
          BY <2>3, <4>1, BebobStoppedBoth DEF Keeps
        <4> QED BY <2>3, <4>1, <4>2 DEF Keeps
      <3> QED BY <3>2, <3>3, <3>4
    <2>5. CASE ~p.ok
      <3>1. o = p
        BY <2>2, <2>5
      <3> QED BY <3>1, <2>3, <2>5
    <2> QED BY <2>3, <2>4, <2>5
  <1>3. CASE ~(c.count["rx"] > 0 /\ ~c.run["rx"])
    <2>1. o.ok = TRUE /\ o.card = c
      BY <1>1, <1>3, Outcomes
    <2> QED BY <2>1, <1>3 DEF Keeps
  <1> QED BY <1>2, <1>3

\* Lines 549-570: dead streams stop, and all when the rate changes.
LEMMA BebobRestarts ==
  ASSUME NEW c \in Cards, NEW rate \in Rates \cup {AnyRate}, NEW updated \in BOOLEAN,
         BebobSound(c)
  PROVE  LET d == BebobRestart(c, rate, updated) IN
           /\ Keeps(d, c) /\ d.device = c.device /\ BebobSound(d)
           /\ \A s \in Streams : d.run[s] => ~d.dead[s]
           /\ rate # AnyRate => (d.session => d.device = rate)
  <1> DEFINE g == [s \in Streams |-> c.run[s] /\ ~c.dead[s]]
             a == [c EXCEPT !.run = g]
             Stale == ~updated /\ \A s \in Streams : ~a.run[s]
             f == IF Stale THEN BebobBreakBoth(a) ELSE a
             d == IF rate \in {AnyRate, c.device} THEN f
                  ELSE BebobStopMaster(AmdtpStop(f, "rx"))
  <1>0. "tx" \in Streams /\ "rx" \in Streams
    BY DEF Streams
  <1>1. [c EXCEPT !.run = [s \in Streams |-> @[s] /\ ~c.dead[s]]] = a
    BY DEF Cards
  <1>2. BebobRestart(c, rate, updated) = d
    BY <1>1 DEF BebobRestart
  <1>3. g \in Flags /\ \A s \in Streams : g[s] = (c.run[s] /\ ~c.dead[s])
    BY DEF Cards, Flags
  <1> HIDE DEF g
  <1>4. /\ Keeps(a, c) /\ SameDevice(a, c) /\ SameLink(a, c)
        /\ a.dead = c.dead /\ a.run = g
    BY <1>3, SetRun
  <1> HIDE DEF a
  <1>5. BebobSound(a) /\ \A s \in Streams : a.run[s] => ~a.dead[s]
    BY <1>0, <1>3, <1>4 DEF BebobSound, SameDevice, SameLink
  <1>6. /\ Keeps(f, c) /\ f.device = c.device /\ BebobSound(f)
        /\ \A s \in Streams : f.run[s] => ~f.dead[s]
    <2>1. CASE Stale
      <3>1. f = BebobBreakBoth(a)
        BY <2>1
      <3> HIDE DEF f
      <3>2. /\ Keeps(f, a) /\ SameRun(f, a) /\ f.device = a.device
            /\ ~f.session /\ \A s \in Streams : ~f.conn[s]
        BY <1>4, <3>1, BebobBroken DEF Keeps
      <3>3. Quiet(f)
        BY <2>1, <3>2 DEF Quiet, NoStream, SameRun
      <3> QED BY <1>4, <1>5, <3>2, <3>3, QuietIsSound DEF Keeps, SameDevice, SameRun
    <2>2. CASE ~Stale
      <3>1. f = a
        BY <2>2
      <3> HIDE DEF f
      <3> QED BY <3>1, <1>4, <1>5 DEF SameDevice
    <2> QED BY <2>1, <2>2
  <1> HIDE DEF f
  <1>7. CASE rate \in {AnyRate, c.device}
    <2>1. d = f
      BY <1>7
    <2> HIDE DEF d
    <2> QED BY <1>2, <2>1, <1>6, <1>7
  <1>8. CASE rate \notin {AnyRate, c.device}
    <2>1. d = BebobStopMaster(AmdtpStop(f, "rx"))
      BY <1>8
    <2> HIDE DEF d
    <2>2. Keeps(d, f) /\ d.device = f.device /\ Quiet(d)
      BY <2>1, <1>6, BebobStoppedBoth DEF Keeps
    <2>3. Keeps(d, c) /\ d \in Cards
      BY <1>6, <2>2 DEF Keeps
    <2>4. ~d.session /\ \A s \in Streams : ~d.run[s]
      BY <2>2 DEF Quiet, NoStream
    <2> QED BY <1>2, <1>6, <2>2, <2>3, <2>4, QuietIsSound
  <1> QED BY <1>7, <1>8

\* A master that runs at the rate of the device is in order.
LEMMA BebobPlaysIsSound ==
  ASSUME NEW c, NEW rate, BebobPlays(c, rate)
  PROVE  BebobSound(c)
  BY DEF BebobPlays, BebobLink, BebobSound

\* snd_bebob_stream_start_duplex(): a good end means that all that are used run.
LEMMA BebobStartsDuplex ==
  ASSUME NEW c \in Cards, NEW rate \in Rates \cup {AnyRate}, NEW updated \in BOOLEAN,
         BebobSound(c)
  PROVE  \A o \in BebobStartDuplex(c, rate, updated) :
           /\ o.ok \in BOOLEAN /\ Keeps(o.card, c) /\ BebobSound(o.card)
           /\ DuplexUnused(c) => DuplexUnused(o.card)
           /\ o.ok => \A s \in Streams :
                        c.count[s] > 0 =>
                          /\ o.card.run[s] /\ ~o.card.dead[s]
                          /\ rate # AnyRate => o.card.rate[s] = rate
  <1> DEFINE r == IF rate = AnyRate THEN c.device ELSE rate
             a == BebobRestart(c, rate, updated)
             b == BebobRestart(c, AnyRate, updated)
             All == Then(BebobStartMaster(a, r), BebobStartSlave)
  <1>0. "tx" \in Streams /\ "rx" \in Streams
    BY DEF Streams
  <1>1. BebobStartDuplex(c, rate, updated)
          = IF c.count["tx"] = 0 /\ c.count["rx"] = 0 THEN Good(c)
            ELSE Bad(c) \cup Bad(b) \cup All
    BY DEF BebobStartDuplex
  <1>2. r \in Rates /\ (rate # AnyRate => r = rate)
    BY DEF Cards
  <1>3. /\ Keeps(a, c) /\ a.device = c.device /\ BebobSound(a)
        /\ \A s \in Streams : a.run[s] => ~a.dead[s]
        /\ a.session => a.device = r
    <2>1. /\ Keeps(a, c) /\ a.device = c.device /\ BebobSound(a)
          /\ \A s \in Streams : a.run[s] => ~a.dead[s]
          /\ rate # AnyRate => (a.session => a.device = rate)
      BY BebobRestarts
    <2> HIDE DEF a
    <2> QED BY <2>1
  <1>4. Keeps(b, c) /\ BebobSound(b)
    BY BebobRestarts
  <1> HIDE DEF a, b, r
  <1>5. ASSUME NEW o \in All
        PROVE  /\ o.ok \in BOOLEAN /\ Keeps(o.card, c) /\ BebobSound(o.card)
               /\ o.ok => /\ BebobPlays(o.card, r)
                          /\ c.count["rx"] > 0 => o.card.run["rx"]
    <2>1. PICK p \in BebobStartMaster(a, r) :
            o \in IF p.ok THEN BebobStartSlave(p.card) ELSE {p}
      BY DEF Then
    <2>2. /\ p.ok \in BOOLEAN /\ Keeps(p.card, a)
          /\ p.ok => BebobRuns(p.card, a, r) /\ p.card.device = r
          /\ ~p.ok => BebobSound(p.card)
      BY <1>0, <1>2, <1>3, BebobStartsMaster DEF Keeps
    <2>3. CASE p.ok
      <3>1. BebobPlays(p.card, r)
        BY <1>0, <1>3, <2>2, <2>3 DEF BebobRuns, BebobPlays, SameRx
      <3>2. o \in BebobStartSlave(p.card) /\ p.card \in Cards
        BY <2>1, <2>2, <2>3 DEF Keeps
      <3>3. /\ o.ok \in BOOLEAN /\ Keeps(o.card, p.card)
            /\ o.ok => /\ BebobPlays(o.card, r)
                       /\ p.card.count["rx"] > 0 => o.card.run["rx"]
            /\ ~o.ok => Quiet(o.card)
        BY <1>2, <3>1, <3>2, BebobStartsSlave
      <3>4. BebobSound(o.card)
        BY <3>3, BebobPlaysIsSound, QuietIsSound DEF Keeps
      <3>5. Keeps(p.card, c)
        BY <1>3, <2>2 DEF Keeps
      <3>6. p.card.count = c.count /\ Keeps(o.card, c)
        BY <3>3, <3>5, KeepsFields DEF Keeps
      <3> QED BY <3>3, <3>4, <3>6
    <2>4. CASE ~p.ok
      <3>1. o = p
        BY <2>1, <2>4
      <3> QED BY <1>3, <2>2, <2>4, <3>1 DEF Keeps
    <2> QED BY <2>2, <2>3, <2>4
  <1> HIDE DEF All
  <1> TAKE o \in BebobStartDuplex(c, rate, updated)
  <1>7. CASE c.count["tx"] = 0 /\ c.count["rx"] = 0
    <2>1. o.ok = TRUE /\ o.card = c
      BY <1>1, <1>7, Outcomes
    <2>2. \A s \in Streams : ~(c.count[s] > 0)
      BY <1>7 DEF Streams
    <2> QED BY <2>1, <2>2 DEF Keeps
  <1>8. CASE ~(c.count["tx"] = 0 /\ c.count["rx"] = 0)
    <2>1. o \in Bad(c) \/ o \in Bad(b) \/ o \in All
      BY <1>1, <1>8
    <2>2. /\ o.ok \in BOOLEAN /\ Keeps(o.card, c) /\ BebobSound(o.card)
          /\ o.ok => /\ BebobPlays(o.card, r)
                     /\ c.count["rx"] > 0 => o.card.run["rx"]
      <3>1. CASE o \in All
        BY <3>1, <1>5
      <3>2. CASE o \in Bad(c) \/ o \in Bad(b)
        <4>1. o.ok = FALSE /\ (o.card = c \/ o.card = b)
          BY <3>2, Outcomes
        <4> QED BY <4>1, <1>4 DEF Keeps
      <3> QED BY <2>1, <3>1, <3>2
    <2>3. DuplexUnused(o.card)
      BY <1>0, <1>8, <2>2, KeepsFields DEF DuplexUnused
    <2>4. o.ok => \A s \in Streams :
                    c.count[s] > 0 =>
                      /\ o.card.run[s] /\ ~o.card.dead[s]
                      /\ rate # AnyRate => o.card.rate[s] = rate
      BY <1>2, <2>2 DEF BebobPlays, BebobLink, Streams
    <2> QED BY <2>2, <2>3, <2>4
  <1> QED BY <1>7, <1>8

\* Without the slave the rest is still in order.
LEMMA BebobSlaveless ==
  ASSUME NEW c \in Cards, NEW s \in Streams, BebobSound(c)
  PROVE  LET d == AmdtpStop(PcmAbort(c, s), s) IN
           Keeps(d, c) /\ BebobSound(d) /\ ~d.run[s]
  <1> DEFINE a == PcmAbort(c, s)
             d == AmdtpStop(a, s)
  <1>0. "tx" \in Streams /\ "rx" \in Streams
    BY DEF Streams
  <1>1. Keeps(a, c) /\ SameRun(a, c) /\ SameDevice(a, c) /\ SameLink(a, c)
    BY Abort
  <1> HIDE DEF a
  <1>2. /\ Keeps(d, a) /\ SameDevice(d, a) /\ SameLink(d, a)
        /\ d.dead = a.dead /\ d.run = [a.run EXCEPT ![s] = FALSE]
    BY <1>1, Stop DEF Keeps
  <1> HIDE DEF d
  <1>3. ~d.run[s] /\ (d.run["tx"] => c.run["tx"])
    BY <1>0, <1>1, <1>2 DEF SameRun, Keeps, Cards, Flags
  <1>4. BebobSound(d)
    BY <1>1, <1>2, <1>3 DEF BebobSound, SameDevice, SameLink
  <1> QED BY <1>1, <1>2, <1>3, <1>4 DEF Keeps, d, a

\* snd_bebob_stream_stop_duplex(), once a user is gone
LEMMA BebobStopsDuplex ==
  ASSUME NEW c \in Cards, BebobSound(c)
  PROVE  LET d == BebobStopDuplex(c) IN Keeps(d, c) /\ BebobSound(d) /\ DuplexUnused(d)
  <1> DEFINE a == AmdtpStop(PcmAbort(c, "rx"), "rx")
             d == BebobStopDuplex(c)
  <1>0. "tx" \in Streams /\ "rx" \in Streams
    BY DEF Streams
  <1>1. d = IF c.count["rx"] > 0 THEN c
            ELSE IF c.count["tx"] > 0 THEN a
            ELSE BebobStopMaster(PcmAbort(a, "tx"))
    BY DEF BebobStopDuplex
  <1>2. Keeps(a, c) /\ BebobSound(a) /\ ~a.run["rx"]
    BY <1>0, BebobSlaveless
  <1> HIDE DEF a, d
  <1>3. CASE c.count["rx"] > 0
    <2>1. d = c /\ c.count["rx"] # 0
      BY <1>1, <1>3
    <2> QED BY <1>0, <2>1 DEF DuplexUnused, Keeps, d
  <1>4. CASE ~(c.count["rx"] > 0) /\ c.count["tx"] > 0
    <2>1. d = a /\ c.count["tx"] # 0
      BY <1>1, <1>4
    <2>2. a.count = c.count
      BY <1>2, KeepsFields
    <2> QED BY <1>0, <1>2, <2>1, <2>2 DEF DuplexUnused, d
  <1>5. CASE ~(c.count["rx"] > 0) /\ ~(c.count["tx"] > 0)
    <2> DEFINE b == PcmAbort(a, "tx")
    <2>1. d = BebobStopMaster(b)
      BY <1>1, <1>5
    <2>2. Keeps(b, a) /\ SameRun(b, a)
      BY <1>0, <1>2, Abort DEF Keeps
    <2> HIDE DEF b
    <2>3. Keeps(d, b) /\ Quiet(d)
      BY <1>2, <2>1, <2>2, BebobStoppedMaster DEF Keeps, SameRun
    <2>4. Keeps(d, c) /\ d \in Cards
      BY <1>2, <2>2, <2>3 DEF Keeps
    <2> QED BY <2>3, <2>4, QuietIsSound DEF d
  <1> QED BY <1>3, <1>4, <1>5

\* An update that failed stops everything.
LEMMA BebobGivesUp ==
  ASSUME NEW c \in Cards
  PROVE  LET d == BebobBreakBoth(AmdtpStop(AmdtpStop(
                    PcmAbort(PcmAbort(c, "rx"), "tx"), "rx"), "tx")) IN
           Keeps(d, c) /\ Quiet(d)
  <1> DEFINE d1 == PcmAbort(c, "rx")
             d2 == PcmAbort(d1, "tx")
             d3 == AmdtpStop(d2, "rx")
             d4 == AmdtpStop(d3, "tx")
             d5 == BebobBreakBoth(d4)
  <1>0. "tx" \in Streams /\ "rx" \in Streams
    BY DEF Streams
  <1>1. Keeps(d1, c)
    BY <1>0, Abort
  <1> HIDE DEF d1
  <1>2. Keeps(d2, d1)
    BY <1>0, <1>1, Abort DEF Keeps
  <1> HIDE DEF d2
  <1>3. Keeps(d3, d2) /\ d3.run = [d2.run EXCEPT !["rx"] = FALSE]
    BY <1>0, <1>2, Stop DEF Keeps
  <1> HIDE DEF d3
  <1>4. Keeps(d4, d3) /\ d4.run = [d3.run EXCEPT !["tx"] = FALSE]
    BY <1>0, <1>3, Stop DEF Keeps
  <1> HIDE DEF d4
  <1>5. /\ Keeps(d5, d4) /\ SameRun(d5, d4)
        /\ ~d5.session /\ \A s \in Streams : ~d5.conn[s]
    BY <1>4, BebobBroken DEF Keeps
  <1> HIDE DEF d5
  <1>6. Quiet(d5)
    BY <1>2, <1>3, <1>4, <1>5 DEF Quiet, NoStream, SameRun, Keeps, Cards, Flags, Streams
  <1>7. Keeps(d5, c)
    BY <1>1, <1>2, <1>3, <1>4, <1>5 DEF Keeps
  <1> QED BY <1>6, <1>7 DEF d5, d4, d3, d2, d1

\* The completion does not concern the streams.
LEMMA SetCompleted ==
  ASSUME NEW c \in Cards, NEW f \in BOOLEAN
  PROVE  LET d == [c EXCEPT !.completed = f] IN
           /\ Keeps(d, c) /\ SameRun(d, c) /\ SamePcm(d, c) /\ SameDevice(d, c)
           /\ SameLink(d, c)
  <1> DEFINE d == [c EXCEPT !.completed = f]
  <1>1. d \in Cards /\ d.pcm = c.pcm
    BY DEF Cards
  <1>2. Held(d) = Held(c)
    BY <1>1 DEF Held
  <1> QED
    BY <1>1, <1>2 DEF Keeps, Users, SameRun, SamePcm, SameDevice, SameLink, Cards

\* When both connections are updated nothing changes, else nothing is left.
LEMMA BebobUpdates ==
  ASSUME NEW c \in Cards, BebobSound(c), DuplexUnused(c)
  PROVE  \A d \in BebobUpdateDuplex(c) :
           Keeps(d, c) /\ BebobSound(d) /\ DuplexUnused(d)
  <1> DEFINE Second(d) == Reconnect(d, "tx")
             First == Reconnect(c, "rx")
             Both == Then(First, Second)
             GiveUp(d) == BebobBreakBoth(AmdtpStop(AmdtpStop(
                            PcmAbort(PcmAbort(d, "rx"), "tx"), "rx"), "tx"))
             Left(o) == IF o.ok THEN o.card ELSE GiveUp(o.card)
  <1>0. "tx" \in Streams /\ "rx" \in Streams
    BY DEF Streams
  <1>1. BebobUpdateDuplex(c) = {[Left(o) EXCEPT !.completed = TRUE] : o \in Both}
    BY DEF BebobUpdateDuplex
  <1>2. \A o \in First :
          /\ o.ok \in BOOLEAN /\ Keeps(o.card, c) /\ SameRun(o.card, c)
          /\ SameDevice(o.card, c) /\ (o.ok => SameLink(o.card, c))
    BY <1>0, ReconnectOutcomes DEF SameLink
  <1>3. ASSUME NEW o \in Both
        PROVE  /\ o.ok \in BOOLEAN /\ Keeps(o.card, c)
               /\ o.ok => /\ SameRun(o.card, c) /\ SameDevice(o.card, c)
                          /\ SameLink(o.card, c)
    <2> HIDE DEF First
    <2>1. PICK p \in First : o \in IF p.ok THEN Second(p.card) ELSE {p}
      BY DEF Then
    <2>2. CASE p.ok
      <3>1. o \in Reconnect(p.card, "tx") /\ p.card \in Cards
        BY <1>2, <2>1, <2>2 DEF Keeps
      <3> DEFINE d == p.card
      <3>2. d \in Cards
        BY <3>1
      <3>3. /\ o.ok \in BOOLEAN /\ Keeps(o.card, d) /\ SameRun(o.card, d)
            /\ SameDevice(o.card, d) /\ (o.ok => SameLink(o.card, d))
        BY <1>0, <3>1, ReconnectOutcomes DEF SameLink
      <3> QED BY <1>2, <2>2, <3>3 DEF Keeps, SameRun, SameDevice, SameLink
    <2>3. CASE ~p.ok
      BY <1>2, <2>1, <2>3
    <2> QED BY <2>2, <2>3
  <1> HIDE DEF Both
  <1>4. ASSUME NEW o \in Both
        PROVE  Keeps(Left(o), c) /\ BebobSound(Left(o)) /\ DuplexUnused(Left(o))
    <2>1. CASE o.ok
      <3>1. Left(o) = o.card /\ o.card.count = c.count
        BY <2>1, <1>3, KeepsFields
      <3> QED BY <3>1, <1>3, <2>1
              DEF BebobSound, DuplexUnused, NoStream, SameRun, SameDevice, SameLink
    <2>2. CASE ~o.ok
      <3> DEFINE d == GiveUp(o.card)
      <3>1. Left(o) = d
        BY <2>2
      <3>2. Keeps(d, o.card) /\ Quiet(d)
        BY <1>3, BebobGivesUp DEF Keeps
      <3> HIDE DEF d
      <3> HIDE DEF Left, GiveUp
      <3>3. Keeps(d, c) /\ d \in Cards
        BY <3>2, <1>3 DEF Keeps
      <3> QED BY <3>1, <3>2, <3>3, QuietIsSound
    <2> QED BY <2>1, <2>2
  <1> HIDE DEF Left
  <1> TAKE d \in BebobUpdateDuplex(c)
  <1>5. PICK o \in Both : d = [Left(o) EXCEPT !.completed = TRUE]
    BY <1>1
  <1> DEFINE e == Left(o)
  <1>6. Keeps(e, c) /\ BebobSound(e) /\ DuplexUnused(e)
    BY <1>4
  <1> HIDE DEF e
  <1>7. /\ Keeps(d, e) /\ SameRun(d, e) /\ SameDevice(d, e) /\ SameLink(d, e)
    BY <1>5, <1>6, SetCompleted DEF Keeps, e
  <1>8. Keeps(d, c) /\ d.count = c.count /\ e.count = c.count
    BY <1>6, <1>7, KeepsFields DEF Keeps
  <1>9. BebobSound(d) /\ DuplexUnused(d)
    BY <1>6, <1>7, <1>8
    DEF BebobSound, DuplexUnused, NoStream, SameRun, SameDevice, SameLink
  <1> QED BY <1>8, <1>9

----------------------------------------------------------------------------
(* The users *)

\* What a stream's PCM and MIDI substream count for.
PcmUses(c, s) == IF c.pcm[s] \in {"closed", "open"} THEN 0 ELSE 1
PcmHolds(c, s) == IF c.pcm[s] = "closed" THEN 0 ELSE 1
MidiUses(c, s) == IF s \in c.midi \/ <<"midi", s>> \in c.waiting THEN 1 ELSE 0
Uses(c, s) == PcmUses(c, s) + MidiUses(c, s)
Holds(c, s) == PcmHolds(c, s) + MidiUses(c, s)

\* CountsUsers, for a card: a substream is counted under its direction, that of Dice
\* under both.
CountOf(c, k) ==
  IF c.driver = "dice"
  THEN IF k = "both" THEN Uses(c, "tx") + Uses(c, "rx") ELSE 0
  ELSE IF k = "both" THEN 0 ELSE Uses(c, k)
Counting(c) ==
  /\ \A k \in Counters : c.count[k] = CountOf(c, k) + c.lost[k] /\ c.lost[k] >= 0
  /\ \A k \in IF c.driver = "dice" THEN Streams ELSE {"both"} : c.lost[k] = 0
LockOf(c) == Holds(c, "tx") + Holds(c, "rx") + c.lockLost
Locking(c) ==
  /\ c.lockLost >= 0
  /\ c.lock \in {-1, LockOf(c)}
  /\ c.lock = -1 => LockOf(c) = 0
  /\ c.lockLost > 0 => c.driver \in {"oxfw", "digi"}

\* A substream that waits in start_duplex() is not yet open (MIDI), or still has its
\* parameters (PCM); parameters include a rate.
Orderly(c, s) ==
  /\ s \in c.midi => <<"midi", s>> \notin c.waiting
  /\ <<"pcm", s>> \in c.waiting => c.pcm[s] \notin {"closed", "open"}
  /\ c.pcm[s] \notin {"closed", "open"} => c.want[s] \in Rates

\* Nothing happens to a card before it is registered.
Unborn(c) ==
  /\ c.midi = {} /\ c.waiting = {} /\ \A s \in Streams : c.pcm[s] = "closed"
  /\ \A k \in Counters : c.lost[k] = 0
Lives(c) ==
  /\ c.life \in {"absent", "deferred"} => Unborn(c)
  /\ c.life = "deferred" \/ c.ghost => c.driver = "maudio"
  /\ c.life # "freed" => ~c.warned
  /\ c.warned /\ c.inited => \E k \in Counters : c.lost[k] > 0

Tidy(c) ==
  c \in Cards /\ Counting(c) /\ Locking(c) /\ Lives(c) /\ \A s \in Streams : Orderly(c, s)

\* The streams, driver by driver.
Sound(c) ==
  /\ c.driver = "oxfw" => OxfwSound(c)
  /\ c.driver \in BebobDrivers => BebobSound(c)
  /\ c.driver = "digi" => DigiSound(c)
  /\ c.driver = "dice" => DiceSound(c)
Unused(c) ==
  /\ c.driver = "oxfw" => OxfwUnused(c)
  /\ c.driver \in BebobDrivers \cup {"digi"} => DuplexUnused(c)
  /\ c.driver = "dice" => DiceUnused(c)

IInv == Tidy(card) /\ Sound(card) /\ Unused(card)

\* What there is to count.
LEMMA UsesRange ==
  ASSUME NEW c, NEW s
  PROVE  PcmUses(c, s) \in {0, 1} /\ PcmHolds(c, s) \in {0, 1} /\ MidiUses(c, s) \in {0, 1}
         /\ Uses(c, s) \in Nat /\ Holds(c, s) \in Nat
  BY DEF PcmUses, PcmHolds, MidiUses, Uses, Holds

\* Calls on streams do not change who uses them.
LEMMA KeepsUses ==
  ASSUME NEW c \in Cards, NEW d, Keeps(d, c), NEW s \in Streams
  PROVE  /\ PcmUses(d, s) = PcmUses(c, s) /\ PcmHolds(d, s) = PcmHolds(c, s)
         /\ MidiUses(d, s) = MidiUses(c, s)
         /\ Uses(d, s) = Uses(c, s) /\ Holds(d, s) = Holds(c, s)
         /\ (d.pcm[s] \in {"closed", "open"}) = (c.pcm[s] \in {"closed", "open"})
  <1>1. PcmUses(d, s) = PcmUses(c, s) /\ PcmHolds(d, s) = PcmHolds(c, s)
    BY KeepsFields DEF PcmUses, PcmHolds
  <1>2. MidiUses(d, s) = MidiUses(c, s)
    BY KeepsFields DEF MidiUses
  <1>3. (d.pcm[s] \in {"closed", "open"}) = (c.pcm[s] \in {"closed", "open"})
    BY KeepsFields
  <1> QED BY <1>1, <1>2, <1>3 DEF Uses, Holds

\* Calls on streams leave the counters and the lock in order.
LEMMA KeepsTidy ==
  ASSUME NEW c \in Cards, NEW d, Keeps(d, c), Tidy(c)
  PROVE  Tidy(d)
  <1>0. "tx" \in Streams /\ "rx" \in Streams
    BY DEF Streams
  <1>1. /\ d.driver = c.driver /\ d.life = c.life /\ d.inited = c.inited
        /\ d.want = c.want /\ d.midi = c.midi
        /\ d.count = c.count /\ d.lock = c.lock /\ d.lost = c.lost
        /\ d.lockLost = c.lockLost /\ d.warned = c.warned /\ d.ghost = c.ghost
        /\ d.waiting = c.waiting
    BY KeepsFields
  <1>2. \A s \in Streams :
          /\ Uses(d, s) = Uses(c, s) /\ Holds(d, s) = Holds(c, s)
          /\ (d.pcm[s] \in {"closed", "open"}) = (c.pcm[s] \in {"closed", "open"})
          /\ PcmHolds(d, s) = PcmHolds(c, s)
    BY KeepsUses
  <1>3. Counting(d)
    <2>1. \A k \in Counters : CountOf(d, k) = CountOf(c, k)
      BY <1>0, <1>1, <1>2 DEF CountOf, Counters
    <2> QED BY <1>1, <2>1 DEF Counting, Tidy
  <1>4. Locking(d)
    <2>1. LockOf(d) = LockOf(c)
      BY <1>0, <1>1, <1>2 DEF LockOf
    <2> QED BY <1>1, <2>1 DEF Locking, Tidy
  <1>5. \A s \in Streams : Orderly(d, s)
    BY <1>1, <1>2 DEF Orderly, Tidy
  <1>6. Unborn(c) => Unborn(d)
    <2>1. \A s \in Streams : c.pcm[s] = "closed" => d.pcm[s] = "closed"
      BY <1>2 DEF PcmHolds
    <2> QED BY <1>1, <2>1 DEF Unborn
  <1>7. Lives(d)
    BY <1>1, <1>6 DEF Lives, Tidy
  <1> QED BY <1>3, <1>4, <1>5, <1>7 DEF Keeps, Tidy

\* A step of the user s of a card that is registered: uses and holds change by u and h,
\* l uses and hl holds are forgotten.
KeyOf(c, s) == IF c.driver = "dice" THEN "both" ELSE s
SameCard(d, c) ==
  /\ d.driver = c.driver /\ d.life = c.life /\ d.inited = c.inited
  /\ d.warned = c.warned /\ d.ghost = c.ghost
UserStep(d, c, s, u, l) ==
  /\ Uses(d, s) = Uses(c, s) + u
  /\ \A t \in Streams : t # s => Uses(d, t) = Uses(c, t)
  /\ \A k \in Counters :
       /\ k = KeyOf(c, s) => d.count[k] = c.count[k] + u + l /\ d.lost[k] = c.lost[k] + l
       /\ k # KeyOf(c, s) => d.count[k] = c.count[k] /\ d.lost[k] = c.lost[k]
LockStep(d, c, s, h, hl) ==
  /\ Holds(d, s) = Holds(c, s) + h
  /\ \A t \in Streams : t # s => Holds(d, t) = Holds(c, t)
  /\ d.lockLost = c.lockLost + hl /\ d.lock = c.lock + h + hl
  /\ h + hl > 0 => c.lock # -1
  /\ hl > 0 => c.driver \in {"oxfw", "digi"}

\* A user that comes or goes is counted, or forgotten.
LEMMA CountingStep ==
  ASSUME NEW c \in Cards, NEW d \in Cards, NEW s \in Streams, NEW u \in Int, NEW l \in Nat,
         Counting(c), d.driver = c.driver, UserStep(d, c, s, u, l)
  PROVE  Counting(d) /\ \A k \in Counters : d.lost[k] >= c.lost[k]
  <1>0. "tx" \in Streams /\ "rx" \in Streams
    BY DEF Streams
  <1>1. \A k \in Counters : c.lost[k] \in Int /\ c.count[k] \in Int
    BY DEF Cards
  <1>2. \A t \in Streams : Uses(c, t) \in Int /\ Uses(d, t) \in Int
    BY UsesRange
  <1>3. KeyOf(c, s) \in Counters
    BY DEF KeyOf, Counters
  <1>4. \A k \in Counters : CountOf(d, k) = CountOf(c, k) + (IF k = KeyOf(c, s) THEN u ELSE 0)
    <2> TAKE k \in Counters
    <2>1. CASE c.driver = "dice"
      BY <1>0, <1>2, <2>1 DEF CountOf, UserStep, KeyOf, Streams
    <2>2. CASE c.driver # "dice"
      BY <1>0, <1>2, <2>2 DEF CountOf, UserStep, KeyOf, Streams, Counters
    <2> QED BY <2>1, <2>2
  <1>5. \A k \in Counters : CountOf(c, k) \in Int
    BY <1>0, <1>2 DEF CountOf, Counters
  <1>6. \A k \in Counters : d.count[k] = CountOf(d, k) + d.lost[k] /\ d.lost[k] >= c.lost[k]
    BY <1>1, <1>4, <1>5 DEF Counting, UserStep
  <1>7. \A k \in Counters : d.lost[k] >= 0
    BY <1>1, <1>6 DEF Counting, Cards
  <1>8. \A k \in IF d.driver = "dice" THEN Streams ELSE {"both"} : d.lost[k] = 0
    BY DEF UserStep, KeyOf, Counting, Counters, Streams
  <1> QED BY <1>6, <1>7, <1>8 DEF Counting

\* The same for the lock.
LEMMA LockingStep ==
  ASSUME NEW c \in Cards, NEW d \in Cards, NEW s \in Streams, NEW h \in Int, NEW hl \in Nat,
         Locking(c), d.driver = c.driver, LockStep(d, c, s, h, hl)
  PROVE  Locking(d)
  <1>1. \A t \in Streams : Holds(c, t) \in Nat /\ Holds(d, t) \in Nat
    BY UsesRange
  <1>2. c.lockLost \in Int /\ c.lock \in Int
    BY DEF Cards
  <1>3. LockOf(d) = LockOf(c) + h + hl /\ LockOf(c) \in Int
    BY <1>1, <1>2 DEF LockOf, LockStep, Streams
  <1>4. d.lockLost >= 0 /\ LockOf(d) >= 0
    BY <1>1, <1>2 DEF LockOf, LockStep, Locking, Streams
  <1>5. d.lock \in {-1, LockOf(d)} /\ (d.lock = -1 => LockOf(d) = 0)
    <2>1. CASE c.lock = -1
      BY <2>1, <1>2, <1>3, <1>4 DEF Locking, LockStep
    <2>2. CASE c.lock # -1
      BY <2>2, <1>2, <1>3, <1>4 DEF Locking, LockStep
    <2> QED BY <2>1, <2>2
  <1>6. d.lockLost > 0 => d.driver \in {"oxfw", "digi"}
    BY <1>2 DEF LockStep, Locking
  <1> QED BY <1>4, <1>5, <1>6 DEF Locking

\* The step of a user keeps the counters and the lock in order.
LEMMA TidyStep ==
  ASSUME NEW c \in Cards, NEW d \in Cards, NEW s \in Streams,
         NEW u \in Int, NEW l \in Nat, NEW h \in Int, NEW hl \in Nat,
         Tidy(c), SameCard(d, c), c.life \notin {"absent", "deferred"},
         UserStep(d, c, s, u, l), LockStep(d, c, s, h, hl),
         \A t \in Streams : Orderly(d, t)
  PROVE  Tidy(d)
  <1>1. Counting(d) /\ \A k \in Counters : d.lost[k] >= c.lost[k]
    BY CountingStep DEF Tidy, SameCard
  <1>2. Locking(d)
    BY LockingStep DEF Tidy, SameCard
  <1>3. \A k \in Counters : c.lost[k] > 0 => d.lost[k] > 0
    BY <1>1 DEF Cards
  <1>4. Lives(d)
    BY <1>3 DEF Tidy, Lives, SameCard
  <1> QED BY <1>1, <1>2, <1>4 DEF Tidy

----------------------------------------------------------------------------
(* One field is set *)

Fields == {"driver", "life", "dirs", "ports", "master", "inited", "run", "dead", "rate",
           "conn", "device", "session", "pcm", "want", "limit", "midi", "count", "lock",
           "lost", "lockLost", "missed", "warned", "ghost", "waiting", "completed"}
\* d is a card like c, but for the fields F.
But(d, c, F) == d \in Cards /\ \A f \in Fields \ F : d[f] = c[f]

\* Two steps, one after the other
LEMMA ButTrans ==
  ASSUME NEW c, NEW d, NEW e, NEW F, NEW G, But(d, c, F), But(e, d, G)
  PROVE  But(e, c, F \cup G)
  BY DEF But

\* Each field that the users set
LEMMA SetPcm ==
  ASSUME NEW c \in Cards, NEW s \in Streams, NEW p \in PcmStates
  PROVE  LET d == [c EXCEPT !.pcm[s] = p] IN
           But(d, c, {"pcm"}) /\ d.pcm = [c.pcm EXCEPT ![s] = p]
  BY DEF Cards, But, Fields

LEMMA SetPcms ==
  ASSUME NEW c \in Cards, NEW f \in [Streams -> PcmStates]
  PROVE  LET d == [c EXCEPT !.pcm = f] IN But(d, c, {"pcm"}) /\ d.pcm = f
  BY DEF Cards, But, Fields

LEMMA SetMissed ==
  ASSUME NEW c \in Cards, NEW s \in Streams
  PROVE  LET d == [c EXCEPT !.missed[s] = FALSE] IN
           But(d, c, {"missed"}) /\ d.missed = [c.missed EXCEPT ![s] = FALSE]
  BY DEF Cards, But, Fields, Flags

LEMMA SetMisseds ==
  ASSUME NEW c \in Cards, NEW f \in Flags
  PROVE  LET d == [c EXCEPT !.missed = f] IN But(d, c, {"missed"}) /\ d.missed = f
  BY DEF Cards, But, Fields

LEMMA SetWant ==
  ASSUME NEW c \in Cards, NEW s \in Streams, NEW r \in Rates \cup {AnyRate}
  PROVE  LET d == [c EXCEPT !.want[s] = r] IN
           But(d, c, {"want"}) /\ d.want = [c.want EXCEPT ![s] = r]
  BY DEF Cards, But, Fields

LEMMA SetLimit ==
  ASSUME NEW c \in Cards, NEW s \in Streams, NEW l \in SUBSET Rates
  PROVE  LET d == [c EXCEPT !.limit[s] = l] IN But(d, c, {"limit"})
  BY DEF Cards, But, Fields

LEMMA SetLimits ==
  ASSUME NEW c \in Cards, NEW f \in [Streams -> SUBSET Rates]
  PROVE  LET d == [c EXCEPT !.limit = f] IN But(d, c, {"limit"})
  BY DEF Cards, But, Fields

LEMMA SetMidi ==
  ASSUME NEW c \in Cards, NEW m \in SUBSET Streams
  PROVE  LET d == [c EXCEPT !.midi = m] IN But(d, c, {"midi"}) /\ d.midi = m
  BY DEF Cards, But, Fields

LEMMA SetCount ==
  ASSUME NEW c \in Cards, NEW k \in Counters, NEW n \in Int
  PROVE  LET d == [c EXCEPT !.count[k] = n] IN
           But(d, c, {"count"}) /\ d.count = [c.count EXCEPT ![k] = n]
  BY DEF Cards, But, Fields

LEMMA SetLost ==
  ASSUME NEW c \in Cards, NEW k \in Counters, NEW n \in Int
  PROVE  LET d == [c EXCEPT !.lost[k] = n] IN
           But(d, c, {"lost"}) /\ d.lost = [c.lost EXCEPT ![k] = n]
  BY DEF Cards, But, Fields

LEMMA SetLock ==
  ASSUME NEW c \in Cards, NEW n \in Int
  PROVE  LET d == [c EXCEPT !.lock = n] IN But(d, c, {"lock"}) /\ d.lock = n
  BY DEF Cards, But, Fields

LEMMA SetLockLost ==
  ASSUME NEW c \in Cards, NEW n \in Int
  PROVE  LET d == [c EXCEPT !.lockLost = n] IN But(d, c, {"lockLost"}) /\ d.lockLost = n
  BY DEF Cards, But, Fields

LEMMA SetWaiting ==
  ASSUME NEW c \in Cards, NEW w \in SUBSET Threads
  PROVE  LET d == [c EXCEPT !.waiting = w] IN But(d, c, {"waiting"}) /\ d.waiting = w
  BY DEF Cards, But, Fields

LEMMA SetUpdate ==
  ASSUME NEW c \in Cards, NEW b \in BOOLEAN
  PROVE  LET d == [c EXCEPT !.completed = b] IN But(d, c, {"completed"})
  BY DEF Cards, But, Fields

LEMMA SetLife ==
  ASSUME NEW c \in Cards, NEW l \in {"absent", "deferred", "live", "removed", "freed"}
  PROVE  LET d == [c EXCEPT !.life = l] IN But(d, c, {"life"}) /\ d.life = l
  BY DEF Cards, But, Fields

LEMMA SetInited ==
  ASSUME NEW c \in Cards
  PROVE  LET d == [c EXCEPT !.inited = TRUE] IN But(d, c, {"inited"}) /\ d.inited = TRUE
  BY DEF Cards, But, Fields

LEMMA SetWarned ==
  ASSUME NEW c \in Cards, NEW b \in BOOLEAN
  PROVE  LET d == [c EXCEPT !.warned = b] IN But(d, c, {"warned"}) /\ d.warned = b
  BY DEF Cards, But, Fields

LEMMA SetGhost ==
  ASSUME NEW c \in Cards
  PROVE  LET d == [c EXCEPT !.ghost = TRUE] IN But(d, c, {"ghost"}) /\ d.ghost = TRUE
  BY DEF Cards, But, Fields

----------------------------------------------------------------------------
(* What only the users do leaves the streams as they are *)

\* A PCM that moves is heard of, but that of the capture of Dice, and of drivers that
\* stop streams for a restart.
MustHear(c, s) == c.driver \in {"oxfw", "dice"} /\ <<c.driver, s>> # <<"dice", "tx">>
UserFields == {"life", "inited", "pcm", "want", "limit", "midi", "count", "lock", "lost",
               "lockLost", "missed", "warned", "ghost", "waiting", "completed"}

\* The streams stay sound when the users change,
LEMMA SoundKept ==
  ASSUME NEW c \in Cards, NEW d, But(d, c, UserFields), Sound(c),
         \A s \in Streams : MustHear(c, s) /\ Heard(c, s) => Heard(d, s)
  PROVE  Sound(d)
  <1>0. "tx" \in Streams /\ "rx" \in Streams
    BY DEF Streams
  <1>1. /\ d.driver = c.driver /\ d.master = c.master /\ d.run = c.run /\ d.dead = c.dead
        /\ d.conn = c.conn /\ d.rate = c.rate /\ d.device = c.device
        /\ d.session = c.session
    BY DEF But, Fields, UserFields
  <1>2. d.driver = "oxfw" => OxfwSound(d)
    BY <1>1 DEF Sound, OxfwSound, MustHear
  <1>3. d.driver \in BebobDrivers => BebobSound(d)
    BY <1>1 DEF Sound, BebobSound
  <1>4. d.driver = "digi" => DigiSound(d)
    BY <1>1 DEF Sound, DigiSound
  <1>5. d.driver = "dice" => DiceSound(d)
    BY <1>0, <1>1 DEF Sound, DiceSound, DiceLinked, MustHear
  <1> QED BY <1>2, <1>3, <1>4, <1>5 DEF Sound

\* and unused, when no counter reaches 0.
LEMMA UnusedKept ==
  ASSUME NEW c \in Cards, NEW d, But(d, c, UserFields), Unused(c),
         \A k \in Counters : d.count[k] = 0 => c.count[k] = 0
  PROVE  Unused(d)
  <1>1. /\ d.driver = c.driver /\ d.run = c.run /\ d.conn = c.conn
        /\ d.session = c.session
    BY DEF But, Fields, UserFields
  <1>2. Streams \subseteq Counters /\ "both" \in Counters
    BY DEF Counters
  <1>3. d.driver = "oxfw" => OxfwUnused(d)
    BY <1>1, <1>2 DEF Unused, OxfwUnused, NoStream
  <1>4. d.driver \in BebobDrivers \cup {"digi"} => DuplexUnused(d)
    BY <1>1, <1>2 DEF Unused, DuplexUnused, NoStream
  <1>5. d.driver = "dice" => DiceUnused(d)
    BY <1>1, <1>2 DEF Unused, DiceUnused, NoStream
  <1> QED BY <1>3, <1>4, <1>5 DEF Unused

\* No counter is below its users.
LEMMA CountsAreNatural ==
  ASSUME NEW c \in Cards, Counting(c)
  PROVE  \A k \in Counters : c.count[k] \in Nat /\ c.lost[k] \in Nat
                             /\ c.count[k] >= c.lost[k] /\ c.count[k] >= CountOf(c, k)
  <1>1. \A k \in Counters : CountOf(c, k) \in Nat
    BY UsesRange DEF CountOf
  <1>2. \A k \in Counters : c.count[k] \in Int /\ c.lost[k] \in Int
    BY DEF Cards
  <1> QED BY <1>1, <1>2 DEF Counting

----------------------------------------------------------------------------
(* The steps of the users *)

\* What holds of a card between two steps.
InOrder(c) == Tidy(c) /\ Sound(c) /\ Unused(c)

\* A step that neither counts nor uses the lock.
LEMMA SameUse ==
  ASSUME NEW c \in Cards, NEW d \in Cards, NEW s \in Streams, Tidy(c), SameCard(d, c),
         c.life \notin {"absent", "deferred"},
         d.count = c.count, d.lost = c.lost, d.lock = c.lock, d.lockLost = c.lockLost,
         \A t \in Streams : Uses(d, t) = Uses(c, t) /\ Holds(d, t) = Holds(c, t),
         \A t \in Streams : Orderly(d, t)
  PROVE  Tidy(d)
  <1>1. \A k \in Counters : c.count[k] \in Int /\ c.lost[k] \in Int
    BY DEF Cards
  <1>2. c.lock \in Int /\ c.lockLost \in Int /\ \A t \in Streams : Uses(c, t) \in Int /\ Holds(c, t) \in Int
    BY UsesRange DEF Cards
  <1>3. UserStep(d, c, s, 0, 0)
    BY <1>1, <1>2 DEF UserStep
  <1>4. LockStep(d, c, s, 0, 0)
    BY <1>2 DEF LockStep
  <1> QED BY <1>3, <1>4, TidyStep

\* A step of a user, put together
LEMMA UserKept ==
  ASSUME NEW c \in Cards, NEW d, InOrder(c), But(d, c, UserFields), Tidy(d),
         \A s \in Streams : MustHear(c, s) /\ Heard(c, s) => Heard(d, s),
         \A k \in Counters : d.count[k] = 0 => c.count[k] = 0
  PROVE  InOrder(d)
  <1>1. Sound(d)
    BY SoundKept DEF InOrder
  <1>2. Unused(d)
    BY UnusedKept DEF InOrder
  <1> QED BY <1>1, <1>2 DEF InOrder

\* pcm_open()
LEMMA Opened ==
  ASSUME NEW c \in Cards, NEW s \in Streams, NEW limited \in BOOLEAN,
         InOrder(c), c.life = "live", c.pcm[s] = "closed", c.lock >= 0
  PROVE  InOrder(OpenPcm([c EXCEPT !.lock = @ + 1], s, limited))
  <1> DEFINE a == [c EXCEPT !.lock = c.lock + 1]
             b == [a EXCEPT !.pcm[s] = "open"]
             l == IF limited THEN {a.device} ELSE Rates
             d == [b EXCEPT !.limit[s] = l]
  <1>1. OpenPcm([c EXCEPT !.lock = @ + 1], s, limited) = d
    BY DEF OpenPcm, Cards
  <1>2. But(a, c, {"lock"}) /\ a.lock = c.lock + 1
    BY SetLock DEF Cards
  <1>3. l \in SUBSET Rates
    BY <1>2 DEF But, Cards
  <1> HIDE DEF a, l
  <1>4. But(b, a, {"pcm"}) /\ b.pcm = [a.pcm EXCEPT ![s] = "open"]
    BY <1>2, SetPcm DEF But, PcmStates
  <1> HIDE DEF b
  <1>5. But(d, b, {"limit"})
    <2>1. b \in Cards
      BY <1>4 DEF But
    <2> QED BY <1>3, <2>1, SetLimit
  <1> HIDE DEF d
  <1>6. But(d, c, UserFields)
    BY <1>2, <1>4, <1>5 DEF But, UserFields
  <1>7. /\ SameCard(d, c) /\ d.count = c.count /\ d.lost = c.lost
        /\ d.lockLost = c.lockLost /\ d.lock = c.lock + 1
        /\ d.midi = c.midi /\ d.waiting = c.waiting /\ d.want = c.want
        /\ d.missed = c.missed /\ d.run = c.run /\ d.dead = c.dead
        /\ d.pcm = [c.pcm EXCEPT ![s] = "open"]
    BY <1>2, <1>4, <1>5 DEF But, SameCard, Fields
  <1>8. d.pcm[s] = "open" /\ \A t \in Streams : t # s => d.pcm[t] = c.pcm[t]
    BY <1>7 DEF Cards
  <1>9. UserStep(d, c, s, 0, 0)
    <2>1. \A k \in Counters : c.count[k] \in Int /\ c.lost[k] \in Int
      BY DEF Cards
    <2>2. \A t \in Streams : Uses(d, t) = Uses(c, t) /\ Uses(c, t) \in Int
      BY <1>7, <1>8 DEF Uses, PcmUses, MidiUses
    <2> QED BY <1>7, <2>1, <2>2 DEF UserStep
  <1>10. LockStep(d, c, s, 1, 0)
    <2>1. Holds(d, s) = Holds(c, s) + 1 /\ \A t \in Streams : t # s => Holds(d, t) = Holds(c, t)
      BY <1>7, <1>8 DEF Holds, PcmHolds, MidiUses
    <2>2. c.lock \in Int /\ c.lockLost \in Int
      BY DEF Cards
    <2> QED BY <1>7, <2>1, <2>2 DEF LockStep
  <1>11. \A t \in Streams : Orderly(d, t)
    BY <1>7, <1>8 DEF Orderly, InOrder, Tidy
  <1>12. Tidy(d)
    BY <1>6, <1>7, <1>9, <1>10, <1>11, TidyStep DEF InOrder, But
  <1>13. \A t \in Streams : Heard(c, t) => Heard(d, t)
    BY <1>7, <1>8 DEF Heard
  <1> QED BY <1>1, <1>6, <1>7, <1>12, <1>13, UserKept

\* pcm_open() of OXFW or Digi 00x that leaves with the lock
LEMMA OpenedInVain ==
  ASSUME NEW c \in Cards, InOrder(c), c.life = "live", c.lock >= 0,
         c.driver \in {"oxfw", "digi"}
  PROVE  InOrder([[c EXCEPT !.lock = @ + 1] EXCEPT !.lockLost = @ + 1])
  <1> DEFINE a == [c EXCEPT !.lock = c.lock + 1]
             d == [a EXCEPT !.lockLost = a.lockLost + 1]
  <1>0. "tx" \in Streams
    BY DEF Streams
  <1>1. [[c EXCEPT !.lock = @ + 1] EXCEPT !.lockLost = @ + 1] = d
    BY DEF Cards
  <1>2. But(a, c, {"lock"}) /\ a.lock = c.lock + 1
    BY SetLock DEF Cards
  <1> HIDE DEF a
  <1>3. But(d, a, {"lockLost"}) /\ d.lockLost = a.lockLost + 1
    <2>1. a \in Cards /\ a.lockLost + 1 \in Int
      BY <1>2 DEF But, Cards
    <2> QED BY <2>1, SetLockLost
  <1> HIDE DEF d
  <1>6. But(d, c, UserFields)
    BY <1>2, <1>3 DEF But, UserFields
  <1>7. /\ SameCard(d, c) /\ d.count = c.count /\ d.lost = c.lost
        /\ d.lockLost = c.lockLost + 1 /\ d.lock = c.lock + 1
        /\ d.midi = c.midi /\ d.waiting = c.waiting /\ d.want = c.want
        /\ d.missed = c.missed /\ d.run = c.run /\ d.dead = c.dead
        /\ d.pcm = c.pcm
    BY <1>2, <1>3 DEF But, SameCard, Fields
  <1>8. \A t \in Streams : /\ Uses(d, t) = Uses(c, t) /\ Uses(c, t) \in Int
                           /\ Holds(d, t) = Holds(c, t) /\ Holds(c, t) \in Int
    BY <1>7, UsesRange DEF Uses, Holds, PcmUses, PcmHolds, MidiUses
  <1>9. UserStep(d, c, "tx", 0, 0)
    <2>1. \A k \in Counters : c.count[k] \in Int /\ c.lost[k] \in Int
      BY DEF Cards
    <2> QED BY <1>0, <1>7, <1>8, <2>1 DEF UserStep
  <1>10. LockStep(d, c, "tx", 0, 1)
    <2>2. c.lock \in Int /\ c.lockLost \in Int
      BY DEF Cards
    <2> QED BY <1>0, <1>7, <1>8, <2>2 DEF LockStep
  <1>11. \A t \in Streams : Orderly(d, t)
    BY <1>7 DEF Orderly, InOrder, Tidy
  <1>12. Tidy(d)
    BY <1>0, <1>6, <1>7, <1>9, <1>10, <1>11, TidyStep DEF InOrder, But
  <1>13. \A t \in Streams : Heard(c, t) => Heard(d, t)
    BY <1>7 DEF Heard
  <1> QED BY <1>1, <1>6, <1>7, <1>12, <1>13, UserKept

\* pcm_close()
LEMMA Closed ==
  ASSUME NEW c \in Cards, NEW s \in Streams,
         InOrder(c), c.life \in {"live", "removed"}, c.pcm[s] = "open"
  PROVE  InOrder(LockRelease([c EXCEPT !.pcm[s] = "closed", !.limit[s] = {}]))
  <1> DEFINE a == [c EXCEPT !.pcm[s] = "closed"]
             b == [a EXCEPT !.limit[s] = {}]
             d == [b EXCEPT !.lock = b.lock - 1]
  <1>1. LockRelease([c EXCEPT !.pcm[s] = "closed", !.limit[s] = {}]) = d
    BY DEF LockRelease, Cards
  <1>2. But(a, c, {"pcm"}) /\ a.pcm = [c.pcm EXCEPT ![s] = "closed"]
    BY SetPcm DEF PcmStates
  <1> HIDE DEF a
  <1>3. But(b, a, {"limit"})
    <2>1. a \in Cards /\ {} \in SUBSET Rates
      BY <1>2 DEF But
    <2> QED BY <2>1, SetLimit
  <1> HIDE DEF b
  <1>4. But(d, b, {"lock"}) /\ d.lock = b.lock - 1
    <2>1. b \in Cards /\ b.lock - 1 \in Int
      BY <1>3 DEF But, Cards
    <2> QED BY <2>1, SetLock
  <1> HIDE DEF d
  <1>6. But(d, c, UserFields)
    BY <1>2, <1>3, <1>4 DEF But, UserFields
  <1>7. /\ SameCard(d, c) /\ d.count = c.count /\ d.lost = c.lost
        /\ d.lockLost = c.lockLost /\ d.lock = c.lock - 1
        /\ d.midi = c.midi /\ d.waiting = c.waiting /\ d.want = c.want
        /\ d.missed = c.missed /\ d.run = c.run /\ d.dead = c.dead
        /\ d.pcm = [c.pcm EXCEPT ![s] = "closed"]
    BY <1>2, <1>3, <1>4 DEF But, SameCard, Fields
  <1>8. d.pcm[s] = "closed" /\ \A t \in Streams : t # s => d.pcm[t] = c.pcm[t]
    BY <1>7 DEF Cards
  <1>9. UserStep(d, c, s, 0, 0)
    <2>1. \A k \in Counters : c.count[k] \in Int /\ c.lost[k] \in Int
      BY DEF Cards
    <2>2. \A t \in Streams : Uses(d, t) = Uses(c, t) /\ Uses(c, t) \in Int
      BY <1>7, <1>8 DEF Uses, PcmUses, MidiUses
    <2> QED BY <1>7, <2>1, <2>2 DEF UserStep
  <1>10. LockStep(d, c, s, -1, 0)
    <2>1. Holds(d, s) = Holds(c, s) - 1 /\ \A t \in Streams : t # s => Holds(d, t) = Holds(c, t)
      BY <1>7, <1>8 DEF Holds, PcmHolds, MidiUses
    <2>2. c.lock \in Int /\ c.lockLost \in Int
      BY DEF Cards
    <2> QED BY <1>7, <2>1, <2>2, UsesRange DEF LockStep
  <1>11. \A t \in Streams : Orderly(d, t)
    BY <1>7, <1>8 DEF Orderly, InOrder, Tidy
  <1>12. Tidy(d)
    BY <1>6, <1>7, <1>9, <1>10, <1>11, TidyStep DEF InOrder, But
  <1>13. \A t \in Streams : Heard(c, t) => Heard(d, t)
    BY <1>7, <1>8 DEF Heard
  <1> QED BY <1>1, <1>6, <1>7, <1>12, <1>13, UserKept

\* START, and STOP or snd_pcm_drop()
LEMMA Triggered ==
  ASSUME NEW c \in Cards, NEW s \in Streams, InOrder(c), c.life = "live",
         c.pcm[s] = "prepared"
  PROVE  InOrder([c EXCEPT !.pcm[s] = "running"])
  <1> DEFINE d == [c EXCEPT !.pcm[s] = "running"]
  <1>1. But(d, c, {"pcm"}) /\ d.pcm = [c.pcm EXCEPT ![s] = "running"]
    BY SetPcm DEF PcmStates
  <1> HIDE DEF d
  <1>2. But(d, c, UserFields)
    BY <1>1 DEF But, UserFields
  <1>3. /\ SameCard(d, c) /\ d.count = c.count /\ d.lost = c.lost
        /\ d.lockLost = c.lockLost /\ d.lock = c.lock
        /\ d.midi = c.midi /\ d.waiting = c.waiting /\ d.want = c.want
        /\ d.missed = c.missed /\ d.run = c.run /\ d.dead = c.dead
    BY <1>1 DEF But, SameCard, Fields
  <1>4. d.pcm[s] = "running" /\ \A t \in Streams : t # s => d.pcm[t] = c.pcm[t]
    BY <1>1 DEF Cards
  <1>5. \A t \in Streams : Uses(d, t) = Uses(c, t) /\ Holds(d, t) = Holds(c, t)
    BY <1>3, <1>4 DEF Uses, Holds, PcmUses, PcmHolds, MidiUses
  <1>6. \A t \in Streams : Orderly(d, t)
    BY <1>3, <1>4 DEF Orderly, InOrder, Tidy
  <1>7. Tidy(d)
    BY <1>2, <1>3, <1>5, <1>6, SameUse DEF InOrder, But
  <1>8. \A t \in Streams : Heard(c, t) => Heard(d, t)
    BY <1>3, <1>4 DEF Heard
  <1> QED BY <1>2, <1>3, <1>7, <1>8, UserKept DEF d

\* trigger: STOP, or snd_pcm_drop()
LEMMA Dropped ==
  ASSUME NEW c \in Cards, NEW s \in Streams, InOrder(c), c.life = "live",
         c.pcm[s] \in {"running", "xrun"}
  PROVE  InOrder([c EXCEPT !.pcm[s] = "setup", !.missed[s] = FALSE])
  <1> DEFINE a == [c EXCEPT !.pcm[s] = "setup"]
             d == [a EXCEPT !.missed[s] = FALSE]
  <1>0. [c EXCEPT !.pcm[s] = "setup", !.missed[s] = FALSE] = d
    OBVIOUS
  <1>1. But(a, c, {"pcm"}) /\ a.pcm = [c.pcm EXCEPT ![s] = "setup"]
    BY SetPcm DEF PcmStates
  <1> HIDE DEF a
  <1>2. But(d, a, {"missed"}) /\ d.missed = [a.missed EXCEPT ![s] = FALSE]
    BY <1>1, SetMissed DEF But
  <1> HIDE DEF d
  <1>3. But(d, c, UserFields)
    BY <1>1, <1>2 DEF But, UserFields
  <1>4. /\ SameCard(d, c) /\ d.count = c.count /\ d.lost = c.lost
        /\ d.lockLost = c.lockLost /\ d.lock = c.lock
        /\ d.midi = c.midi /\ d.waiting = c.waiting /\ d.want = c.want
        /\ d.run = c.run /\ d.dead = c.dead
        /\ d.pcm = [c.pcm EXCEPT ![s] = "setup"]
        /\ d.missed = [c.missed EXCEPT ![s] = FALSE]
    BY <1>1, <1>2 DEF But, SameCard, Fields
  <1>5. /\ d.pcm[s] = "setup"
        /\ \A t \in Streams : t # s => d.pcm[t] = c.pcm[t] /\ d.missed[t] = c.missed[t]
    BY <1>4 DEF Cards, Flags
  <1>6. \A t \in Streams : Uses(d, t) = Uses(c, t) /\ Holds(d, t) = Holds(c, t)
    BY <1>4, <1>5 DEF Uses, Holds, PcmUses, PcmHolds, MidiUses
  <1>7. \A t \in Streams : Orderly(d, t)
    BY <1>4, <1>5 DEF Orderly, InOrder, Tidy
  <1>8. Tidy(d)
    BY <1>3, <1>4, <1>6, <1>7, SameUse DEF InOrder, But
  <1>9. \A t \in Streams : Heard(c, t) => Heard(d, t)
    BY <1>4, <1>5 DEF Heard
  <1>10. \A j \in Counters : d.count[j] = 0 => c.count[j] = 0
    BY <1>4
  <1>11. InOrder(d)
    BY <1>3, <1>8, <1>9, <1>10, UserKept
  <1> QED BY <1>0, <1>11

\* hwdep_lock(), hwdep_unlock() and hwdep_release()
LEMMA Locked ==
  ASSUME NEW c \in Cards, NEW n, InOrder(c),
         (c.lock = 0 /\ n = -1) \/ (c.lock = -1 /\ n = 0)
  PROVE  InOrder([c EXCEPT !.lock = n])
  <1> DEFINE d == [c EXCEPT !.lock = n]
  <1>1. But(d, c, {"lock"}) /\ d.lock = n
    <2>1. n \in Int
      OBVIOUS
    <2> QED BY <2>1, SetLock
  <1> HIDE DEF d
  <1>2. But(d, c, UserFields)
    BY <1>1 DEF But, UserFields
  <1>3. /\ SameCard(d, c) /\ d.count = c.count /\ d.lost = c.lost
        /\ d.lockLost = c.lockLost /\ d.pcm = c.pcm
        /\ d.midi = c.midi /\ d.waiting = c.waiting /\ d.want = c.want
        /\ d.missed = c.missed /\ d.run = c.run /\ d.dead = c.dead
    BY <1>1 DEF But, SameCard, Fields
  <1>4. \A t \in Streams : Uses(d, t) = Uses(c, t) /\ Holds(d, t) = Holds(c, t)
    BY <1>3 DEF Uses, Holds, PcmUses, PcmHolds, MidiUses
  <1>5. \A k \in Counters : CountOf(d, k) = CountOf(c, k)
    BY <1>3, <1>4 DEF CountOf, SameCard, Streams, Counters
  <1>6. LockOf(d) = LockOf(c)
    BY <1>3, <1>4 DEF LockOf, Streams
  <1>7. Counting(d) /\ Locking(d)
    BY <1>1, <1>3, <1>5, <1>6 DEF Counting, Locking, InOrder, Tidy, SameCard
  <1>8. Lives(d) /\ \A t \in Streams : Orderly(d, t)
    BY <1>3 DEF Lives, Unborn, Orderly, InOrder, Tidy, SameCard
  <1>9. Tidy(d)
    BY <1>1, <1>7, <1>8 DEF Tidy, But
  <1>10. \A t \in Streams : Heard(c, t) => Heard(d, t)
    BY <1>3 DEF Heard
  <1> QED BY <1>2, <1>3, <1>9, <1>10, UserKept DEF d

\* .remove
LEMMA Gone ==
  ASSUME NEW c \in Cards, InOrder(c), c.life = "live"
  PROVE  InOrder(Disconnected(c))
  <1> DEFINE p == [s \in Streams |-> IF c.pcm[s] \in {"closed", "open"} THEN c.pcm[s] ELSE "setup"]
             l == [s \in Streams |-> {}]
             m == [s \in Streams |-> FALSE]
             a1 == [c EXCEPT !.life = "removed"]
             a2 == [a1 EXCEPT !.pcm = p]
             a3 == [a2 EXCEPT !.limit = l]
             d == [a3 EXCEPT !.missed = m]
  <1>1. Disconnected(c) = d
    BY DEF Disconnected, Cards
  <1>2. /\ p \in [Streams -> PcmStates] /\ l \in [Streams -> SUBSET Rates] /\ m \in Flags
        /\ \A s \in Streams : p[s] = IF c.pcm[s] \in {"closed", "open"} THEN c.pcm[s] ELSE "setup"
    BY DEF Cards, PcmStates, Flags
  <1> HIDE DEF p, l, m
  <1>3. But(a1, c, {"life"}) /\ a1.life = "removed"
    BY SetLife
  <1> HIDE DEF a1
  <1>4. But(a2, a1, {"pcm"}) /\ a2.pcm = p
    BY <1>2, <1>3, SetPcms DEF But
  <1> HIDE DEF a2
  <1>5. But(a3, a2, {"limit"})
    BY <1>2, <1>4, SetLimits DEF But
  <1> HIDE DEF a3
  <1>6. But(d, a3, {"missed"}) /\ d.missed = m
    BY <1>2, <1>5, SetMisseds DEF But
  <1> HIDE DEF d
  <1>7. But(d, c, UserFields)
    BY <1>3, <1>4, <1>5, <1>6 DEF But, UserFields
  <1>8. /\ d.driver = c.driver /\ d.inited = c.inited /\ d.warned = c.warned
        /\ d.ghost = c.ghost /\ d.life = "removed"
        /\ d.count = c.count /\ d.lost = c.lost
        /\ d.lockLost = c.lockLost /\ d.lock = c.lock /\ d.pcm = p
        /\ d.midi = c.midi /\ d.waiting = c.waiting /\ d.want = c.want
    BY <1>3, <1>4, <1>5, <1>6 DEF But, Fields
  <1>9. \A t \in Streams : Uses(d, t) = Uses(c, t) /\ Holds(d, t) = Holds(c, t)
    BY <1>2, <1>8 DEF Uses, Holds, PcmUses, PcmHolds, MidiUses
  <1>10. \A k \in Counters : CountOf(d, k) = CountOf(c, k)
    BY <1>8, <1>9 DEF CountOf, Streams, Counters
  <1>11. LockOf(d) = LockOf(c)
    BY <1>8, <1>9 DEF LockOf, Streams
  <1>12. Counting(d) /\ Locking(d)
    BY <1>8, <1>10, <1>11 DEF Counting, Locking, InOrder, Tidy
  <1>13. Lives(d)
    BY <1>8 DEF Lives, InOrder, Tidy
  <1>14. \A t \in Streams : Orderly(d, t)
    BY <1>2, <1>8 DEF Orderly, InOrder, Tidy
  <1>15. Tidy(d)
    BY <1>7, <1>12, <1>13, <1>14 DEF Tidy, But
  <1>16. \A t \in Streams : Heard(d, t)
    BY <1>2, <1>8 DEF Heard
  <1> QED BY <1>1, <1>7, <1>8, <1>15, <1>16, UserKept

\* The counters
LEMMA IncFields ==
  ASSUME NEW c \in Cards, NEW k \in Counters
  PROVE  LET d == Inc(c, k) IN
           /\ But(d, c, {"count"})
           /\ \A j \in Counters : d.count[j] = c.count[j] + IF j = k THEN 1 ELSE 0
  <1>1. c.count[k] + 1 \in Int /\ c.count \in [Counters -> Int]
    BY DEF Cards
  <1>2. Inc(c, k) = [c EXCEPT !.count[k] = c.count[k] + 1]
    BY DEF Inc, Cards
  <1> QED BY <1>1, <1>2, SetCount

LEMMA DecFields ==
  ASSUME NEW c \in Cards, NEW k \in Counters
  PROVE  LET d == Dec(c, k) IN
           /\ But(d, c, {"count"})
           /\ \A j \in Counters : d.count[j] = c.count[j] - IF j = k THEN 1 ELSE 0
  <1>1. c.count[k] - 1 \in Int /\ c.count \in [Counters -> Int]
    BY DEF Cards
  <1>2. Dec(c, k) = [c EXCEPT !.count[k] = c.count[k] - 1]
    BY DEF Dec, Cards
  <1> QED BY <1>1, <1>2, SetCount

LEMMA LoseFields ==
  ASSUME NEW c \in Cards, NEW k \in Counters
  PROVE  LET d == Lose(c, k) IN
           /\ But(d, c, {"lost"})
           /\ \A j \in Counters : d.lost[j] = c.lost[j] + IF j = k THEN 1 ELSE 0
  <1>1. c.lost[k] + 1 \in Int /\ c.lost \in [Counters -> Int]
    BY DEF Cards
  <1>2. Lose(c, k) = [c EXCEPT !.lost[k] = c.lost[k] + 1]
    BY DEF Lose, Cards
  <1> QED BY <1>1, <1>2, SetLost

\* A PCM is prepared; m says whether an abort was lost.
PutReady(c, s, m) == [c EXCEPT !.pcm[s] = "prepared", !.missed[s] = m]
LEMMA ReadyFields ==
  ASSUME NEW c \in Cards, NEW s \in Streams, NEW m \in BOOLEAN
  PROVE  LET d == PutReady(c, s, m) IN
           /\ But(d, c, {"pcm", "missed"})
           /\ d.pcm[s] = "prepared" /\ d.missed[s] = m
           /\ \A t \in Streams : t # s => d.pcm[t] = c.pcm[t] /\ d.missed[t] = c.missed[t]
  <1> DEFINE a == [c EXCEPT !.pcm[s] = "prepared"]
             g == [a.missed EXCEPT ![s] = m]
             d == [a EXCEPT !.missed = g]
  <1>1. PutReady(c, s, m) = d
    BY DEF PutReady
  <1>2. But(a, c, {"pcm"}) /\ a.pcm = [c.pcm EXCEPT ![s] = "prepared"]
    BY SetPcm DEF PcmStates
  <1>3. a \in Cards /\ a.missed = c.missed
    BY <1>2 DEF But, Fields
  <1> HIDE DEF a
  <1>4. g \in Flags /\ g[s] = m /\ \A t \in Streams : t # s => g[t] = c.missed[t]
    BY <1>3 DEF Cards, Flags
  <1> HIDE DEF g
  <1>5. But(d, a, {"missed"}) /\ d.missed = g
    BY <1>3, <1>4, SetMisseds
  <1> HIDE DEF d
  <1>6. d.pcm = [c.pcm EXCEPT ![s] = "prepared"] /\ d.missed = g
    BY <1>2, <1>5 DEF But, Fields
  <1>7. But(d, c, {"pcm", "missed"})
    BY <1>2, <1>5 DEF But
  <1> QED BY <1>1, <1>4, <1>6, <1>7 DEF Cards

\* A PCM is put into the state p, and what was missed is forgotten.
PutPcm(c, s, p) == [c EXCEPT !.pcm[s] = p, !.missed[s] = FALSE]
PutRate(c, s, p, r) == [c EXCEPT !.pcm[s] = p, !.want[s] = r, !.missed[s] = FALSE]

\* The states of a PCM
LEMMA PutFields ==
  ASSUME NEW c \in Cards, NEW s \in Streams, NEW p \in PcmStates
  PROVE  LET d == PutPcm(c, s, p) IN
           /\ But(d, c, {"pcm", "missed"})
           /\ d.pcm[s] = p
           /\ \A t \in Streams : t # s => d.pcm[t] = c.pcm[t] /\ d.missed[t] = c.missed[t]
  <1> DEFINE a == [c EXCEPT !.pcm[s] = p]
             d == [a EXCEPT !.missed[s] = FALSE]
  <1>1. PutPcm(c, s, p) = d
    BY DEF PutPcm
  <1>2. But(a, c, {"pcm"}) /\ a.pcm = [c.pcm EXCEPT ![s] = p]
    BY SetPcm
  <1> HIDE DEF a
  <1>3. But(d, a, {"missed"}) /\ d.missed = [a.missed EXCEPT ![s] = FALSE]
    BY <1>2, SetMissed DEF But
  <1> HIDE DEF d
  <1>4. d.pcm = [c.pcm EXCEPT ![s] = p] /\ d.missed = [c.missed EXCEPT ![s] = FALSE]
    BY <1>2, <1>3 DEF But, Fields
  <1>5. But(d, c, {"pcm", "missed"})
    BY <1>2, <1>3 DEF But
  <1> QED BY <1>1, <1>4, <1>5 DEF Cards, Flags

\* The same, with a rate.
LEMMA PutRateFields ==
  ASSUME NEW c \in Cards, NEW s \in Streams, NEW p \in PcmStates,
         NEW r \in Rates \cup {AnyRate}
  PROVE  LET d == PutRate(c, s, p, r) IN
           /\ But(d, c, {"pcm", "want", "missed"})
           /\ d.pcm[s] = p /\ d.want[s] = r
           /\ \A t \in Streams : t # s => /\ d.pcm[t] = c.pcm[t] /\ d.missed[t] = c.missed[t]
                                          /\ d.want[t] = c.want[t]
  <1> DEFINE a == [c EXCEPT !.want[s] = r]
             d == PutPcm(a, s, p)
  <1>1. PutRate(c, s, p, r) = d
    BY DEF Cards, PutRate, PutPcm
  <1>2. But(a, c, {"want"}) /\ a.want = [c.want EXCEPT ![s] = r]
    BY SetWant
  <1> HIDE DEF a
  <1>3. /\ But(d, a, {"pcm", "missed"})
        /\ d.pcm[s] = p
        /\ \A t \in Streams : t # s => d.pcm[t] = a.pcm[t] /\ d.missed[t] = a.missed[t]
    <2>1. a \in Cards
      BY <1>2 DEF But
    <2> QED BY <2>1, PutFields
  <1> HIDE DEF d
  <1>4. But(d, c, {"pcm", "want", "missed"})
    BY <1>2, <1>3 DEF But
  <1>5. d.want = [c.want EXCEPT ![s] = r] /\ a.pcm = c.pcm /\ a.missed = c.missed
    BY <1>2, <1>3 DEF But, Fields
  <1> QED BY <1>1, <1>3, <1>4, <1>5 DEF Cards

\* The counter of a stream
LEMMA KeyIsCounter == \A c \in Cards, s \in Streams : KeyOf(c, s) \in Counters
  BY DEF KeyOf, Counters

\* hw_params of a substream that is counted, or is counted now
LEMMA Parametered ==
  ASSUME NEW c \in Cards, NEW s \in Streams, NEW k, k = KeyOf(c, s),
         InOrder(c), c.life = "live",
         c.pcm[s] \in {"open", "setup", "prepared"}, NEW r \in c.limit[s]
  PROVE  LET e == IF c.pcm[s] = "open" THEN Inc(c, k) ELSE c
         IN  InOrder(PutRate(e, s, "setup", r))
  <1> DEFINE e == IF c.pcm[s] = "open" THEN Inc(c, k) ELSE c
             d == PutRate(e, s, "setup", r)
             u == IF c.pcm[s] = "open" THEN 1 ELSE 0
  <1>0. r \in Rates /\ k \in Counters
    BY KeyIsCounter DEF Cards
  <1>1. /\ But(e, c, {"count"})
        /\ \A j \in Counters : e.count[j] = c.count[j] + IF j = k THEN u ELSE 0
    <2>1. CASE c.pcm[s] = "open"
      BY <1>0, <2>1, IncFields
    <2>2. CASE c.pcm[s] # "open"
      <3>1. \A j \in Counters : c.count[j] \in Int
        BY DEF Cards
      <3> QED BY <2>2, <3>1 DEF But
    <2> QED BY <2>1, <2>2
  <1> HIDE DEF e
  <1>2. /\ But(d, e, {"pcm", "want", "missed"})
        /\ d.pcm[s] = "setup" /\ d.want[s] = r
        /\ \A t \in Streams : t # s => /\ d.pcm[t] = e.pcm[t] /\ d.missed[t] = e.missed[t]
                                       /\ d.want[t] = e.want[t]
    <2>1. e \in Cards /\ "setup" \in PcmStates
      BY <1>1 DEF But, PcmStates
    <2>2. r \in Rates \cup {AnyRate}
      BY <1>0
    <2> QED BY <2>1, <2>2, PutRateFields
  <1> HIDE DEF d
  <1>3. But(d, c, UserFields)
    BY <1>1, <1>2 DEF But, UserFields
  <1>4. /\ SameCard(d, c) /\ d.lost = c.lost
        /\ d.lockLost = c.lockLost /\ d.lock = c.lock
        /\ d.midi = c.midi /\ d.waiting = c.waiting
        /\ d.run = c.run /\ d.dead = c.dead /\ d.count = e.count
        /\ e.pcm = c.pcm /\ e.missed = c.missed /\ e.want = c.want
    BY <1>1, <1>2 DEF But, SameCard, Fields
  <1>5. UserStep(d, c, s, u, 0)
    <2>1. Uses(d, s) = Uses(c, s) + u /\ \A t \in Streams : t # s => Uses(d, t) = Uses(c, t)
      BY <1>2, <1>4 DEF Uses, PcmUses, MidiUses
    <2>2. \A j \in Counters : c.count[j] \in Int /\ c.lost[j] \in Int
      BY DEF Cards
    <2> HIDE DEF u
    <2>3. u \in Int
      BY DEF u
    <2> QED BY <1>1, <1>4, <2>1, <2>2, <2>3 DEF UserStep
  <1>6. LockStep(d, c, s, 0, 0)
    <2>0. \A t \in Streams : Holds(c, t) \in Int
      BY UsesRange
    <2>1. \A t \in Streams : Holds(d, t) = Holds(c, t)
      BY <1>2, <1>4 DEF Holds, PcmHolds, MidiUses
    <2>2. c.lock \in Int /\ c.lockLost \in Int
      BY DEF Cards
    <2> QED BY <1>4, <2>0, <2>1, <2>2 DEF LockStep
  <1>7. \A t \in Streams : Orderly(d, t)
    BY <1>0, <1>2, <1>4 DEF Orderly, InOrder, Tidy
  <1>8. Tidy(d)
    <2>1. u \in Int /\ d \in Cards
      BY <1>3 DEF But
    <2> HIDE DEF u
    <2>2. Tidy(c) /\ c.life \notin {"absent", "deferred"}
      BY DEF InOrder
    <2>3. SameCard(d, c) /\ 0 \in Nat /\ 0 \in Int
      BY <1>4
    <2>4. Counting(c) /\ Locking(c) /\ Lives(c) /\ d.driver = c.driver
      BY <2>2, <2>3 DEF Tidy, SameCard
    <2>5. Counting(d) /\ \A j \in Counters : d.lost[j] >= c.lost[j]
      BY <1>5, <2>1, <2>3, <2>4, CountingStep
    <2>6. Locking(d)
      BY <1>6, <2>1, <2>3, <2>4, LockingStep
    <2>7. Lives(d)
      BY <1>4, <2>2, <2>3, <2>4 DEF Lives, SameCard
    <2> QED BY <1>7, <2>1, <2>5, <2>6, <2>7 DEF Tidy
  <1>9. \A t \in Streams : Heard(c, t) => Heard(d, t)
    BY <1>2, <1>4 DEF Heard
  <1>10. \A j \in Counters : d.count[j] = 0 => c.count[j] = 0
    BY <1>1, <1>4, CountsAreNatural DEF InOrder, Tidy
  <1> QED BY <1>3, <1>8, <1>9, <1>10, UserKept DEF d, e

\* hw_params whose buffer cannot be allocated
LEMMA Unparametered ==
  ASSUME NEW c \in Cards, NEW s \in Streams, NEW k, k = KeyOf(c, s),
         InOrder(c), c.life = "live", <<"pcm", s>> \notin c.waiting,
         c.pcm[s] \in {"open", "setup", "prepared"}
  PROVE  LET e == IF c.pcm[s] = "open" THEN Inc(c, k) ELSE c
         IN  InOrder(Lose(Unset(e, s), k))
  <1> DEFINE e == IF c.pcm[s] = "open" THEN Inc(c, k) ELSE c
             f == Unset(e, s)
             d == Lose(f, k)
             u == IF c.pcm[s] = "open" THEN 1 ELSE 0
  <1>0. k \in Counters
    BY KeyIsCounter
  <1>1. /\ But(e, c, {"count"})
        /\ \A j \in Counters : e.count[j] = c.count[j] + IF j = k THEN u ELSE 0
    <2>1. CASE c.pcm[s] = "open"
      BY <1>0, <2>1, IncFields
    <2>2. CASE c.pcm[s] # "open"
      <3>1. \A j \in Counters : c.count[j] \in Int
        BY DEF Cards
      <3> QED BY <2>2, <3>1 DEF But
    <2> QED BY <2>1, <2>2
  <1> HIDE DEF e
  <1>2. /\ But(f, e, {"pcm", "want", "missed"})
        /\ f.pcm[s] = "open"
        /\ \A t \in Streams : t # s => /\ f.pcm[t] = e.pcm[t] /\ f.missed[t] = e.missed[t]
                                       /\ f.want[t] = e.want[t]
    <2>1. e \in Cards /\ "open" \in PcmStates
      BY <1>1 DEF But, PcmStates
    <2>2. AnyRate \in Rates \cup {AnyRate}
      OBVIOUS
    <2>3. f = PutRate(e, s, "open", AnyRate)
      BY DEF Unset, PutRate
    <2> QED BY <2>1, <2>2, <2>3, PutRateFields
  <1> HIDE DEF f
  <1>3. /\ But(d, f, {"lost"})
        /\ \A j \in Counters : d.lost[j] = f.lost[j] + IF j = k THEN 1 ELSE 0
    <2>1. f \in Cards
      BY <1>2 DEF But
    <2> QED BY <1>0, <2>1, LoseFields
  <1> HIDE DEF d
  <1>4. But(d, c, UserFields)
    BY <1>1, <1>2, <1>3 DEF But, UserFields
  <1>5. /\ SameCard(d, c) /\ f.lost = c.lost
        /\ d.lockLost = c.lockLost /\ d.lock = c.lock
        /\ d.midi = c.midi /\ d.waiting = c.waiting
        /\ d.run = c.run /\ d.dead = c.dead /\ d.count = e.count
        /\ e.pcm = c.pcm /\ e.missed = c.missed /\ e.want = c.want
        /\ d.pcm = f.pcm /\ d.missed = f.missed /\ d.want = f.want
    BY <1>1, <1>2, <1>3 DEF But, SameCard, Fields
  <1>6. UserStep(d, c, s, u - 1, 1)
    <2>1. /\ Uses(d, s) = Uses(c, s) + u - 1
          /\ \A t \in Streams : t # s => Uses(d, t) = Uses(c, t)
      BY <1>2, <1>5 DEF Uses, PcmUses, MidiUses
    <2>2. \A j \in Counters : c.count[j] \in Int /\ c.lost[j] \in Int
      BY DEF Cards
    <2>3. u \in Int /\ Uses(c, s) \in Int
      BY UsesRange
    <2> HIDE DEF u
    <2> QED BY <1>1, <1>3, <1>5, <2>1, <2>2, <2>3 DEF UserStep
  <1>7. LockStep(d, c, s, 0, 0)
    <2>0. \A t \in Streams : Holds(c, t) \in Int
      BY UsesRange
    <2>1. \A t \in Streams : Holds(d, t) = Holds(c, t)
      BY <1>2, <1>5 DEF Holds, PcmHolds, MidiUses
    <2>2. c.lock \in Int /\ c.lockLost \in Int
      BY DEF Cards
    <2> QED BY <1>5, <2>0, <2>1, <2>2 DEF LockStep
  <1>8. \A t \in Streams : Orderly(d, t)
    BY <1>2, <1>5 DEF Orderly, InOrder, Tidy
  <1>9. Tidy(d)
    <2>1. u - 1 \in Int /\ d \in Cards
      BY <1>4 DEF But
    <2> HIDE DEF u
    <2> QED BY <1>5, <1>6, <1>7, <1>8, <2>1, TidyStep DEF InOrder
  <1>10. \A t \in Streams : Heard(c, t) => Heard(d, t)
    BY <1>2, <1>5 DEF Heard
  <1>11. \A j \in Counters : d.count[j] = 0 => c.count[j] = 0
    BY <1>1, <1>5, CountsAreNatural DEF InOrder, Tidy
  <1> QED BY <1>4, <1>9, <1>10, <1>11, UserKept DEF d, f, e

\* An open substream has a card that is registered.
LEMMA BornByPcm ==
  ASSUME NEW c \in Cards, NEW s \in Streams, Tidy(c), c.pcm[s] # "closed"
  PROVE  c.life \notin {"absent", "deferred"}
  BY DEF Tidy, Lives, Unborn

LEMMA BornByMidi ==
  ASSUME NEW c \in Cards, NEW s \in Streams, Tidy(c), MidiUses(c, s) = 1
  PROVE  c.life \notin {"absent", "deferred"}
  BY DEF Tidy, Lives, Unborn, MidiUses

\* hw_free: the substream is counted down, the streams f are left, and the substream
\* gives up its parameters.
LEMMA Freed ==
  ASSUME NEW c \in Cards, NEW s \in Streams, NEW k, k = KeyOf(c, s), InOrder(c),
         <<"pcm", s>> \notin c.waiting, c.pcm[s] \notin {"closed", "open"},
         NEW f, Keeps(f, Dec(c, k)), Sound(f), Unused(f)
  PROVE  InOrder(Unset(f, s))
  <1> DEFINE e == Dec(c, k)
             d == Unset(f, s)
  <1>0. k \in Counters /\ f \in Cards
    BY KeyIsCounter DEF Keeps
  <1>1. /\ But(e, c, {"count"})
        /\ \A j \in Counters : e.count[j] = c.count[j] - IF j = k THEN 1 ELSE 0
    BY <1>0, DecFields
  <1>2. /\ But(d, f, {"pcm", "want", "missed"})
        /\ d.pcm[s] = "open"
        /\ \A t \in Streams : t # s => /\ d.pcm[t] = f.pcm[t] /\ d.missed[t] = f.missed[t]
                                       /\ d.want[t] = f.want[t]
    <2>1. "open" \in PcmStates /\ AnyRate \in Rates \cup {AnyRate}
      BY DEF PcmStates
    <2>2. d = PutRate(f, s, "open", AnyRate)
      BY DEF Unset, PutRate
    <2> HIDE DEF d
    <2> QED BY <1>0, <2>1, <2>2, PutRateFields
  <1>3. Keeps(f, e) /\ e \in Cards
    BY <1>1 DEF But
  <1> HIDE DEF d, e
  <1>4. /\ SameCard(f, e) /\ f.want = e.want /\ f.midi = e.midi /\ f.count = e.count
        /\ f.lock = e.lock /\ f.lost = e.lost /\ f.lockLost = e.lockLost
        /\ f.waiting = e.waiting
    BY <1>3, KeepsFields DEF SameCard
  <1>5. /\ SameCard(e, c) /\ e.want = c.want /\ e.midi = c.midi /\ e.pcm = c.pcm
        /\ e.lock = c.lock /\ e.lost = c.lost /\ e.lockLost = c.lockLost
        /\ e.waiting = c.waiting
    BY <1>1 DEF But, Fields, SameCard
  <1>6. /\ SameCard(d, f) /\ d.midi = f.midi /\ d.count = f.count
        /\ d.lock = f.lock /\ d.lost = f.lost /\ d.lockLost = f.lockLost
        /\ d.waiting = f.waiting /\ d.run = f.run /\ d.dead = f.dead
    BY <1>2 DEF But, Fields, SameCard
  <1>7. \A t \in Streams : /\ PcmUses(f, t) = PcmUses(c, t) /\ PcmHolds(f, t) = PcmHolds(c, t)
                           /\ (f.pcm[t] \in {"closed", "open"}) = (c.pcm[t] \in {"closed", "open"})
    <2>1. \A t \in Streams : /\ PcmUses(f, t) = PcmUses(e, t) /\ PcmHolds(f, t) = PcmHolds(e, t)
                             /\ (f.pcm[t] \in {"closed", "open"}) = (e.pcm[t] \in {"closed", "open"})
      BY <1>3, KeepsUses
    <2> QED BY <2>1, <1>5 DEF PcmUses, PcmHolds
  <1>8. \A t \in Streams : MidiUses(d, t) = MidiUses(c, t)
    BY <1>4, <1>5, <1>6 DEF MidiUses
  <1>9. \A t \in Streams : t # s => PcmUses(d, t) = PcmUses(c, t) /\ PcmHolds(d, t) = PcmHolds(c, t)
    BY <1>2, <1>7 DEF PcmUses, PcmHolds
  <1>10. PcmUses(d, s) = PcmUses(c, s) - 1 /\ PcmHolds(d, s) = PcmHolds(c, s)
    BY <1>2 DEF PcmUses, PcmHolds
  <1>11. UserStep(d, c, s, -1, 0)
    <2>1. /\ Uses(d, s) = Uses(c, s) - 1
          /\ \A t \in Streams : t # s => Uses(d, t) = Uses(c, t)
      BY <1>8, <1>9, <1>10, UsesRange DEF Uses
    <2>2. \A j \in Counters : c.count[j] \in Int /\ c.lost[j] \in Int
      BY DEF Cards
    <2> QED BY <1>1, <1>4, <1>5, <1>6, <2>1, <2>2, UsesRange DEF UserStep
  <1>12. LockStep(d, c, s, 0, 0)
    <2>1. \A t \in Streams : Holds(d, t) = Holds(c, t) /\ Holds(c, t) \in Int
      BY <1>8, <1>9, <1>10, UsesRange DEF Holds
    <2>2. c.lock \in Int /\ c.lockLost \in Int
      BY DEF Cards
    <2> QED BY <1>4, <1>5, <1>6, <2>1, <2>2 DEF LockStep
  <1>13. \A t \in Streams : Orderly(d, t)
    <2>1. d.midi = c.midi /\ d.waiting = c.waiting
          /\ \A t \in Streams : t # s => d.want[t] = c.want[t]
      BY <1>2, <1>4, <1>5, <1>6
    <2>2. \A t \in Streams : Orderly(c, t)
      BY DEF InOrder, Tidy
    <2>3. ASSUME NEW t \in Streams, t # s PROVE Orderly(d, t)
      BY <1>2, <1>7, <2>1, <2>2, <2>3 DEF Orderly
    <2>4. Orderly(d, s)
      BY <1>2, <2>1, <2>2 DEF Orderly
    <2> QED BY <2>3, <2>4
  <1>14. Tidy(d)
    <2>1. c.life \notin {"absent", "deferred"} /\ Tidy(c)
      BY BornByPcm DEF InOrder
    <2>2. SameCard(d, c) /\ d \in Cards
      BY <1>2, <1>4, <1>5, <1>6 DEF SameCard, But
    <2> QED BY <1>11, <1>12, <1>13, <2>1, <2>2, TidyStep
  <1>15. But(d, f, UserFields)
    BY <1>2 DEF But, UserFields
  <1>16. \A t \in Streams : Heard(f, t) => Heard(d, t)
    BY <1>2, <1>6 DEF Heard
  <1>17. Sound(d)
    BY <1>0, <1>15, <1>16, SoundKept
  <1>18. Unused(d)
    BY <1>0, <1>6, <1>15, UnusedKept
  <1> QED BY <1>14, <1>17, <1>18 DEF InOrder, d

\* What a call that starts streams may come to.
Whole(f, c) == Keeps(f, c) /\ Sound(f) /\ Unused(f)

\* A card that the calls on its streams left whole is in order.
LEMMA WholeIsInOrder ==
  ASSUME NEW c \in Cards, NEW f, Tidy(c), Whole(f, c)
  PROVE  InOrder(f)
  BY KeepsTidy DEF Whole, InOrder

\* prepare that ended well
LEMMA MadeReady ==
  ASSUME NEW c \in Cards, NEW s \in Streams, InOrder(c), c.pcm[s] \notin {"closed", "open"},
         NEW m \in BOOLEAN, NEW f, Whole(f, c),
         MustHear(c, s) => f.run[s] /\ (f.dead[s] => m)
  PROVE  InOrder([f EXCEPT !.pcm[s] = "prepared", !.missed[s] = m])
  <1> DEFINE d == PutReady(f, s, m)
  <1>1. f \in Cards /\ Keeps(f, c) /\ InOrder(f)
    BY WholeIsInOrder DEF Whole, Keeps, InOrder
  <1>2. /\ But(d, f, {"pcm", "missed"})
        /\ d.pcm[s] = "prepared" /\ d.missed[s] = m
        /\ \A t \in Streams : t # s => d.pcm[t] = f.pcm[t] /\ d.missed[t] = f.missed[t]
    BY <1>1, ReadyFields
  <1>3. d = [f EXCEPT !.pcm[s] = "prepared", !.missed[s] = m]
    BY DEF PutReady
  <1> HIDE DEF d
  <1>4. But(d, f, UserFields)
    BY <1>2 DEF But, UserFields
  <1>5. /\ SameCard(d, f) /\ d.count = f.count /\ d.lost = f.lost
        /\ d.lockLost = f.lockLost /\ d.lock = f.lock
        /\ d.midi = f.midi /\ d.waiting = f.waiting /\ d.want = f.want
        /\ d.run = f.run /\ d.dead = f.dead /\ d.driver = f.driver
    BY <1>2 DEF But, SameCard, Fields
  <1>6. f.pcm[s] \notin {"closed", "open"}
    BY <1>1, KeepsUses
  <1>7. \A t \in Streams : Uses(d, t) = Uses(f, t) /\ Holds(d, t) = Holds(f, t)
    BY <1>2, <1>5, <1>6 DEF Uses, Holds, PcmUses, PcmHolds, MidiUses
  <1>8. \A t \in Streams : Orderly(d, t)
    BY <1>1, <1>2, <1>5, <1>6 DEF Orderly, InOrder, Tidy
  <1>9. Tidy(d)
    <2>1. f.life \notin {"absent", "deferred"} /\ d \in Cards /\ Tidy(f)
      BY <1>1, <1>2, <1>6, BornByPcm DEF InOrder, But
    <2> QED BY <1>1, <1>5, <1>7, <1>8, <2>1, SameUse
  <1>10. MustHear(f, s) => Heard(d, s)
    BY <1>1, <1>2, <1>5, KeepsFields DEF MustHear, Heard
  <1>11. \A t \in Streams : MustHear(f, t) /\ Heard(f, t) => Heard(d, t)
    BY <1>2, <1>5, <1>10 DEF Heard
  <1> QED BY <1>1, <1>3, <1>4, <1>5, <1>9, <1>11, UserKept

\* The substream s is taken out of those that wait; it and the lock count as if it were
\* open.
LentFields == {"count", "lock", "waiting", "completed"}
Lent(e, c, s) ==
  /\ But(e, c, LentFields)
  /\ \A j \in Counters :
       e.count[j] = c.count[j] + IF j = KeyOf(c, s) THEN 1 - MidiUses(c, s) ELSE 0
  /\ e.lock = c.lock + 1 - MidiUses(c, s)
  /\ MidiUses(c, s) = 0 => c.lock # -1
  /\ s \notin c.midi /\ <<"midi", s>> \notin e.waiting
  /\ \A t \in Streams : t # s => (<<"midi", t>> \in e.waiting) = (<<"midi", t>> \in c.waiting)
  /\ \A t \in Streams : (<<"pcm", t>> \in e.waiting) = (<<"pcm", t>> \in c.waiting)

\* A MIDI substream that is being opened does not disturb the streams.
LEMMA LentIsSound ==
  ASSUME NEW c \in Cards, NEW s \in Streams, InOrder(c), NEW e, Lent(e, c, s)
  PROVE  e \in Cards /\ Sound(e) /\ Unused(e)
  <1>1. But(e, c, UserFields) /\ e \in Cards
    BY DEF Lent, But, LentFields, UserFields
  <1>2. e.pcm = c.pcm /\ e.missed = c.missed /\ e.run = c.run /\ e.dead = c.dead
    BY DEF Lent, But, LentFields, Fields
  <1>3. \A t \in Streams : Heard(c, t) => Heard(e, t)
    BY <1>2 DEF Heard
  <1>4. \A j \in Counters : c.count[j] \in Nat
    BY CountsAreNatural DEF InOrder, Tidy
  <1>5. \A j \in Counters : e.count[j] = 0 => c.count[j] = 0
    BY <1>4, UsesRange DEF Lent
  <1> QED BY <1>1, <1>3, <1>5, SoundKept, UnusedKept DEF InOrder

\* What a step of the MIDI substream s makes of the card.
LEMMA MidiStep ==
  ASSUME NEW c \in Cards, NEW s \in Streams, InOrder(c), c.life \notin {"absent", "deferred"},
         NEW e, Lent(e, c, s), NEW f, Whole(f, e), NEW d \in Cards, NEW m \in {0, 1},
         SameCard(d, f), d.pcm = f.pcm, d.want = f.want, d.count = f.count,
         d.lockLost = f.lockLost, d.waiting = f.waiting,
         d.midi = IF m = 1 THEN f.midi \cup {s} ELSE f.midi,
         d.lock = f.lock + m - 1,
         \A j \in Counters : d.lost[j] = f.lost[j] + IF j = KeyOf(c, s) THEN 1 - m ELSE 0
  PROVE  Tidy(d)
  <1> DEFINE n == MidiUses(c, s)
  <1>0. e \in Cards /\ f \in Cards /\ Keeps(f, e)
    BY DEF Lent, But, Whole, Keeps
  <1>1. /\ SameCard(e, c) /\ e.want = c.want /\ e.midi = c.midi /\ e.pcm = c.pcm
        /\ e.lost = c.lost /\ e.lockLost = c.lockLost
    BY DEF Lent, But, LentFields, Fields, SameCard
  <1>2. /\ SameCard(f, e) /\ f.want = e.want /\ f.midi = e.midi /\ f.count = e.count
        /\ f.lock = e.lock /\ f.lost = e.lost /\ f.lockLost = e.lockLost
        /\ f.waiting = e.waiting
    BY <1>0, KeepsFields DEF SameCard
  <1>3. \A t \in Streams : /\ PcmUses(d, t) = PcmUses(c, t) /\ PcmHolds(d, t) = PcmHolds(c, t)
                           /\ (d.pcm[t] \in {"closed", "open"}) = (c.pcm[t] \in {"closed", "open"})
    <2>1. \A t \in Streams : /\ PcmUses(f, t) = PcmUses(e, t) /\ PcmHolds(f, t) = PcmHolds(e, t)
                             /\ (f.pcm[t] \in {"closed", "open"}) = (e.pcm[t] \in {"closed", "open"})
      BY <1>0, KeepsUses
    <2> QED BY <2>1, <1>1 DEF PcmUses, PcmHolds
  <1>4. \A t \in Streams : t # s => MidiUses(d, t) = MidiUses(c, t)
    BY <1>1, <1>2 DEF MidiUses, Lent
  <1>5. MidiUses(d, s) = m /\ n \in {0, 1}
    BY <1>1, <1>2, UsesRange DEF MidiUses, Lent
  <1> HIDE DEF n
  <1>6. /\ Uses(d, s) = Uses(c, s) + m - n /\ Holds(d, s) = Holds(c, s) + m - n
        /\ \A t \in Streams : t # s => Uses(d, t) = Uses(c, t) /\ Holds(d, t) = Holds(c, t)
    BY <1>3, <1>4, <1>5, UsesRange DEF Uses, Holds, n
  <1>7. UserStep(d, c, s, m - n, 1 - m)
    <2>1. \A j \in Counters : c.count[j] \in Int /\ c.lost[j] \in Int
      BY DEF Cards
    <2>2. \A j \in Counters : /\ d.count[j] = c.count[j] + IF j = KeyOf(c, s) THEN 1 - n ELSE 0
                              /\ d.lost[j] = c.lost[j] + IF j = KeyOf(c, s) THEN 1 - m ELSE 0
      BY <1>1, <1>2 DEF Lent, n
    <2> QED BY <1>5, <1>6, <2>1, <2>2, UsesRange DEF UserStep
  <1>8. LockStep(d, c, s, m - n, 0)
    <2>1. c.lock \in Int /\ c.lockLost \in Int
      BY DEF Cards
    <2>2. d.lock = c.lock + m - n /\ d.lockLost = c.lockLost
      BY <1>1, <1>2, <1>5, <2>1 DEF Lent, n
    <2>3. m - n > 0 => c.lock # -1
      BY <1>5 DEF Lent, n
    <2> QED BY <1>5, <1>6, <2>1, <2>2, <2>3, UsesRange DEF LockStep
  <1>9. \A t \in Streams : Orderly(d, t)
    <2>1. d.want = c.want /\ d.waiting = e.waiting
      BY <1>1, <1>2
    <2>2. \A t \in Streams : Orderly(c, t)
      BY DEF InOrder, Tidy
    <2>3. \A t \in Streams : t \in d.midi => <<"midi", t>> \notin d.waiting
      <3>1. \A t \in Streams : t # s => (t \in d.midi) = (t \in c.midi)
        BY <1>1, <1>2
      <3>2. \A t \in Streams : t # s /\ t \in d.midi => <<"midi", t>> \notin c.waiting
        BY <2>2, <3>1 DEF Orderly
      <3> QED BY <2>1, <3>2 DEF Lent
    <2>4. \A t \in Streams : (<<"pcm", t>> \in d.waiting) = (<<"pcm", t>> \in c.waiting)
      BY <2>1 DEF Lent
    <2>5. \A t \in Streams : /\ d.want[t] = c.want[t]
                             /\ d.pcm[t] \in {"closed", "open"} =>
                                  c.pcm[t] \in {"closed", "open"}
      BY <1>3, <2>1
    <2>6. \A t \in Streams : /\ <<"pcm", t>> \in d.waiting => d.pcm[t] \notin {"closed", "open"}
                             /\ d.pcm[t] \notin {"closed", "open"} => d.want[t] \in Rates
      BY <1>3, <2>2, <2>4, <2>5 DEF Orderly
    <2> QED BY <2>3, <2>6 DEF Orderly
  <1> QED
    <2>1. SameCard(d, c) /\ Tidy(c)
      BY <1>1, <1>2 DEF SameCard, InOrder
    <2>2. m - n \in Int /\ 1 - m \in Nat
      BY <1>5
    <2> QED BY <1>7, <1>8, <1>9, <2>1, <2>2, TidyStep

\* MIDI open that ends well
LEMMA MidiIn ==
  ASSUME NEW c \in Cards, NEW s \in Streams, InOrder(c), c.life \notin {"absent", "deferred"},
         NEW e, Lent(e, c, s), NEW f, Whole(f, e)
  PROVE  InOrder([f EXCEPT !.midi = @ \cup {s}])
  <1> DEFINE d == [f EXCEPT !.midi = f.midi \cup {s}]
  <1>1. f \in Cards
    BY DEF Whole, Keeps
  <1>2. [f EXCEPT !.midi = @ \cup {s}] = d
    BY <1>1 DEF Cards
  <1>3. But(d, f, {"midi"}) /\ d.midi = f.midi \cup {s}
    <2>1. f.midi \cup {s} \in SUBSET Streams
      BY <1>1 DEF Cards
    <2> QED BY <1>1, <2>1, SetMidi
  <1> HIDE DEF d
  <1>4. /\ SameCard(d, f) /\ d.pcm = f.pcm /\ d.want = f.want /\ d.count = f.count
        /\ d.lockLost = f.lockLost /\ d.waiting = f.waiting /\ d.lost = f.lost
        /\ d.lock = f.lock /\ d.missed = f.missed /\ d.run = f.run /\ d.dead = f.dead
    BY <1>3 DEF But, Fields, SameCard
  <1>5. Tidy(d)
    <2>1. f.lock \in Int /\ \A j \in Counters : f.lost[j] \in Int
      BY <1>1 DEF Cards
    <2>2. d.lock = f.lock + 1 - 1
      BY <1>4, <2>1
    <2>3. \A j \in Counters : d.lost[j] = f.lost[j] + IF j = KeyOf(c, s) THEN 1 - 1 ELSE 0
      BY <1>4, <2>1
    <2>4. 1 \in {0, 1} /\ d.midi = IF 1 = 1 THEN f.midi \cup {s} ELSE f.midi
      BY <1>3
    <2>5. d \in Cards
      BY <1>3 DEF But
    <2> QED BY <1>4, <2>2, <2>3, <2>4, <2>5, MidiStep
  <1>6. But(d, f, UserFields)
    BY <1>3 DEF But, UserFields
  <1>7. \A t \in Streams : Heard(f, t) => Heard(d, t)
    BY <1>4 DEF Heard
  <1>8. Sound(d)
    BY <1>1, <1>6, <1>7, SoundKept DEF Whole
  <1>9. Unused(d)
    BY <1>1, <1>4, <1>6, UnusedKept DEF Whole
  <1> QED BY <1>2, <1>5, <1>8, <1>9 DEF InOrder

\* MIDI open that fails, which is never counted down
LEMMA MidiOut ==
  ASSUME NEW c \in Cards, NEW s \in Streams, InOrder(c), c.life \notin {"absent", "deferred"},
         NEW e, Lent(e, c, s), NEW f, Whole(f, e)
  PROVE  InOrder(LockRelease(Lose(f, KeyOf(c, s))))
  <1> DEFINE k == KeyOf(c, s)
             a == Lose(f, k)
             d == [a EXCEPT !.lock = a.lock - 1]
  <1>1. f \in Cards /\ k \in Counters
    BY KeyIsCounter DEF Whole, Keeps
  <1> HIDE DEF k
  <1>2. /\ But(a, f, {"lost"})
        /\ \A j \in Counters : a.lost[j] = f.lost[j] + IF j = k THEN 1 ELSE 0
    BY <1>1, LoseFields
  <1> HIDE DEF a
  <1>3. LockRelease(a) = d
    BY <1>2 DEF LockRelease, But, Cards
  <1>4. But(d, a, {"lock"}) /\ d.lock = a.lock - 1
    <2>1. a \in Cards /\ a.lock - 1 \in Int
      BY <1>2 DEF But, Cards
    <2> QED BY <2>1, SetLock
  <1> HIDE DEF d
  <1>5. /\ SameCard(d, f) /\ d.pcm = f.pcm /\ d.want = f.want /\ d.count = f.count
        /\ d.lockLost = f.lockLost /\ d.waiting = f.waiting /\ d.lost = a.lost
        /\ d.lock = f.lock - 1 /\ d.missed = f.missed /\ d.run = f.run /\ d.dead = f.dead
        /\ d.midi = f.midi
    BY <1>2, <1>4 DEF But, Fields, SameCard
  <1>6. Tidy(d)
    <2>1. f.lock \in Int
      BY <1>1 DEF Cards
    <2>2. d.lock = f.lock + 0 - 1
      BY <1>5, <2>1
    <2>3. \A j \in Counters : d.lost[j] = f.lost[j] + IF j = KeyOf(c, s) THEN 1 - 0 ELSE 0
      BY <1>2, <1>5 DEF k
    <2>4. 0 \in {0, 1} /\ d.midi = IF 0 = 1 THEN f.midi \cup {s} ELSE f.midi
      BY <1>5
    <2>5. d \in Cards
      BY <1>4 DEF But
    <2> QED BY <1>5, <2>2, <2>3, <2>4, <2>5, MidiStep
  <1>7. But(d, f, UserFields)
    BY <1>2, <1>4 DEF But, UserFields
  <1>8. \A t \in Streams : Heard(f, t) => Heard(d, t)
    BY <1>5 DEF Heard
  <1>9. Sound(d)
    BY <1>1, <1>7, <1>8, SoundKept DEF Whole
  <1>10. Unused(d)
    BY <1>1, <1>5, <1>7, UnusedKept DEF Whole
  <1> QED BY <1>3, <1>6, <1>9, <1>10 DEF InOrder, a, k

\* MIDI close: the substream is counted down, the streams f are left.
LEMMA MidiClosed ==
  ASSUME NEW c \in Cards, NEW s \in Streams, NEW k, k = KeyOf(c, s), InOrder(c), s \in c.midi,
         NEW f, Whole(f, MidiGone(s, k)), c = card
  PROVE  InOrder(LockRelease(f))
  <1> DEFINE a == Dec(c, k)
             e == [a EXCEPT !.midi = a.midi \ {s}]
             d == [f EXCEPT !.lock = f.lock - 1]
  <1>0. k \in Counters
    BY KeyIsCounter
  <1>1. /\ But(a, c, {"count"})
        /\ \A j \in Counters : a.count[j] = c.count[j] - IF j = k THEN 1 ELSE 0
    BY <1>0, DecFields
  <1>2. MidiGone(s, k) = e
    <2> HIDE DEF a
    <2>1. MidiGone(s, k) = [a EXCEPT !.midi = @ \ {s}]
      BY DEF MidiGone, a
    <2> QED BY <1>1, <2>1 DEF But, Cards
  <1> HIDE DEF a
  <1>3. But(e, a, {"midi"}) /\ e.midi = a.midi \ {s}
    <2>1. a \in Cards /\ a.midi \ {s} \in SUBSET Streams
      BY <1>1 DEF But, Cards
    <2> QED BY <2>1, SetMidi
  <1> HIDE DEF e
  <1>4. e \in Cards /\ Keeps(f, e) /\ f \in Cards /\ Sound(f) /\ Unused(f)
    BY <1>2, <1>3 DEF Whole, Keeps, But
  <1>5. LockRelease(f) = d
    BY <1>4 DEF LockRelease, Cards
  <1>6. But(d, f, {"lock"}) /\ d.lock = f.lock - 1
    <2>1. f.lock - 1 \in Int
      BY <1>4 DEF Cards
    <2> QED BY <1>4, <2>1, SetLock
  <1> HIDE DEF d
  <1>7. /\ SameCard(e, c) /\ e.want = c.want /\ e.midi = c.midi \ {s} /\ e.pcm = c.pcm
        /\ e.lock = c.lock /\ e.lost = c.lost /\ e.lockLost = c.lockLost
        /\ e.waiting = c.waiting /\ e.count = a.count
    BY <1>1, <1>3 DEF But, Fields, SameCard
  <1>8. /\ SameCard(f, e) /\ f.want = e.want /\ f.midi = e.midi /\ f.count = e.count
        /\ f.lock = e.lock /\ f.lost = e.lost /\ f.lockLost = e.lockLost
        /\ f.waiting = e.waiting
    BY <1>4, KeepsFields DEF SameCard
  <1>9. /\ SameCard(d, f) /\ d.want = f.want /\ d.midi = f.midi /\ d.count = f.count
        /\ d.lost = f.lost /\ d.lockLost = f.lockLost /\ d.pcm = f.pcm
        /\ d.waiting = f.waiting /\ d.run = f.run /\ d.dead = f.dead /\ d.missed = f.missed
    BY <1>6 DEF But, Fields, SameCard
  <1>10. \A t \in Streams : /\ PcmUses(d, t) = PcmUses(c, t) /\ PcmHolds(d, t) = PcmHolds(c, t)
                            /\ (d.pcm[t] \in {"closed", "open"}) = (c.pcm[t] \in {"closed", "open"})
    <2>1. \A t \in Streams : /\ PcmUses(f, t) = PcmUses(e, t) /\ PcmHolds(f, t) = PcmHolds(e, t)
                             /\ (f.pcm[t] \in {"closed", "open"}) = (e.pcm[t] \in {"closed", "open"})
      BY <1>4, KeepsUses
    <2> QED BY <2>1, <1>7, <1>9 DEF PcmUses, PcmHolds
  <1>11. <<"midi", s>> \notin c.waiting /\ \A t \in Streams : Orderly(c, t)
    BY DEF InOrder, Tidy, Orderly
  <1>12. \A t \in Streams : t # s => MidiUses(d, t) = MidiUses(c, t)
    BY <1>7, <1>8, <1>9 DEF MidiUses
  <1>13. MidiUses(c, s) = 1 /\ MidiUses(d, s) = 0
    BY <1>7, <1>8, <1>9, <1>11 DEF MidiUses
  <1>14. UserStep(d, c, s, -1, 0)
    <2>1. Uses(d, s) = Uses(c, s) - 1 /\ \A t \in Streams : t # s => Uses(d, t) = Uses(c, t)
      BY <1>10, <1>12, <1>13, UsesRange DEF Uses
    <2>2. \A j \in Counters : c.count[j] \in Int /\ c.lost[j] \in Int
      BY DEF Cards
    <2> QED BY <1>1, <1>7, <1>8, <1>9, <2>1, <2>2, UsesRange DEF UserStep
  <1>15. LockStep(d, c, s, -1, 0)
    <2>1. Holds(d, s) = Holds(c, s) - 1 /\ \A t \in Streams : t # s => Holds(d, t) = Holds(c, t)
      BY <1>10, <1>12, <1>13, UsesRange DEF Holds
    <2>2. c.lock \in Int /\ c.lockLost \in Int
      BY DEF Cards
    <2> QED BY <1>6, <1>7, <1>8, <1>9, <2>1, <2>2, UsesRange DEF LockStep
  <1>16. \A t \in Streams : Orderly(d, t)
    BY <1>7, <1>8, <1>9, <1>10, <1>11 DEF Orderly
  <1>17. Tidy(d)
    <2>1. SameCard(d, c) /\ Tidy(c) /\ d \in Cards
      BY <1>6, <1>7, <1>8, <1>9 DEF SameCard, InOrder, But
    <2>2. c.life \notin {"absent", "deferred"}
      BY <1>13, <2>1, BornByMidi
    <2> QED BY <1>14, <1>15, <1>16, <2>1, <2>2, TidyStep
  <1>18. But(d, f, UserFields)
    BY <1>6 DEF But, UserFields
  <1>19. \A t \in Streams : Heard(f, t) => Heard(d, t)
    BY <1>9 DEF Heard
  <1>20. Sound(d)
    BY <1>4, <1>18, <1>19, SoundKept
  <1>21. Unused(d)
    BY <1>4, <1>9, <1>18, UnusedKept
  <1> QED BY <1>5, <1>17, <1>20, <1>21 DEF InOrder

\* The streams of a card of which the last user went are still in order.
LEMMA StoppableByPcm ==
  ASSUME NEW c \in Cards, NEW k \in Counters, Sound(c)
  PROVE  Dec(c, k) \in Cards /\ Sound(Dec(c, k))
  <1> DEFINE d == Dec(c, k)
  <1>1. But(d, c, {"count"})
    BY DecFields
  <1> HIDE DEF d
  <1>2. But(d, c, UserFields) /\ d \in Cards
    BY <1>1 DEF But, UserFields
  <1>3. d.pcm = c.pcm /\ d.missed = c.missed /\ d.run = c.run /\ d.dead = c.dead
    BY <1>1 DEF But, Fields
  <1>4. \A t \in Streams : Heard(c, t) => Heard(d, t)
    BY <1>3 DEF Heard
  <1> QED BY <1>2, <1>4, SoundKept DEF d

\* A MIDI substream is closed: the streams are sound, and may have to stop.
LEMMA StoppableByMidi ==
  ASSUME NEW k \in Counters, NEW s \in Streams, card \in Cards, Sound(card)
  PROVE  LET e == MidiGone(s, k) IN
           /\ e \in Cards /\ Sound(e)
           /\ But(e, card, {"count", "midi"})
           /\ \A j \in Counters : e.count[j] = card.count[j] - IF j = k THEN 1 ELSE 0
  <1> DEFINE a == Dec(card, k)
             e == [a EXCEPT !.midi = a.midi \ {s}]
  <1>1. /\ But(a, card, {"count"})
        /\ \A j \in Counters : a.count[j] = card.count[j] - IF j = k THEN 1 ELSE 0
    BY DecFields
  <1>2. MidiGone(s, k) = e
    <2> HIDE DEF a
    <2>1. MidiGone(s, k) = [a EXCEPT !.midi = @ \ {s}]
      BY DEF MidiGone, a
    <2> QED BY <1>1, <2>1 DEF But, Cards
  <1> HIDE DEF a
  <1>3. But(e, a, {"midi"})
    <2>1. a \in Cards /\ a.midi \ {s} \in SUBSET Streams
      BY <1>1 DEF But, Cards
    <2> QED BY <2>1, SetMidi
  <1> HIDE DEF e
  <1>4. But(e, card, UserFields) /\ But(e, card, {"count", "midi"}) /\ e \in Cards
    BY <1>1, <1>3 DEF But, UserFields
  <1>5. /\ e.pcm = card.pcm /\ e.missed = card.missed /\ e.run = card.run
        /\ e.dead = card.dead /\ e.count = a.count
    BY <1>1, <1>3 DEF But, Fields
  <1>6. \A t \in Streams : Heard(card, t) => Heard(e, t)
    BY <1>5 DEF Heard
  <1> QED BY <1>1, <1>2, <1>4, <1>5, <1>6, SoundKept

----------------------------------------------------------------------------
(* Waiting, without the mutex, for the handler of the bus reset *)

\* What waiting changes
LEMMA WaitFields ==
  ASSUME NEW c \in Cards, NEW t \in Threads
  PROVE  LET d == BebobWait(c, t) IN
           /\ But(d, c, {"waiting", "completed"}) /\ d.waiting = c.waiting \cup {t}
  <1> DEFINE a == [c EXCEPT !.waiting = c.waiting \cup {t}]
             d == [a EXCEPT !.completed = FALSE]
  <1>1. BebobWait(c, t) = d
    BY DEF BebobWait, Cards
  <1>2. But(a, c, {"waiting"}) /\ a.waiting = c.waiting \cup {t}
    <2>1. c.waiting \cup {t} \in SUBSET Threads
      BY DEF Cards
    <2> QED BY <2>1, SetWaiting
  <1> HIDE DEF a
  <1>3. But(d, a, {"completed"})
    BY <1>2, SetUpdate DEF But
  <1> HIDE DEF d
  <1>4. d.waiting = c.waiting \cup {t}
    BY <1>2, <1>3 DEF But, Fields
  <1>5. But(d, c, {"waiting", "completed"})
    BY <1>2, <1>3 DEF But
  <1> QED BY <1>1, <1>4, <1>5

\* Only <<"pcm", s>> joined or left those that wait.
LEMMA PcmWaits ==
  ASSUME NEW c \in Cards, NEW s \in Streams, InOrder(c), c.pcm[s] \notin {"closed", "open"},
         NEW d, But(d, c, {"waiting", "completed"}),
         \A t \in Threads : t # <<"pcm", s>> => (t \in d.waiting) = (t \in c.waiting)
  PROVE  InOrder(d)
  <1>1. But(d, c, UserFields) /\ d \in Cards
    BY DEF But, UserFields
  <1>2. /\ SameCard(d, c) /\ d.count = c.count /\ d.lost = c.lost
        /\ d.lockLost = c.lockLost /\ d.lock = c.lock
        /\ d.midi = c.midi /\ d.want = c.want /\ d.pcm = c.pcm
        /\ d.run = c.run /\ d.dead = c.dead /\ d.missed = c.missed
    BY DEF But, SameCard, Fields
  <1>3. \A t \in Streams : /\ (<<"midi", t>> \in d.waiting) = (<<"midi", t>> \in c.waiting)
                           /\ t # s => (<<"pcm", t>> \in d.waiting) = (<<"pcm", t>> \in c.waiting)
    BY DEF Threads
  <1>4. \A t \in Streams : Uses(d, t) = Uses(c, t) /\ Holds(d, t) = Holds(c, t)
    BY <1>2, <1>3 DEF Uses, Holds, PcmUses, PcmHolds, MidiUses
  <1>5. \A t \in Streams : Orderly(d, t)
    BY <1>2, <1>3 DEF Orderly, InOrder, Tidy
  <1>6. Tidy(d)
    <2>1. c.life \notin {"absent", "deferred"} /\ Tidy(c)
      BY BornByPcm DEF InOrder
    <2> QED BY <1>1, <1>2, <1>4, <1>5, <2>1, SameUse
  <1>7. \A t \in Streams : Heard(c, t) => Heard(d, t)
    BY <1>2 DEF Heard
  <1> QED BY <1>1, <1>2, <1>6, <1>7, UserKept

\* LockTry() that succeeds, and a substream counted
LEMMA LentFresh ==
  ASSUME NEW c \in Cards, NEW s \in Streams, NEW k, k = KeyOf(c, s), c.lock >= 0,
         s \notin c.midi, <<"midi", s>> \notin c.waiting
  PROVE  LET e == Inc([c EXCEPT !.lock = @ + 1], k) IN
           /\ Lent(e, c, s) /\ MidiUses(c, s) = 0
           /\ But(e, c, {"lock", "count"})
  <1> DEFINE a == [c EXCEPT !.lock = c.lock + 1]
             e == Inc(a, k)
  <1>0. k \in Counters /\ MidiUses(c, s) = 0
    BY KeyIsCounter DEF MidiUses
  <1>1. But(a, c, {"lock"}) /\ a.lock = c.lock + 1
    BY SetLock DEF Cards
  <1>2. Inc([c EXCEPT !.lock = @ + 1], k) = e
    BY DEF Cards
  <1> HIDE DEF a
  <1>3. /\ But(e, a, {"count"})
        /\ \A j \in Counters : e.count[j] = a.count[j] + IF j = k THEN 1 ELSE 0
    <2>1. a \in Cards
      BY <1>1 DEF But
    <2> QED BY <1>0, <2>1, IncFields
  <1> HIDE DEF e
  <1>4. But(e, c, {"lock", "count"}) /\ But(e, c, LentFields)
    BY <1>1, <1>3 DEF But, LentFields
  <1>5. e.lock = c.lock + 1 /\ e.waiting = c.waiting /\ a.count = c.count
    BY <1>1, <1>3 DEF But, Fields
  <1>6. c.lock \in Int /\ c.lock # -1 /\ e.lock = c.lock + 1 - MidiUses(c, s)
    BY <1>0, <1>5 DEF Cards
  <1>7. \A j \in Counters :
          e.count[j] = c.count[j] + IF j = KeyOf(c, s) THEN 1 - MidiUses(c, s) ELSE 0
    BY <1>0, <1>3, <1>5
  <1>8. Lent(e, c, s)
    BY <1>4, <1>5, <1>6, <1>7 DEF Lent
  <1> QED BY <1>0, <1>2, <1>4, <1>8

\* One that waited goes on.
LEMMA LentAwake ==
  ASSUME NEW c \in Cards, NEW s \in Streams, InOrder(c), <<"midi", s>> \in c.waiting
  PROVE  LET e == [c EXCEPT !.waiting = @ \ {<<"midi", s>>}] IN
           /\ Lent(e, c, s) /\ MidiUses(c, s) = 1
           /\ But(e, c, {"waiting"})
  <1> DEFINE e == [c EXCEPT !.waiting = c.waiting \ {<<"midi", s>>}]
  <1>1. [c EXCEPT !.waiting = @ \ {<<"midi", s>>}] = e
    BY DEF Cards
  <1>2. But(e, c, {"waiting"}) /\ e.waiting = c.waiting \ {<<"midi", s>>}
    <2>1. c.waiting \ {<<"midi", s>>} \in SUBSET Threads
      BY DEF Cards
    <2> QED BY <2>1, SetWaiting
  <1> HIDE DEF e
  <1>3. But(e, c, LentFields)
    BY <1>2 DEF But, LentFields
  <1>4. MidiUses(c, s) = 1 /\ s \notin c.midi
    BY DEF MidiUses, InOrder, Tidy, Orderly
  <1>5. e.lock = c.lock /\ e.count = c.count
    BY <1>2 DEF But, Fields
  <1>6. c.lock \in Int /\ \A j \in Counters : c.count[j] \in Int
    BY DEF Cards
  <1>7. e.lock = c.lock + 1 - MidiUses(c, s)
    BY <1>4, <1>5, <1>6
  <1>8. \A j \in Counters :
          e.count[j] = c.count[j] + IF j = KeyOf(c, s) THEN 1 - MidiUses(c, s) ELSE 0
    BY <1>4, <1>5, <1>6
  <1>9. \A t \in Streams : t # s => (<<"midi", t>> \in e.waiting) = (<<"midi", t>> \in c.waiting)
    BY <1>2
  <1>10. \A t \in Streams : (<<"pcm", t>> \in e.waiting) = (<<"pcm", t>> \in c.waiting)
    BY <1>2
  <1>11. <<"midi", s>> \notin e.waiting
    BY <1>2
  <1>12. MidiUses(c, s) = 0 => c.lock # -1
    BY <1>4
  <1>13. Lent(e, c, s)
    BY <1>3, <1>4, <1>7, <1>8, <1>9, <1>10, <1>11, <1>12 DEF Lent
  <1> QED BY <1>1, <1>2, <1>4, <1>13

\* A MIDI substream that is counted, and holds the lock, joins those that wait.
LEMMA MidiWaits ==
  ASSUME NEW c \in Cards, NEW s \in Streams, InOrder(c), c.life = "live", c.lock >= 0,
         s \notin c.midi, <<"midi", s>> \notin c.waiting, NEW e, Lent(e, c, s),
         But(e, c, {"lock", "count"}), MidiUses(c, s) = 0
  PROVE  InOrder(BebobWait(e, <<"midi", s>>))
  <1> DEFINE d == BebobWait(e, <<"midi", s>>)
  <1>1. But(d, e, {"waiting", "completed"}) /\ d.waiting = e.waiting \cup {<<"midi", s>>}
    <2>1. e \in Cards /\ <<"midi", s>> \in Threads
      BY DEF But, Threads
    <2> QED BY <2>1, WaitFields
  <1> HIDE DEF d
  <1>2. But(d, c, UserFields) /\ d \in Cards
    BY <1>1 DEF But, UserFields
  <1>3. /\ SameCard(d, c) /\ d.count = e.count /\ d.lost = c.lost
        /\ d.lockLost = c.lockLost /\ d.lock = e.lock
        /\ d.midi = c.midi /\ d.want = c.want /\ d.pcm = c.pcm
        /\ d.run = c.run /\ d.dead = c.dead /\ d.missed = c.missed
        /\ d.waiting = c.waiting \cup {<<"midi", s>>}
    BY <1>1 DEF But, SameCard, Fields
  <1>4. MidiUses(d, s) = 1 /\ \A t \in Streams : t # s => MidiUses(d, t) = MidiUses(c, t)
    BY <1>3 DEF MidiUses
  <1>5. \A t \in Streams : PcmUses(d, t) = PcmUses(c, t) /\ PcmHolds(d, t) = PcmHolds(c, t)
    BY <1>3 DEF PcmUses, PcmHolds
  <1>6. /\ Uses(d, s) = Uses(c, s) + 1 /\ Holds(d, s) = Holds(c, s) + 1
        /\ \A t \in Streams : t # s => Uses(d, t) = Uses(c, t) /\ Holds(d, t) = Holds(c, t)
    BY <1>4, <1>5, UsesRange DEF Uses, Holds
  <1>7. UserStep(d, c, s, 1, 0)
    <2>1. \A j \in Counters : c.count[j] \in Int /\ c.lost[j] \in Int
      BY DEF Cards
    <2> QED BY <1>3, <1>6, <2>1 DEF UserStep, Lent
  <1>8. LockStep(d, c, s, 1, 0)
    <2>1. c.lock \in Int /\ c.lockLost \in Int
      BY DEF Cards
    <2> QED BY <1>3, <1>6, <2>1 DEF LockStep, Lent
  <1>9. \A t \in Streams : Orderly(d, t)
    <2>1. \A t \in Streams : Orderly(c, t)
      BY DEF InOrder, Tidy
    <2> QED BY <1>3, <2>1 DEF Orderly
  <1>10. Tidy(d)
    BY <1>2, <1>3, <1>7, <1>8, <1>9, TidyStep DEF InOrder
  <1>11. \A t \in Streams : Heard(c, t) => Heard(d, t)
    BY <1>3 DEF Heard
  <1>12. \A j \in Counters : d.count[j] = 0 => c.count[j] = 0
    <2>1. \A j \in Counters : c.count[j] \in Nat
      BY CountsAreNatural DEF InOrder, Tidy
    <2> QED BY <1>3, <2>1 DEF Lent
  <1> QED BY <1>2, <1>10, <1>11, <1>12, UserKept DEF d

----------------------------------------------------------------------------
(* Streams that die *)

\* A stream dies, and its PCM hears of it.
LEMMA Dies ==
  ASSUME NEW c \in Cards, NEW s \in Streams
  PROVE  LET d == Die(c, s) IN
           /\ Keeps(d, c) /\ SameDevice(d, c) /\ SameLink(d, c) /\ d.run = c.run
           /\ d.dead = [c.dead EXCEPT ![s] = TRUE] /\ Heard(d, s)
           /\ \A t \in Streams : t # s => SameUser(d, c, t)
  <1> DEFINE g == [c.dead EXCEPT ![s] = TRUE]
             a == [c EXCEPT !.dead = g]
             d == PcmAbort(a, s)
  <1>1. Die(c, s) = d
    BY DEF Die, Cards
  <1>2. g \in Flags
    BY DEF Cards, Flags
  <1> HIDE DEF g
  <1>3. /\ Keeps(a, c) /\ SamePcm(a, c) /\ SameDevice(a, c) /\ SameLink(a, c)
        /\ a.dead = g /\ a.run = c.run
    BY <1>2, SetDead
  <1> HIDE DEF a
  <1>4. /\ Keeps(d, a) /\ SameRun(d, a) /\ SameDevice(d, a) /\ SameLink(d, a)
        /\ d.pcm = [a.pcm EXCEPT ![s] = IF @ = "running" THEN "xrun" ELSE @]
        /\ d.missed = [a.missed EXCEPT ![s] = @ \/ a.pcm[s] = "prepared"]
    BY <1>3, Abort DEF Keeps
  <1> HIDE DEF d
  <1>5. a.pcm \in [Streams -> PcmStates] /\ a.missed \in Flags /\ a.pcm = c.pcm /\ a.missed = c.missed
    BY <1>3 DEF Keeps, Cards, SamePcm
  <1>6. Heard(d, s)
    <2>1. a.pcm[s] # "prepared" => d.pcm[s] \notin {"prepared", "running"}
      BY <1>4, <1>5 DEF PcmStates
    <2>2. a.pcm[s] = "prepared" => d.missed[s]
      BY <1>4, <1>5 DEF Flags
    <2> QED BY <2>1, <2>2 DEF Heard
  <1>7. \A t \in Streams : t # s => SameUser(d, c, t)
    BY <1>4, <1>5 DEF SameUser, Flags
  <1> QED BY <1>1, <1>3, <1>4, <1>6, <1>7 DEF Keeps, SameRun, SameDevice, SameLink, g

\* What d has lost of c are streams that died; the PCM of each has heard of it.
Worse(d, c) ==
  /\ Keeps(d, c) /\ SameDevice(d, c) /\ SameLink(d, c) /\ d.run = c.run
  /\ \A s \in Streams : /\ d.dead[s] = c.dead[s] \/ d.dead[s] = TRUE
                        /\ (d.dead[s] = c.dead[s] /\ SameUser(d, c, s)) \/ Heard(d, s)

LEMMA WorseSelf == \A c \in Cards : Worse(c, c)
  BY DEF Worse, Keeps, SameDevice, SameLink, SameUser

LEMMA WorseTrans ==
  ASSUME NEW c, NEW d, NEW e, Worse(d, c), Worse(e, d)
  PROVE  Worse(e, c)
  <1>1. Keeps(e, c) /\ SameDevice(e, c) /\ SameLink(e, c) /\ e.run = c.run /\ e.run = d.run
    BY DEF Worse, Keeps, SameDevice, SameLink
  <1> SUFFICES ASSUME NEW s \in Streams
               PROVE  /\ e.dead[s] = c.dead[s] \/ e.dead[s] = TRUE
                      /\ (e.dead[s] = c.dead[s] /\ SameUser(e, c, s)) \/ Heard(e, s)
    BY <1>1 DEF Worse
  <1>2. e.dead[s] = c.dead[s] \/ e.dead[s] = TRUE
    BY DEF Worse
  <1>3. CASE e.dead[s] = d.dead[s] /\ SameUser(e, d, s)
    BY <1>1, <1>2, <1>3 DEF Worse, SameUser, Heard
  <1>4. CASE Heard(e, s)
    BY <1>2, <1>4
  <1> QED BY <1>3, <1>4 DEF Worse

\* Streams that die are still sound.
LEMMA DeadIsSound ==
  ASSUME NEW c \in Cards, NEW d, Worse(d, c), Sound(c)
  PROVE  Sound(d)
  <1>0. "tx" \in Streams /\ "rx" \in Streams
    BY DEF Streams
  <1>1. /\ d.driver = c.driver /\ d.master = c.master /\ d.run = c.run
        /\ d.conn = c.conn /\ d.rate = c.rate /\ d.device = c.device
        /\ d.session = c.session
    BY KeepsFields DEF Worse, SameDevice, SameLink
  <1>2. \A s \in Streams : Heard(c, s) => Heard(d, s)
    BY <1>1 DEF Heard, Worse, SameUser
  <1>3. d.driver = "oxfw" => OxfwSound(d)
    BY <1>1, <1>2 DEF Sound, OxfwSound
  <1>4. d.driver \in BebobDrivers => BebobSound(d)
    BY <1>1 DEF Sound, BebobSound
  <1>5. d.driver = "digi" => DigiSound(d)
    BY <1>1 DEF Sound, DigiSound
  <1>6. d.driver = "dice" => DiceSound(d)
    BY <1>0, <1>1, <1>2 DEF Sound, DiceSound, DiceLinked
  <1> QED BY <1>3, <1>4, <1>5, <1>6 DEF Sound

\* None is used that was not.
LEMMA SameUnused ==
  ASSUME NEW c \in Cards, NEW d, Worse(d, c), Unused(c)
  PROVE  Unused(d)
  <1>1. /\ d.driver = c.driver /\ d.run = c.run /\ d.conn = c.conn
        /\ d.session = c.session /\ d.count = c.count
    BY KeepsFields DEF Worse, SameDevice, SameLink
  <1> QED BY <1>1 DEF Unused, OxfwUnused, DuplexUnused, DiceUnused, NoStream

\* What streams that die make of a card that is whole.
LEMMA WorseIsWhole ==
  ASSUME NEW c \in Cards, NEW f, Whole(f, c), NEW d, Worse(d, f)
  PROVE  Whole(d, c)
  <1>1. f \in Cards /\ Keeps(f, c) /\ Keeps(d, f)
    BY DEF Whole, Worse, Keeps
  <1>2. Keeps(d, c)
    BY <1>1 DEF Keeps
  <1> QED BY <1>1, <1>2, DeadIsSound, SameUnused DEF Whole

\* One error
LEMMA DieIsWorse ==
  ASSUME NEW c \in Cards, NEW s \in Streams
  PROVE  Worse(Die(c, s), c) /\ Die(c, s).dead[s] = TRUE
  <1> DEFINE d == Die(c, s)
  <1>1. /\ Keeps(d, c) /\ SameDevice(d, c) /\ SameLink(d, c) /\ d.run = c.run
        /\ d.dead = [c.dead EXCEPT ![s] = TRUE] /\ Heard(d, s)
        /\ \A t \in Streams : t # s => SameUser(d, c, t)
    BY Dies
  <1> HIDE DEF d
  <1>2. d.dead[s] = TRUE /\ \A t \in Streams : t # s => d.dead[t] = c.dead[t]
    BY <1>1 DEF Cards, Flags
  <1> QED BY <1>1, <1>2 DEF Worse, d

\* The packet callback of a stream, which may be that of a master.
LEMMA ErrorIsWorse ==
  ASSUME NEW c \in Cards, NEW s \in Streams
  PROVE  Worse(ErrorOf(c, s), c)
  <1> DEFINE a == Die(c, "tx")
             b == Die(a, "rx")
  <1>0. "tx" \in Streams /\ "rx" \in Streams
    BY DEF Streams
  <1>1. Worse(a, c)
    BY <1>0, DieIsWorse
  <1>2. a \in Cards
    BY <1>1 DEF Worse, Keeps
  <1> HIDE DEF a
  <1>3. Worse(b, a)
    BY <1>0, <1>2, DieIsWorse
  <1>4. Worse(b, c)
    BY <1>1, <1>3, WorseTrans
  <1> QED BY <1>4, DieIsWorse DEF ErrorOf, a

\* A slave that was started after its master had died
LEMMA SurvivedIsWorse ==
  ASSUME NEW c \in Cards
  PROVE  \A d \in Survived(c) : Worse(d, c)
  <1> DEFINE e == ErrorOf(c, "tx")
             g == [e.dead EXCEPT !["rx"] = FALSE]
             f == [e EXCEPT !.dead = g]
  <1>0. "tx" \in Streams /\ "rx" \in Streams
    BY DEF Streams
  <1> SUFFICES ASSUME NEW d \in Survived(c) PROVE Worse(d, c)
    OBVIOUS
  <1>1. /\ Synchronised(c) /\ c.dead["rx"] = FALSE
        /\ d = [ErrorOf(c, "tx") EXCEPT !.dead["rx"] = FALSE]
    BY <1>0 DEF Survived, Streaming, Cards, Flags
  <1>2. Worse(e, c)
    BY <1>0, ErrorIsWorse
  <1>3. e \in Cards
    BY <1>2 DEF Worse, Keeps
  <1>4. Heard(e, "rx")
    <2> DEFINE a == Die(c, "tx")
    <2>1. e = Die(a, "rx")
      BY <1>1 DEF ErrorOf
    <2>2. a \in Cards
      BY <1>0, Dies DEF Keeps
    <2> HIDE DEF a, e
    <2> QED BY <1>0, <2>1, <2>2, Dies
  <1> HIDE DEF e
  <1>5. g \in Flags /\ g["rx"] = FALSE /\ g["tx"] = e.dead["tx"]
    BY <1>0, <1>3 DEF Cards, Flags
  <1>6. d = f
    BY <1>1, <1>3 DEF Cards, e
  <1> HIDE DEF g
  <1>7. /\ Keeps(f, e) /\ SamePcm(f, e) /\ SameDevice(f, e) /\ SameLink(f, e)
        /\ f.dead = g /\ f.run = e.run
    BY <1>3, <1>5, SetDead
  <1> HIDE DEF f
  <1>8. Heard(f, "rx")
    BY <1>4, <1>5, <1>7 DEF Heard, SamePcm
  <1>9. f.dead["tx"] = e.dead["tx"] /\ SameUser(f, e, "tx") /\ f.dead["rx"] = c.dead["rx"]
    BY <1>1, <1>5, <1>7 DEF SameUser, SamePcm
  <1>10. Keeps(f, c) /\ SameDevice(f, c) /\ SameLink(f, c) /\ f.run = c.run /\ f.run = e.run
    BY <1>2, <1>7 DEF Worse, Keeps, SameDevice, SameLink
  <1>11. Heard(e, "tx") => Heard(f, "tx")
    BY <1>9, <1>10 DEF Heard, SameUser
  <1>12. /\ f.dead["tx"] = c.dead["tx"] \/ f.dead["tx"] = TRUE
         /\ (f.dead["tx"] = c.dead["tx"] /\ SameUser(f, c, "tx")) \/ Heard(f, "tx")
    BY <1>0, <1>2, <1>9, <1>11 DEF Worse, SameUser
  <1> QED BY <1>6, <1>8, <1>9, <1>10, <1>12 DEF Worse, Streams

\* What the packet callbacks may do while streams are started
LEMMA MeanwhileIsWorse ==
  ASSUME NEW c \in Cards
  PROVE  \A d \in Meanwhile(c) : Worse(d, c)
  <1>0. "tx" \in Streams /\ "rx" \in Streams
    BY DEF Streams
  <1>1. ASSUME NEW e \in Cards, NEW s \in Streams
        PROVE  \A d \in MayDie(e, s) : Worse(d, e)
    BY ErrorIsWorse, WorseSelf DEF MayDie
  <1> TAKE d \in Meanwhile(c)
  <1>2. PICK e \in MayDie(c, "tx") \cup Survived(c) : d \in MayDie(e, "rx")
    BY DEF Meanwhile
  <1>3. Worse(e, c)
    BY <1>0, <1>1, <1>2, SurvivedIsWorse
  <1>4. e \in Cards
    BY <1>3 DEF Worse, Keeps
  <1>5. Worse(d, e)
    BY <1>0, <1>1, <1>2, <1>4
  <1> QED BY <1>3, <1>5, WorseTrans

\* The packet callbacks
LEMMA PacketErrors ==
  ASSUME card \in Cards, InOrder(card), NEW s \in Streams, StreamError(s)
  PROVE  InOrder(card') /\ Keeps(card', card)
  <1>1. Worse(card', card)
    BY ErrorIsWorse DEF StreamError
  <1>2. Sound(card') /\ Unused(card')
    BY <1>1, DeadIsSound, SameUnused DEF InOrder
  <1>3. Tidy(card')
    BY <1>1, KeepsTidy DEF InOrder, Worse
  <1> QED BY <1>1, <1>2, <1>3 DEF InOrder, Worse

----------------------------------------------------------------------------
(* Registration and the end of a card *)

\* A stream that runs without a user has one that was forgotten.
LEMMA IdleLost ==
  ASSUME NEW c \in Cards, InOrder(c), \A s \in Streams : Uses(c, s) = 0,
         NEW s \in Streams, c.run[s]
  PROVE  \E k \in Counters : c.lost[k] > 0
  <1>0. "tx" \in Streams /\ "rx" \in Streams /\ Streams \subseteq Counters /\ "both" \in Counters
    BY DEF Streams, Counters
  <1>1. SUFFICES ASSUME \A k \in Counters : ~(c.lost[k] > 0) PROVE FALSE
    OBVIOUS
  <1>2. \A k \in Counters : CountOf(c, k) = 0
    BY <1>0 DEF CountOf, Counters, Streams
  <1>3. \A k \in Counters : c.count[k] = 0
    <2>1. \A k \in Counters : c.lost[k] \in Nat /\ c.count[k] = CountOf(c, k) + c.lost[k]
      BY CountsAreNatural DEF InOrder, Tidy, Counting
    <2> QED BY <1>1, <1>2, <2>1
  <1>4. c.driver \in {"oxfw", "digi", "dice"} \cup BebobDrivers
    BY DEF Cards, Drivers, BebobDrivers
  <1> QED BY <1>0, <1>3, <1>4 DEF InOrder, Unused, OxfwUnused, DuplexUnused, DiceUnused, NoStream

\* amdtp_stream_destroy() of some streams; Dice clears the enable register, too.
Warns(d, c) ==
  /\ But(d, c, {"warned", "session"})
  /\ d.session = c.session \/ (d.session = FALSE /\ c.driver = "dice")
  /\ d.warned => c.warned \/ ~c.inited \/ \E s \in Streams : c.run[s]

\* Two destructions, one after the other
LEMMA WarnsTrans ==
  ASSUME NEW c, NEW d, NEW e, Warns(d, c), Warns(e, d)
  PROVE  Warns(e, c)
  <1>1. But(e, c, {"warned", "session"})
    BY DEF Warns, But
  <1>2. d.inited = c.inited /\ d.run = c.run /\ d.driver = c.driver
    BY DEF Warns, But, Fields
  <1> QED BY <1>1, <1>2 DEF Warns

\* amdtp_stream_destroy()
LEMMA Destroyed ==
  ASSUME NEW c \in Cards, NEW s \in Streams
  PROVE  Warns(Destroy(c, s), c)
  <1> DEFINE w == c.warned \/ c.run[s] \/ ~c.inited
             d == [c EXCEPT !.warned = w]
  <1>1. Destroy(c, s) = d
    BY DEF Destroy, Cards
  <1>2. w \in BOOLEAN /\ (w => c.warned \/ ~c.inited \/ \E t \in Streams : c.run[t])
    BY DEF Cards, Flags
  <1> HIDE DEF w
  <1>3. But(d, c, {"warned"}) /\ d.warned = w
    BY <1>2, SetWarned
  <1> HIDE DEF d
  <1>4. But(d, c, {"warned", "session"}) /\ d.session = c.session
    BY <1>3 DEF But, Fields
  <1> QED BY <1>1, <1>2, <1>3, <1>4 DEF Warns

LEMMA DestroyedBoth ==
  ASSUME NEW c \in Cards, NEW s \in Streams, NEW t \in Streams
  PROVE  Warns(Destroy(Destroy(c, s), t), c)
  <1> DEFINE d == Destroy(c, s)
  <1>1. Warns(d, c) /\ d \in Cards
    BY Destroyed DEF Warns, But
  <1> HIDE DEF d
  <1>2. Warns(Destroy(d, t), d)
    BY <1>1, Destroyed
  <1>3. Warns(Destroy(d, t), c)
    BY <1>1, <1>2, WarnsTrans
  <1> QED BY <1>3 DEF d

\* snd_dice_transaction_clear_enable()
LEMMA Cleared ==
  ASSUME NEW c \in Cards, c.driver = "dice"
  PROVE  Warns(DiceClearEnable(c), c)
  <1> DEFINE d == [c EXCEPT !.session = FALSE]
  <1>1. DiceClearEnable(c) = d
    BY DEF DiceClearEnable
  <1>2. d \in Cards /\ \A f \in Fields \ {"warned", "session"} : d[f] = c[f]
    BY DEF Cards, Fields
  <1>3. d.session = FALSE /\ d.warned = c.warned
    BY DEF Cards
  <1> QED BY <1>1, <1>2, <1>3 DEF Warns, But

\* The card ends: d is e, which was initialised or was not, with its streams destroyed.
EndFields == {"life", "inited", "warned", "session", "ghost"}
\* The card is freed while nobody uses it.
LEMMA Ended ==
  ASSUME NEW c \in Cards, InOrder(c), c.life # "freed", \A s \in Streams : Uses(c, s) = 0,
         NEW d, But(d, c, EndFields), d.life = "freed",
         d.session = c.session \/ (d.session = FALSE /\ c.driver = "dice"),
         d.ghost => c.driver = "maudio",
         d.warned /\ d.inited => \E s \in Streams : c.run[s]
  PROVE  InOrder(d)
  <1>1. /\ d.driver = c.driver /\ d.count = c.count /\ d.lost = c.lost
        /\ d.lockLost = c.lockLost /\ d.lock = c.lock
        /\ d.midi = c.midi /\ d.want = c.want /\ d.pcm = c.pcm /\ d.waiting = c.waiting
        /\ d.run = c.run /\ d.dead = c.dead /\ d.missed = c.missed /\ d.master = c.master
        /\ d.conn = c.conn /\ d.rate = c.rate /\ d.device = c.device /\ d \in Cards
    BY DEF But, EndFields, Fields
  <1>2. \A t \in Streams : Uses(d, t) = Uses(c, t) /\ Holds(d, t) = Holds(c, t)
    BY <1>1 DEF Uses, Holds, PcmUses, PcmHolds, MidiUses
  <1>3. \A k \in Counters : CountOf(d, k) = CountOf(c, k)
    BY <1>1, <1>2 DEF CountOf, Streams, Counters
  <1>4. LockOf(d) = LockOf(c)
    BY <1>1, <1>2 DEF LockOf, Streams
  <1>5. Counting(d) /\ Locking(d)
    BY <1>1, <1>3, <1>4 DEF Counting, Locking, InOrder, Tidy
  <1>6. \A t \in Streams : Orderly(d, t)
    BY <1>1 DEF Orderly, InOrder, Tidy
  <1>7. d.warned /\ d.inited => \E k \in Counters : d.lost[k] > 0
    BY <1>1, IdleLost
  <1>8. Lives(d)
    BY <1>1, <1>7 DEF Lives
  <1>9. Tidy(d)
    BY <1>1, <1>5, <1>6, <1>8 DEF Tidy
  <1>10. \A t \in Streams : Heard(c, t) => Heard(d, t)
    BY <1>1 DEF Heard
  <1>11. Sound(d)
    <2>1. d.driver = "oxfw" => OxfwSound(d)
      BY <1>1, <1>10 DEF InOrder, Sound, OxfwSound
    <2>2. d.driver \in BebobDrivers => BebobSound(d)
      BY <1>1 DEF InOrder, Sound, BebobSound, BebobDrivers
    <2>3. d.driver = "digi" => DigiSound(d)
      BY <1>1 DEF InOrder, Sound, DigiSound
    <2>4. d.driver = "dice" => DiceSound(d)
      BY <1>1, <1>10 DEF InOrder, Sound, DiceSound, DiceLinked, Streams
    <2> QED BY <2>1, <2>2, <2>3, <2>4 DEF Sound
  <1>12. Unused(d)
    <2>1. ~c.session => ~d.session
      OBVIOUS
    <2> QED BY <1>1, <2>1 DEF InOrder, Unused, OxfwUnused, DuplexUnused, DiceUnused, NoStream
  <1> QED BY <1>9, <1>11, <1>12 DEF InOrder

\* d is e with its streams destroyed, e is c, initialised or not.
LEMMA Ends ==
  ASSUME NEW c \in Cards, InOrder(c), c.life # "freed", \A s \in Streams : Uses(c, s) = 0,
         NEW e, But(e, c, {"inited"}), NEW f, Warns(f, e)
  PROVE  InOrder([f EXCEPT !.life = "freed"])
  <1> DEFINE d == [f EXCEPT !.life = "freed"]
  <1>1. But(d, f, {"life"}) /\ d.life = "freed"
    <2>1. f \in Cards
      BY DEF Warns, But
    <2> QED BY <2>1, SetLife
  <1> HIDE DEF d
  <1>2. But(d, c, EndFields)
    BY <1>1 DEF But, EndFields, Warns
  <1>3. /\ d.session = f.session /\ d.warned = f.warned /\ d.inited = f.inited
        /\ d.ghost = c.ghost /\ f.inited = e.inited /\ e.run = c.run /\ e.warned = c.warned
        /\ e.session = c.session /\ e.driver = c.driver
    BY <1>1 DEF But, Fields, Warns
  <1>4. ~c.warned /\ (c.ghost => c.driver = "maudio")
    BY DEF InOrder, Tidy, Lives
  <1>5. d.warned /\ d.inited => \E s \in Streams : c.run[s]
    BY <1>3, <1>4 DEF Warns
  <1>6. d.session = c.session \/ (d.session = FALSE /\ c.driver = "dice")
    BY <1>3 DEF Warns
  <1>7. InOrder(d)
    BY <1>1, <1>2, <1>3, <1>4, <1>5, <1>6, Ended
  <1> QED BY <1>7 DEF d

\* snd_card_register(), at the end of the probe or, for M-Audio, later
LEMMA Registered ==
  ASSUME NEW c \in Cards, InOrder(c), c.life \in {"absent", "deferred"}, NEW l,
         l = "live" \/ (l = "deferred" /\ c.driver = "maudio"),
         NEW e, But(e, c, {"inited"})
  PROVE  InOrder([e EXCEPT !.life = l])
  <1> DEFINE d == [e EXCEPT !.life = l]
  <1>1. But(d, e, {"life"}) /\ d.life = l
    <2>1. e \in Cards /\ l \in {"absent", "deferred", "live", "removed", "freed"}
      BY DEF But
    <2> QED BY <2>1, SetLife
  <1> HIDE DEF d
  <1>2. But(d, c, UserFields) /\ d \in Cards
    BY <1>1 DEF But, UserFields
  <1>3. /\ d.driver = c.driver /\ d.count = c.count /\ d.lost = c.lost
        /\ d.lockLost = c.lockLost /\ d.lock = c.lock
        /\ d.midi = c.midi /\ d.want = c.want /\ d.pcm = c.pcm /\ d.waiting = c.waiting
        /\ d.run = c.run /\ d.dead = c.dead /\ d.missed = c.missed
        /\ d.warned = c.warned /\ d.ghost = c.ghost
    BY <1>1 DEF But, Fields
  <1>4. \A t \in Streams : Uses(d, t) = Uses(c, t) /\ Holds(d, t) = Holds(c, t)
    BY <1>3 DEF Uses, Holds, PcmUses, PcmHolds, MidiUses
  <1>5. \A k \in Counters : CountOf(d, k) = CountOf(c, k)
    BY <1>3, <1>4 DEF CountOf, Streams, Counters
  <1>6. LockOf(d) = LockOf(c)
    BY <1>3, <1>4 DEF LockOf, Streams
  <1>7. Counting(d) /\ Locking(d)
    BY <1>3, <1>5, <1>6 DEF Counting, Locking, InOrder, Tidy
  <1>8. \A t \in Streams : Orderly(d, t)
    BY <1>3 DEF Orderly, InOrder, Tidy
  <1>9. Lives(d)
    <2>1. Unborn(d) /\ ~d.warned
      BY <1>3 DEF InOrder, Tidy, Lives, Unborn
    <2>2. d.life = "deferred" \/ d.ghost => d.driver = "maudio"
      BY <1>1, <1>3 DEF InOrder, Tidy, Lives
    <2> QED BY <2>1, <2>2 DEF Lives
  <1>10. Tidy(d)
    BY <1>2, <1>7, <1>8, <1>9 DEF Tidy
  <1>11. \A t \in Streams : Heard(c, t) => Heard(d, t)
    BY <1>3 DEF Heard
  <1>12. InOrder(d)
    BY <1>2, <1>3, <1>10, <1>11, UserKept
  <1> QED BY <1>12 DEF d

\* A card before and after amdtp_stream_init()
LEMMA Uninitialised ==
  ASSUME NEW c \in Cards
  PROVE  But(c, c, {"inited"}) /\ But([c EXCEPT !.inited = TRUE], c, {"inited"})
  BY SetInited DEF But

\* Nobody uses a card that is not registered,
LEMMA UnbornIsIdle ==
  ASSUME NEW c \in Cards, Tidy(c), c.life \in {"absent", "deferred"}
  PROVE  \A s \in Streams : Uses(c, s) = 0
  BY DEF Tidy, Lives, Unborn, Uses, PcmUses, MidiUses

\* or one that is freed.
LEMMA FreeIsIdle ==
  ASSUME MayFree
  PROVE  card.life = "removed" /\ \A s \in Streams : Uses(card, s) = 0
  BY DEF MayFree, Idle, Uses, PcmUses, MidiUses

----------------------------------------------------------------------------
(* The actions that the drivers have in common *)

\* What a start comes to, before its streams may die,
StartedAt(d, c, s) ==
  <<c.driver, s>> # <<"dice", "tx">> =>
    /\ d.run[s] /\ ~d.dead[s]
    /\ <<c.driver, s>> # <<"oxfw", "tx">> => d.rate[s] = c.want[s]
\* and PreparedRuns, for a step from c to d.
RunsAt(d, c, s) ==
  <<c.driver, s>> # <<"dice", "tx">> =>
    /\ d.run[s] /\ (d.dead[s] => d.missed[s])
    /\ <<c.driver, s>> # <<"oxfw", "tx">> => d.rate[s] = c.want[s]
Readies(d, c) ==
  \A s \in Streams : c.pcm[s] # "prepared" /\ d.pcm[s] = "prepared" => RunsAt(d, c, s)
Serves(d, c) == InOrder(d) /\ Readies(d, c)

\* A card in order has all its fields.
LEMMA TidyIsCard == \A c : InOrder(c) => c \in Cards
  BY DEF InOrder, Tidy

\* Only prepare makes a PCM ready.
LEMMA NoneReadied ==
  ASSUME NEW c, NEW d,
         \A s \in Streams : d.pcm[s] = "prepared" => c.pcm[s] = "prepared"
  PROVE  Readies(d, c)
  BY DEF Readies

\* The calls on streams make no PCM ready.
LEMMA KeptUnready ==
  ASSUME NEW c \in Cards, NEW d, Keeps(d, c)
  PROVE  \A s \in Streams : d.pcm[s] = "prepared" => c.pcm[s] = "prepared"
  BY KeepsFields

\* snd_*_stream_lock_try() that succeeds
LEMMA LockTried ==
  ASSUME NEW o \in LockTry(card), o.ok, card \in Cards
  PROVE  card.lock >= 0 /\ o.card = [card EXCEPT !.lock = @ + 1]
  <1>1. card.lock \in Int
    BY DEF Cards
  <1>2. CASE card.lock < 0
    <2>1. o \in Bad(card)
      BY <1>2 DEF LockTry
    <2> QED BY <2>1, Outcomes
  <1>3. CASE ~(card.lock < 0)
    <2>1. o \in Good([card EXCEPT !.lock = @ + 1])
      BY <1>3 DEF LockTry
    <2> QED BY <1>1, <1>3, <2>1, Outcomes
  <1> QED BY <1>2, <1>3

\* pcm_open()
LEMMA OpensPcm ==
  ASSUME InOrder(card), NEW s \in Streams, NEW limited \in BOOLEAN, Usable,
         card.pcm[s] = "closed", NEW o \in LockTry(card), o.ok,
         card' = OpenPcm(o.card, s, limited)
  PROVE  Serves(card', card)
  <1>0. card \in Cards
    BY TidyIsCard
  <1>1. card.lock >= 0 /\ o.card = [card EXCEPT !.lock = @ + 1]
    BY <1>0, LockTried
  <1>2. InOrder(card')
    BY <1>0, <1>1, Opened DEF Usable
  <1>3. card'.pcm = [card.pcm EXCEPT ![s] = "open"]
    BY <1>0, <1>1 DEF OpenPcm, Cards
  <1>4. \A t \in Streams : card'.pcm[t] = "prepared" => card.pcm[t] = "prepared"
    BY <1>0, <1>3 DEF Cards
  <1> QED BY <1>2, <1>4, NoneReadied DEF Serves

\* pcm_close()
LEMMA ClosesPcm ==
  ASSUME InOrder(card), NEW s \in Streams, ClosePcm(s)
  PROVE  Serves(card', card)
  <1>0. card \in Cards
    BY TidyIsCard
  <1>1. InOrder(card')
    BY <1>0, Closed DEF ClosePcm, InUse
  <1>2. card'.pcm = [card.pcm EXCEPT ![s] = "closed"]
    BY <1>0 DEF ClosePcm, LockRelease, Cards
  <1>3. \A t \in Streams : card'.pcm[t] = "prepared" => card.pcm[t] = "prepared"
    BY <1>0, <1>2 DEF Cards
  <1> QED BY <1>1, <1>3, NoneReadied DEF Serves

\* hw_params
LEMMA SetsParams ==
  ASSUME InOrder(card), NEW s \in Streams, NEW k, k = KeyOf(card, s), HwParams(s, k)
  PROVE  Serves(card', card)
  <1> DEFINE e == IF card.pcm[s] = "open" THEN Inc(card, k) ELSE card
  <1>0. card \in Cards /\ k \in Counters
    BY TidyIsCard, KeyIsCounter
  <1>1. /\ Usable /\ <<"pcm", s>> \notin card.waiting
        /\ card.pcm[s] \in {"open", "setup", "prepared"}
    BY DEF HwParams, Idle
  <1>2. (\E r \in card.limit[s] : card' = PutRate(e, s, "setup", r))
        \/ card' = Lose(Unset(e, s), k)
    BY DEF HwParams, PutRate
  <1>3. e \in Cards /\ e.pcm = card.pcm
    <2>1. But(Inc(card, k), card, {"count"})
      BY <1>0, IncFields
    <2> QED BY <1>0, <2>1 DEF But, Fields
  <1>4. CASE \E r \in card.limit[s] : card' = PutRate(e, s, "setup", r)
    <2>1. PICK r \in card.limit[s] : card' = PutRate(e, s, "setup", r)
      BY <1>4
    <2>2. InOrder(card')
      BY <1>0, <1>1, <2>1, Parametered DEF Usable
    <2>3. r \in Rates \cup {AnyRate} /\ "setup" \in PcmStates
      BY <1>0 DEF Cards, PcmStates
    <2>4. card'.pcm[s] = "setup" /\ \A t \in Streams : t # s => card'.pcm[t] = card.pcm[t]
      <3> HIDE DEF e
      <3> QED BY <1>3, <2>1, <2>3, PutRateFields
    <2>5. \A t \in Streams : card'.pcm[t] = "prepared" => card.pcm[t] = "prepared"
      BY <2>4
    <2> QED BY <2>2, <2>5, NoneReadied DEF Serves
  <1>5. CASE card' = Lose(Unset(e, s), k)
    <2>1. InOrder(card')
      BY <1>0, <1>1, <1>5, Unparametered DEF Usable
    <2>2. card'.pcm[s] = "open" /\ \A t \in Streams : t # s => card'.pcm[t] = card.pcm[t]
      <3> HIDE DEF e
      <3> DEFINE u == PutRate(e, s, "open", AnyRate)
      <3>1. Unset(e, s) = u
        BY <1>3 DEF Unset, PutRate, Cards
      <3>2. /\ u \in Cards /\ u.pcm[s] = "open"
            /\ \A t \in Streams : t # s => u.pcm[t] = e.pcm[t]
        BY <1>3, PutRateFields DEF PcmStates, But
      <3> HIDE DEF u
      <3>3. But(Lose(u, k), u, {"lost"})
        BY <1>0, <3>2, LoseFields
      <3>4. Lose(u, k).pcm = u.pcm
        BY <3>3 DEF But, Fields
      <3> QED BY <1>3, <1>5, <3>1, <3>2, <3>4
    <2>3. \A t \in Streams : card'.pcm[t] = "prepared" => card.pcm[t] = "prepared"
      BY <2>2
    <2> QED BY <2>1, <2>3, NoneReadied DEF Serves
  <1> QED BY <1>2, <1>4, <1>5

\* hw_free
LEMMA FreesParams ==
  ASSUME InOrder(card), NEW s \in Streams, NEW k, k = KeyOf(card, s), NEW f, HwFree(s, f),
         Whole(f, Dec(card, k))
  PROVE  Serves(card', card)
  <1>0. card \in Cards /\ k \in Counters
    BY TidyIsCard, KeyIsCounter
  <1>1. /\ <<"pcm", s>> \notin card.waiting /\ card.pcm[s] \notin {"closed", "open"}
        /\ card' = Unset(f, s)
    BY DEF HwFree, Idle
  <1>2. InOrder(card')
    BY <1>0, <1>1, Freed DEF Whole
  <1>3. But(Dec(card, k), card, {"count"})
    BY <1>0, DecFields
  <1>4. Dec(card, k) \in Cards /\ Dec(card, k).pcm = card.pcm
    BY <1>3 DEF But, Fields
  <1>5. f \in Cards /\ \A t \in Streams : f.pcm[t] = "prepared" => card.pcm[t] = "prepared"
    <2>1. Keeps(f, Dec(card, k))
      BY DEF Whole
    <2> QED BY <1>4, <2>1, KeptUnready DEF Keeps
  <1>6. card'.pcm = [f.pcm EXCEPT ![s] = "open"]
    BY <1>1, <1>5 DEF Unset, Cards
  <1>7. \A t \in Streams : card'.pcm[t] = "prepared" => card.pcm[t] = "prepared"
    BY <1>5, <1>6 DEF Cards
  <1> QED BY <1>2, <1>7, NoneReadied DEF Serves

\* What a start for s may come to.
Starts(start, c, s) ==
  \A o \in start : o.ok \in BOOLEAN /\ Whole(o.card, c) /\ (o.ok => StartedAt(o.card, c, s))

\* prepare
LEMMA Prepares ==
  ASSUME NEW c, InOrder(c), NEW s \in Streams, c.pcm[s] \notin {"closed", "open"},
         NEW start, Starts(start, c, s), Prepared(s, start)
  PROVE  Serves(card', c)
  <1>0. PICK o \in start : \E d \in Meanwhile(o.card) :
          card' = IF o.ok THEN PutReady(d, s, d.dead[s] /\ ~o.card.dead[s]) ELSE d
    BY DEF Prepared, PutReady
  <1>1. PICK d \in Meanwhile(o.card) :
          card' = IF o.ok THEN PutReady(d, s, d.dead[s] /\ ~o.card.dead[s]) ELSE d
    BY <1>0
  <1> DEFINE m == d.dead[s] /\ ~o.card.dead[s]
  <1>2. o.ok \in BOOLEAN /\ Whole(o.card, c) /\ (o.ok => StartedAt(o.card, c, s))
    BY DEF Starts
  <1>3. c \in Cards /\ Tidy(c)
    BY DEF InOrder, Tidy
  <1>4. o.card \in Cards /\ Worse(d, o.card)
    <2>1. o.card \in Cards
      BY <1>2 DEF Whole, Keeps
    <2> QED BY <1>1, <2>1, MeanwhileIsWorse
  <1>5. Whole(d, c)
    BY <1>2, <1>3, <1>4, WorseIsWhole
  <1>6. d \in Cards
        /\ \A t \in Streams : d.pcm[t] = "prepared" => c.pcm[t] = "prepared"
    <2>1. Keeps(d, c)
      BY <1>5 DEF Whole
    <2> QED BY <1>3, <2>1, KeptUnready DEF Keeps
  <1>7. CASE o.ok
    <2>1. <<c.driver, s>> # <<"dice", "tx">> => d.run[s] /\ (d.dead[s] => m)
      BY <1>2, <1>4, <1>7 DEF StartedAt, Worse
    <2>2. card' = PutReady(d, s, m) /\ m \in BOOLEAN
      BY <1>1, <1>7
    <2> HIDE DEF m
    <2>3. InOrder(PutReady(d, s, m))
      BY <1>3, <1>5, <2>1, <2>2, MadeReady DEF PutReady, MustHear
    <2>4. /\ But(card', d, {"pcm", "missed"}) /\ card'.missed[s] = m
          /\ \A t \in Streams : t # s => card'.pcm[t] = d.pcm[t]
      BY <1>6, <2>2, ReadyFields
    <2>5. RunsAt(card', c, s)
      <3>1. /\ card'.run = d.run /\ card'.dead = d.dead
            /\ card'.rate = d.rate /\ d.rate = o.card.rate
        BY <1>4, <2>4 DEF But, Fields, Worse, SameLink
      <3> QED BY <1>2, <1>7, <2>1, <2>4, <3>1 DEF StartedAt, RunsAt
    <2>6. Readies(card', c)
      BY <1>6, <2>4, <2>5 DEF Readies
    <2> QED BY <2>2, <2>3, <2>6 DEF Serves
  <1>8. CASE ~o.ok
    <2>1. InOrder(d)
      BY <1>3, <1>5, WholeIsInOrder
    <2>2. Readies(d, c)
      BY <1>6, NoneReadied
    <2> QED BY <1>1, <1>8, <2>1, <2>2 DEF Serves
  <1> QED BY <1>7, <1>8

\* trigger
LEMMA Triggers ==
  ASSUME InOrder(card), NEW s \in Streams, Trigger(s)
  PROVE  Serves(card', card)
  <1>0. card \in Cards
    BY TidyIsCard
  <1>1. InOrder(card')
    BY <1>0, Triggered, Dropped DEF Trigger, Usable
  <1>2. card'.pcm[s] # "prepared" /\ \A t \in Streams : t # s => card'.pcm[t] = card.pcm[t]
    <2>1. CASE card' = [card EXCEPT !.pcm[s] = "running"]
      BY <1>0, <2>1 DEF Cards
    <2>2. CASE card' = [card EXCEPT !.pcm[s] = "setup", !.missed[s] = FALSE]
      BY <1>0, <2>2 DEF Cards
    <2> QED BY <2>1, <2>2 DEF Trigger
  <1> QED BY <1>1, <1>2, NoneReadied DEF Serves

\* MIDI open
LEMMA OpensMidi ==
  ASSUME InOrder(card), NEW s \in Streams, NEW k, k = KeyOf(card, s), NEW e, Lent(e, card, s),
         card.life \notin {"absent", "deferred"},
         NEW start, \A o \in start : o.ok \in BOOLEAN /\ Whole(o.card, e),
         MidiOpened(s, k, start)
  PROVE  Serves(card', card)
  <1>0. card \in Cards /\ k \in Counters
    BY TidyIsCard, KeyIsCounter
  <1>6. PICK o \in start : \E d \in Meanwhile(o.card) :
          IF o.ok THEN card' = [d EXCEPT !.midi = @ \cup {s}]
          ELSE card' = LockRelease(Lose(d, k))
    BY DEF MidiOpened
  <1>1. PICK d \in Meanwhile(o.card) :
          IF o.ok THEN card' = [d EXCEPT !.midi = @ \cup {s}]
          ELSE card' = LockRelease(Lose(d, k))
    BY <1>6
  <1>2. o.ok \in BOOLEAN /\ Whole(d, e)
    <2>1. o.ok \in BOOLEAN /\ Whole(o.card, e)
      OBVIOUS
    <2>2. o.card \in Cards /\ e \in Cards
      BY <2>1 DEF Whole, Keeps, Lent, But
    <2> QED BY <1>1, <2>1, <2>2, MeanwhileIsWorse, WorseIsWhole
  <1>3. d \in Cards
        /\ \A t \in Streams : d.pcm[t] = "prepared" => card.pcm[t] = "prepared"
    <2>1. Keeps(d, e)
      BY <1>2 DEF Whole
    <2>2. e \in Cards /\ e.pcm = card.pcm
      BY DEF Lent, LentFields, But, Fields
    <2> QED BY <2>1, <2>2, KeptUnready DEF Keeps
  <1>4. CASE o.ok
    <2>1. InOrder([d EXCEPT !.midi = @ \cup {s}])
      BY <1>0, <1>2, MidiIn
    <2>2. card'.pcm = d.pcm
      BY <1>1, <1>3, <1>4 DEF Cards
    <2> QED BY <1>1, <1>3, <1>4, <2>1, <2>2, NoneReadied DEF Serves
  <1>5. CASE ~o.ok
    <2>1. InOrder(LockRelease(Lose(d, k)))
      BY <1>0, <1>2, MidiOut
    <2>2. card'.pcm = d.pcm
      BY <1>1, <1>3, <1>5 DEF Cards, LockRelease, Lose
    <2> QED BY <1>1, <1>3, <1>5, <2>1, <2>2, NoneReadied DEF Serves
  <1> QED BY <1>2, <1>4, <1>5

\* MIDI close
LEMMA ClosesMidi ==
  ASSUME InOrder(card), NEW s \in Streams, NEW k, k = KeyOf(card, s), NEW f, CloseMidi(s, f),
         Whole(f, MidiGone(s, k))
  PROVE  Serves(card', card)
  <1>0. card \in Cards /\ k \in Counters
    BY TidyIsCard, KeyIsCounter
  <1>1. s \in card.midi /\ card' = LockRelease(f)
    BY DEF CloseMidi
  <1>2. InOrder(card')
    BY <1>0, <1>1, MidiClosed
  <1>3. f \in Cards /\ \A t \in Streams : f.pcm[t] = "prepared" => card.pcm[t] = "prepared"
    <2>1. Keeps(f, MidiGone(s, k))
      BY DEF Whole
    <2>2. But(MidiGone(s, k), card, {"count", "midi"})
      BY <1>0, StoppableByMidi DEF InOrder
    <2>3. MidiGone(s, k) \in Cards /\ MidiGone(s, k).pcm = card.pcm
      BY <2>2 DEF But, Fields
    <2> QED BY <2>1, <2>3, KeptUnready DEF Keeps
  <1>4. card'.pcm = f.pcm
    BY <1>1, <1>3 DEF LockRelease, Cards
  <1> QED BY <1>2, <1>3, <1>4, NoneReadied DEF Serves

\* hwdep_lock() and hwdep_unlock()
LEMMA Locks ==
  ASSUME InOrder(card), Lock \/ Unlock
  PROVE  Serves(card', card)
  <1>0. card \in Cards
    BY TidyIsCard
  <1>1. InOrder(card')
    BY <1>0, Locked DEF Lock, Unlock
  <1>2. card'.pcm = card.pcm
    BY <1>0 DEF Lock, Unlock, Cards
  <1> QED BY <1>1, <1>2, NoneReadied DEF Serves

\* .remove
LEMMA Leaves ==
  ASSUME NEW c, InOrder(c), c.life = "live"
  PROVE  Serves(Disconnected(c), c)
  <1>0. c \in Cards
    BY TidyIsCard
  <1>1. InOrder(Disconnected(c))
    BY <1>0, Gone
  <1>2. Disconnected(c).pcm =
          [s \in Streams |-> IF c.pcm[s] \in {"closed", "open"} THEN c.pcm[s] ELSE "setup"]
    BY <1>0 DEF Disconnected, Cards
  <1>3. \A t \in Streams : Disconnected(c).pcm[t] = "prepared" => c.pcm[t] = "prepared"
    BY <1>2
  <1> QED BY <1>1, <1>3, NoneReadied DEF Serves

\* The packet callbacks
LEMMA Errs ==
  ASSUME InOrder(card), NEW s \in Streams, StreamError(s)
  PROVE  Serves(card', card)
  <1>0. card \in Cards
    BY TidyIsCard
  <1>1. InOrder(card') /\ Keeps(card', card)
    BY <1>0, PacketErrors
  <1> QED BY <1>0, <1>1, KeptUnready, NoneReadied DEF Serves

\* The card is one whose substreams are as they were.
LEMMA Passes ==
  ASSUME NEW c \in Cards, NEW d, InOrder(d), NEW F, But(d, c, F), "pcm" \notin F
  PROVE  Serves(d, c)
  <1>1. d.pcm = c.pcm
    BY DEF But, Fields
  <1> QED BY <1>1, NoneReadied DEF Serves

\* Calls on streams only, as in the handler of a bus reset
LEMMA PassesOn ==
  ASSUME NEW c, InOrder(c), NEW d, Whole(d, c)
  PROVE  Serves(d, c)
  <1>1. c \in Cards /\ Keeps(d, c)
    BY TidyIsCard DEF Whole
  <1>2. InOrder(d)
    BY <1>1, WholeIsInOrder DEF InOrder
  <1> QED BY <1>1, <1>2, KeptUnready, NoneReadied DEF Serves

\* A PCM with parameters is counted, and they include a rate.
LEMMA PcmIsCounted ==
  ASSUME NEW c, InOrder(c), NEW s \in Streams, c.pcm[s] \notin {"closed", "open"}
  PROVE  c.count[KeyOf(c, s)] > 0 /\ c.want[s] \in Rates
  <1>0. c \in Cards /\ Counting(c) /\ Orderly(c, s)
    BY DEF InOrder, Tidy
  <1>1. Uses(c, s) >= 1
    BY UsesRange DEF Uses, PcmUses
  <1>2. \A t \in Streams : Uses(c, t) \in Nat
    BY UsesRange
  <1>3. CountOf(c, KeyOf(c, s)) >= 1
    BY <1>1, <1>2 DEF CountOf, KeyOf, Streams
  <1>4. CountOf(c, KeyOf(c, s)) \in Int
    BY <1>2 DEF CountOf, Streams, KeyOf
  <1>5. c.count[KeyOf(c, s)] >= CountOf(c, KeyOf(c, s)) /\ c.count[KeyOf(c, s)] \in Nat
    BY <1>0, KeyIsCounter, CountsAreNatural
  <1> QED BY <1>0, <1>3, <1>4, <1>5 DEF Orderly

----------------------------------------------------------------------------
(* The steps of OXFW *)

\* What order is for this driver
LEMMA OxfwInOrder ==
  ASSUME NEW c, c.driver = "oxfw"
  PROVE  /\ Sound(c) <=> OxfwSound(c)
         /\ Unused(c) <=> OxfwUnused(c)
         /\ \A s : KeyOf(c, s) = s
         /\ \A d : Keeps(d, c) /\ OxfwSound(d) /\ OxfwUnused(d) /\ c \in Cards => Whole(d, c)
  <1>1. Sound(c) <=> OxfwSound(c)
    BY DEF Sound, BebobDrivers
  <1>2. Unused(c) <=> OxfwUnused(c)
    BY DEF Unused, BebobDrivers
  <1>3. \A s : KeyOf(c, s) = s
    BY DEF KeyOf
  <1>4. ASSUME NEW d, Keeps(d, c), OxfwSound(d), OxfwUnused(d), c \in Cards
        PROVE  Whole(d, c)
    <2>1. d.driver = "oxfw"
      BY <1>4, KeepsFields
    <2>2. Sound(d) /\ Unused(d)
      BY <1>4, <2>1 DEF Sound, Unused, BebobDrivers
    <2> QED BY <1>4, <2>2 DEF Whole
  <1> QED BY <1>1, <1>2, <1>3, <1>4

\* hw_free
LEMMA OxfwFrees ==
  ASSUME InOrder(card), card.driver = "oxfw", NEW s \in Streams, OxfwPcmHwFree(s)
  PROVE  Serves(card', card)
  <1> DEFINE e == Dec(card, s)
  <1>0. card \in Cards /\ KeyOf(card, s) = s /\ s \in Counters
        /\ Sound(card) /\ OxfwUnused(card)
    BY TidyIsCard, OxfwInOrder DEF InOrder, Counters
  <1>1. e \in Cards /\ Sound(e)
    BY <1>0, StoppableByPcm
  <1>2. /\ But(e, card, {"count"})
        /\ \A j \in Counters : e.count[j] = card.count[j] - IF j = s THEN 1 ELSE 0
    BY <1>0, DecFields
  <1>3. HwFree(s, OxfwStopSimplex(e, s))
    BY DEF OxfwPcmHwFree
  <1> HIDE DEF e
  <1>4. /\ e.driver = card.driver /\ e.run = card.run /\ e.conn = card.conn
    BY <1>2 DEF But, Fields
  <1>5. \A t \in Streams : t # s /\ e.count[t] = 0 => NoStream(e, t)
    <2>1. \A t \in Streams : t \in Counters /\ card.count[t] \in Int
      BY <1>0 DEF Cards, Counters
    <2> QED BY <1>0, <1>2, <1>4, <2>1 DEF OxfwUnused, NoStream
  <1>6. OxfwSound(e)
    BY <1>1, <1>4, OxfwInOrder
  <1>7. LET d == OxfwStopSimplex(e, s) IN Keeps(d, e) /\ OxfwSound(d) /\ OxfwUnused(d)
    BY <1>1, <1>5, <1>6, OxfwStopsSimplex
  <1>8. Whole(OxfwStopSimplex(e, s), e)
    BY <1>1, <1>4, <1>7, OxfwInOrder
  <1> QED BY <1>0, <1>3, <1>8, FreesParams DEF e

\* MIDI close
LEMMA OxfwClosesMidi ==
  ASSUME InOrder(card), card.driver = "oxfw", NEW s \in Streams, OxfwMidiClose(s)
  PROVE  Serves(card', card)
  <1> DEFINE e == MidiGone(s, s)
  <1>0. card \in Cards /\ KeyOf(card, s) = s /\ s \in Counters
        /\ Sound(card) /\ OxfwUnused(card)
    BY TidyIsCard, OxfwInOrder DEF InOrder, Counters
  <1>1. /\ e \in Cards /\ Sound(e)
        /\ But(e, card, {"count", "midi"})
        /\ \A j \in Counters : e.count[j] = card.count[j] - IF j = s THEN 1 ELSE 0
    BY <1>0, StoppableByMidi
  <1>3. CloseMidi(s, OxfwStopSimplex(e, s))
    BY DEF OxfwMidiClose
  <1> HIDE DEF e
  <1>4. /\ e.driver = card.driver /\ e.run = card.run /\ e.conn = card.conn
    BY <1>1 DEF But, Fields
  <1>5. \A t \in Streams : t # s /\ e.count[t] = 0 => NoStream(e, t)
    <2>1. \A t \in Streams : t \in Counters /\ card.count[t] \in Int
      BY <1>0 DEF Cards, Counters
    <2> QED BY <1>0, <1>1, <1>4, <2>1 DEF OxfwUnused, NoStream
  <1>6. OxfwSound(e)
    BY <1>1, <1>4, OxfwInOrder
  <1>7. LET d == OxfwStopSimplex(e, s) IN Keeps(d, e) /\ OxfwSound(d) /\ OxfwUnused(d)
    BY <1>1, <1>5, <1>6, OxfwStopsSimplex
  <1>8. Whole(OxfwStopSimplex(e, s), e)
    BY <1>1, <1>4, <1>7, OxfwInOrder
  <1> QED BY <1>0, <1>3, <1>8, ClosesMidi DEF e

\* prepare
LEMMA OxfwPrepares ==
  ASSUME InOrder(card), card.driver = "oxfw", NEW s \in Streams, OxfwPcmPrepare(s)
  PROVE  Serves(card', card)
  <1> DEFINE start == OxfwStartSimplex(card, s, card.want[s])
  <1>0. card \in Cards /\ KeyOf(card, s) = s /\ s \in Counters
        /\ OxfwSound(card) /\ OxfwUnused(card)
    BY TidyIsCard, OxfwInOrder DEF InOrder, Counters
  <1>1. card.pcm[s] \notin {"closed", "open"} /\ Prepared(s, start)
    BY DEF OxfwPcmPrepare, MayPrepare
  <1>2. card.count[s] > 0 /\ card.want[s] \in Rates /\ card.count[s] \in Int
    BY <1>0, <1>1, PcmIsCounted DEF Cards
  <1>3. card.want[s] # AnyRate
    BY <1>2, DuplexAssumption
  <1>4. \A o \in start :
           /\ OxfwReached(o, card)
           /\ o.ok /\ card.count[s] # 0 =>
                /\ o.card.run[s] /\ ~o.card.dead[s]
                /\ s = "rx" /\ card.want[s] # AnyRate => o.card.rate["rx"] = card.want[s]
    BY <1>0, <1>2, OxfwStartsSimplex
  <1> HIDE DEF start
  <1>5. ASSUME NEW o \in start
        PROVE  o.ok \in BOOLEAN /\ Whole(o.card, card) /\ (o.ok => StartedAt(o.card, card, s))
    <2>1. o.ok \in BOOLEAN /\ Whole(o.card, card)
      BY <1>0, <1>4, <1>5, OxfwInOrder DEF OxfwReached
    <2>2. card.count[s] # 0
      BY <1>2
    <2>3. o.ok => StartedAt(o.card, card, s)
      BY <1>3, <1>4, <1>5, <2>2 DEF StartedAt, Streams
    <2> QED BY <2>1, <2>3
  <1>6. Starts(start, card, s)
    BY <1>5 DEF Starts
  <1> QED BY <1>1, <1>6, Prepares

\* MIDI open
LEMMA OxfwOpensMidi ==
  ASSUME InOrder(card), card.driver = "oxfw", NEW s \in Streams, OxfwMidiOpen(s)
  PROVE  Serves(card', card)
  <1>0. card \in Cards /\ KeyOf(card, s) = s /\ s \in Counters
    BY TidyIsCard, OxfwInOrder DEF InOrder, Counters
  <1>1. /\ card.life \notin {"absent", "deferred"}
        /\ s \notin card.midi /\ <<"midi", s>> \notin card.waiting
    BY DEF OxfwMidiOpen, MayOpenMidi, Usable, Idle
  <1>2. PICK o \in LockTry(card) :
          o.ok /\ MidiOpened(s, s, OxfwStartSimplex(Inc(o.card, s), s, AnyRate))
    BY DEF OxfwMidiOpen
  <1>3. card.lock >= 0 /\ o.card = [card EXCEPT !.lock = @ + 1]
    BY <1>0, <1>2, LockTried
  <1> DEFINE e == Inc([card EXCEPT !.lock = @ + 1], s)
             start == OxfwStartSimplex(e, s, AnyRate)
  <1>4. Lent(e, card, s) /\ But(e, card, {"lock", "count"})
    BY <1>0, <1>1, <1>3, LentFresh
  <1>5. MidiOpened(s, s, start)
    BY <1>2, <1>3
  <1> HIDE DEF e
  <1>6. e \in Cards /\ Sound(e) /\ Unused(e)
    BY <1>0, <1>4, LentIsSound
  <1>7. e.driver = "oxfw"
    BY <1>4 DEF But, Fields
  <1>8. OxfwSound(e) /\ OxfwUnused(e)
    BY <1>6, <1>7, OxfwInOrder
  <1>9. \A o1 \in start : OxfwReached(o1, e)
    BY <1>6, <1>8, OxfwStartsSimplex
  <1> HIDE DEF start
  <1>10. \A o1 \in start : o1.ok \in BOOLEAN /\ Whole(o1.card, e)
    BY <1>6, <1>7, <1>9, OxfwInOrder DEF OxfwReached
  <1> QED BY <1>0, <1>1, <1>4, <1>5, <1>10, OpensMidi

\* pcm_open() of OXFW and of Digi 00x, which may leave the lock taken
LEMMA OpensOrLeaves ==
  ASSUME InOrder(card), Usable, NEW s \in Streams, card.pcm[s] = "closed",
         card.driver \in {"oxfw", "digi"}, NEW o \in LockTry(card), o.ok,
         \/ \E limited \in BOOLEAN : card' = OpenPcm(o.card, s, limited)
         \/ LeaveLocked(o.card)
  PROVE  Serves(card', card)
  <1>0. card \in Cards
    BY TidyIsCard
  <1>1. card.lock >= 0 /\ o.card = [card EXCEPT !.lock = @ + 1]
    BY <1>0, LockTried
  <1>2. ASSUME NEW limited \in BOOLEAN, card' = OpenPcm(o.card, s, limited)
        PROVE  Serves(card', card)
    BY <1>2, OpensPcm
  <1>3. CASE LeaveLocked(o.card)
    <2>1. card' = [o.card EXCEPT !.lockLost = @ + 1]
      BY <1>3 DEF LeaveLocked
    <2>2. InOrder(card')
      BY <1>0, <1>1, <2>1, OpenedInVain DEF Usable
    <2>3. card'.pcm = card.pcm
      BY <1>0, <1>1, <2>1 DEF Cards
    <2> QED BY <2>2, <2>3, NoneReadied DEF Serves
  <1> QED BY <1>2, <1>3

LEMMA OxfwOpensPcm ==
  ASSUME InOrder(card), card.driver = "oxfw", NEW s \in Streams, OxfwPcmOpen(s)
  PROVE  Serves(card', card)
  <1>1. PcmRunning(card) \in BOOLEAN
    BY DEF PcmRunning
  <1> QED BY <1>1, OpensOrLeaves DEF OxfwPcmOpen

LEMMA DigiOpensPcm ==
  ASSUME InOrder(card), card.driver = "digi", NEW s \in Streams, DigiPcmOpen(s)
  PROVE  Serves(card', card)
  <1>1. \A external \in BOOLEAN : (external \/ PcmRunning(card)) \in BOOLEAN
    BY DEF PcmRunning
  <1> QED BY <1>1, OpensOrLeaves DEF DigiPcmOpen

\* The card is given up, or freed.
LEMMA Quits ==
  ASSUME NEW c, InOrder(c), c.life # "freed", \A s \in Streams : Uses(c, s) = 0,
         NEW e, But(e, c, {"inited"}), NEW f, Warns(f, e)
  PROVE  Serves([f EXCEPT !.life = "freed"], c)
  <1>0. c \in Cards
    BY TidyIsCard
  <1>1. InOrder([f EXCEPT !.life = "freed"])
    BY <1>0, Ends
  <1>2. f \in Cards /\ f.pcm = e.pcm /\ e.pcm = c.pcm
    BY DEF Warns, But, Fields
  <1>3. [f EXCEPT !.life = "freed"].pcm = f.pcm
    BY <1>2 DEF Cards
  <1> QED BY <1>1, <1>2, <1>3, NoneReadied DEF Serves

\* The card is registered, now or later.
LEMMA Enters ==
  ASSUME NEW c, InOrder(c), c.life \in {"absent", "deferred"}, NEW l,
         l = "live" \/ (l = "deferred" /\ c.driver = "maudio"),
         NEW e, But(e, c, {"inited"})
  PROVE  Serves([e EXCEPT !.life = l], c)
  <1>0. c \in Cards
    BY TidyIsCard
  <1>1. InOrder([e EXCEPT !.life = l])
    BY <1>0, Registered
  <1>2. e \in Cards /\ e.pcm = c.pcm
    BY DEF But, Fields
  <1>3. [e EXCEPT !.life = l].pcm = e.pcm
    BY <1>2 DEF Cards
  <1> QED BY <1>1, <1>2, <1>3, NoneReadied DEF Serves

\* A probe: free(c) is what becomes of a card that is given up.
LEMMA Probes ==
  ASSUME InOrder(card), card.life = "absent", NEW l,
         l = "live" \/ (l = "deferred" /\ card.driver = "maudio"),
         NEW f, Warns(f, card), NEW g, Warns(g, [card EXCEPT !.inited = TRUE]),
         card' \in {[[card EXCEPT !.inited = TRUE] EXCEPT !.life = l],
                    [f EXCEPT !.life = "freed"], [g EXCEPT !.life = "freed"]}
  PROVE  Serves(card', card)
  <1> DEFINE e == [card EXCEPT !.inited = TRUE]
  <1>0. card \in Cards /\ Tidy(card)
    BY TidyIsCard DEF InOrder
  <1>1. But(card, card, {"inited"}) /\ But(e, card, {"inited"})
    BY <1>0, Uninitialised
  <1>2. \A s \in Streams : Uses(card, s) = 0
    BY <1>0, UnbornIsIdle
  <1>3. Warns(g, e) /\ card' \in {[e EXCEPT !.life = l], [f EXCEPT !.life = "freed"],
                                  [g EXCEPT !.life = "freed"]}
    OBVIOUS
  <1> HIDE DEF e
  <1>4. Serves([e EXCEPT !.life = l], card)
    BY <1>1, Enters
  <1>5. Serves([f EXCEPT !.life = "freed"], card)
    BY <1>1, <1>2, Quits
  <1>6. Serves([g EXCEPT !.life = "freed"], card)
    BY <1>1, <1>2, <1>3, Quits
  <1> QED BY <1>3, <1>4, <1>5, <1>6

\* private_free
LEMMA Frees ==
  ASSUME InOrder(card), MayFree, NEW f, Warns(f, card), card' = [f EXCEPT !.life = "freed"]
  PROVE  Serves(card', card)
  <1>0. card \in Cards
    BY TidyIsCard
  <1>1. But(card, card, {"inited"})
    BY <1>0, Uninitialised
  <1> QED BY <1>1, FreeIsIdle, Quits

\* The streams are destroyed.
LEMMA OxfwDestroys ==
  ASSUME NEW c \in Cards
  PROVE  Warns(OxfwDestroyStreams(c), c)
  <1>0. "tx" \in Streams /\ "rx" \in Streams
    BY DEF Streams
  <1>1. Warns(Destroy(c, "rx"), c) /\ Warns(Destroy(Destroy(c, "tx"), "rx"), c)
    BY <1>0, Destroyed, DestroyedBoth
  <1> QED BY <1>1 DEF OxfwDestroyStreams

\* The probe
LEMMA OxfwProbes ==
  ASSUME InOrder(card), OxfwProbe
  PROVE  Serves(card', card)
  <1> DEFINE e == [card EXCEPT !.inited = TRUE]
             f == OxfwDestroyStreams(card)
             g == OxfwDestroyStreams(OxfwDestroyStreams(e))
  <1>0. card \in Cards /\ e \in Cards
    BY TidyIsCard, Uninitialised DEF But
  <1>1. Warns(f, card)
    BY <1>0, OxfwDestroys
  <1>2. Warns(g, e)
    <2> DEFINE h == OxfwDestroyStreams(e)
    <2>1. Warns(h, e)
      BY <1>0, OxfwDestroys
    <2>2. h \in Cards
      BY <2>1 DEF Warns, But
    <2>3. Warns(OxfwDestroyStreams(h), h)
      BY <2>2, OxfwDestroys
    <2> QED BY <2>1, <2>3, WarnsTrans
  <1>3. card.life = "absent"
        /\ card' \in {[e EXCEPT !.life = "live"], [f EXCEPT !.life = "freed"],
                      [g EXCEPT !.life = "freed"]}
    BY DEF OxfwProbe, OxfwCardFree
  <1> HIDE DEF f, g
  <1> QED BY <1>1, <1>2, <1>3, Probes

\* private_free
LEMMA OxfwFreesCard ==
  ASSUME InOrder(card), OxfwReleased
  PROVE  Serves(card', card)
  <1>1. Warns(OxfwDestroyStreams(card), card)
    BY TidyIsCard, OxfwDestroys
  <1> QED BY <1>1, Frees DEF OxfwReleased, OxfwCardFree

\* The bus reset
LEMMA OxfwResets ==
  ASSUME InOrder(card), card.driver = "oxfw", OxfwBusReset
  PROVE  Serves(card', card)
  <1>0. card \in Cards /\ OxfwSound(card) /\ OxfwUnused(card)
    BY TidyIsCard, OxfwInOrder DEF InOrder
  <1>1. PICK c \in OxfwUpdateSimplex(card, "rx") :
          card' \in IF "tx" \in card.dirs THEN OxfwUpdateSimplex(c, "tx") ELSE {c}
    BY DEF OxfwBusReset
  <1>2. "tx" \in Streams /\ "rx" \in Streams
    BY DEF Streams
  <1>3. Keeps(c, card) /\ OxfwSound(c) /\ OxfwUnused(c)
    BY <1>0, <1>2, OxfwUpdates
  <1>4. Keeps(card', card) /\ OxfwSound(card') /\ OxfwUnused(card')
    <2>1. CASE card' = c
      BY <2>1, <1>3
    <2>2. CASE card' \in OxfwUpdateSimplex(c, "tx")
      <3>1. c \in Cards
        BY <1>3 DEF Keeps
      <3>2. Keeps(card', c) /\ OxfwSound(card') /\ OxfwUnused(card')
        BY <1>2, <1>3, <2>2, <3>1, OxfwUpdates
      <3> QED BY <1>3, <3>2, KeepsTrans
    <2> QED BY <1>1, <2>1, <2>2
  <1>5. Whole(card', card)
    BY <1>0, <1>4, OxfwInOrder
  <1> QED BY <1>5, PassesOn

\* Every step
LEMMA OxfwSteps ==
  ASSUME InOrder(card), card.driver = "oxfw", OxfwStep
  PROVE  Serves(card', card)
  <1>0. card \in Cards /\ \A s : KeyOf(card, s) = s
    BY TidyIsCard, OxfwInOrder
  <1>1. ASSUME NEW s \in Streams,
               \/ OxfwPcmOpen(s) \/ OxfwPcmClose(s) \/ OxfwPcmHwParams(s)
               \/ OxfwPcmHwFree(s) \/ OxfwPcmPrepare(s)
        PROVE  Serves(card', card)
    <2>1. CASE OxfwPcmOpen(s)
      BY <2>1, OxfwOpensPcm
    <2>2. CASE OxfwPcmClose(s)
      BY <2>2, ClosesPcm DEF OxfwPcmClose
    <2>3. CASE OxfwPcmHwParams(s)
      BY <1>0, <2>3, SetsParams DEF OxfwPcmHwParams
    <2>4. CASE OxfwPcmHwFree(s)
      BY <2>4, OxfwFrees
    <2>5. CASE OxfwPcmPrepare(s)
      BY <2>5, OxfwPrepares
    <2> QED BY <1>1, <2>1, <2>2, <2>3, <2>4, <2>5
  <1>2. ASSUME NEW s \in Streams,
               \/ OxfwPcmTrigger(s) \/ OxfwMidiOpen(s) \/ OxfwMidiClose(s) \/ OxfwPacketError(s)
        PROVE  Serves(card', card)
    <2>1. CASE OxfwPcmTrigger(s)
      BY <2>1, Triggers DEF OxfwPcmTrigger
    <2>2. CASE OxfwMidiOpen(s)
      BY <2>2, OxfwOpensMidi
    <2>3. CASE OxfwMidiClose(s)
      BY <2>3, OxfwClosesMidi
    <2>4. CASE OxfwPacketError(s)
      <3>1. card.driver \notin BebobDrivers
        BY DEF BebobDrivers
      <3> QED BY <2>4, <3>1, Errs DEF OxfwPacketError
    <2> QED BY <1>2, <2>1, <2>2, <2>3, <2>4
  <1>3. CASE OxfwHwdepLock \/ OxfwHwdepUnlock
    BY <1>3, Locks DEF OxfwHwdepLock, OxfwHwdepUnlock
  <1>4. CASE OxfwProbe
    BY <1>4, OxfwProbes
  <1>5. CASE OxfwBusReset
    BY <1>5, OxfwResets
  <1>6. CASE OxfwRemove
    BY <1>6, Leaves DEF OxfwRemove, Unplug, Usable
  <1>7. CASE OxfwReleased
    BY <1>7, OxfwFreesCard
  <1> QED BY <1>1, <1>2, <1>3, <1>4, <1>5, <1>6, <1>7 DEF OxfwStep

----------------------------------------------------------------------------
(* The steps of Digi 00x *)

\* What order is for this driver
LEMMA DigiInOrder ==
  ASSUME NEW c, c.driver = "digi"
  PROVE  /\ Sound(c) <=> DigiSound(c)
         /\ Unused(c) <=> DuplexUnused(c)
         /\ \A s : KeyOf(c, s) = s
         /\ \A d : Keeps(d, c) /\ DigiSound(d) /\ DuplexUnused(d) /\ c \in Cards => Whole(d, c)
  <1>1. Sound(c) <=> DigiSound(c)
    BY DEF Sound, BebobDrivers
  <1>2. Unused(c) <=> DuplexUnused(c)
    BY DEF Unused, BebobDrivers
  <1>3. \A s : KeyOf(c, s) = s
    BY DEF KeyOf
  <1>4. ASSUME NEW d, Keeps(d, c), DigiSound(d), DuplexUnused(d), c \in Cards
        PROVE  Whole(d, c)
    <2>1. d.driver = "digi"
      BY <1>4, KeepsFields
    <2>2. Sound(d) /\ Unused(d)
      BY <1>4, <2>1 DEF Sound, Unused, BebobDrivers
    <2> QED BY <1>4, <2>2 DEF Whole
  <1> QED BY <1>1, <1>2, <1>3, <1>4

\* hw_free
LEMMA DigiFrees ==
  ASSUME InOrder(card), card.driver = "digi", NEW s \in Streams, DigiPcmHwFree(s)
  PROVE  Serves(card', card)
  <1> DEFINE e == Dec(card, s)
  <1>0. card \in Cards /\ KeyOf(card, s) = s /\ s \in Counters /\ Sound(card)
    BY TidyIsCard, DigiInOrder DEF InOrder, Counters
  <1>1. e \in Cards /\ Sound(e)
    BY <1>0, StoppableByPcm
  <1>2. But(e, card, {"count"})
    BY <1>0, DecFields
  <1>3. HwFree(s, DigiStopDuplex(e))
    BY DEF DigiPcmHwFree
  <1> HIDE DEF e
  <1>4. e.driver = "digi"
    BY <1>2 DEF But, Fields
  <1>5. DigiSound(e)
    BY <1>1, <1>4, DigiInOrder
  <1>6. LET d == DigiStopDuplex(e) IN Keeps(d, e) /\ DigiSound(d) /\ DuplexUnused(d)
    BY <1>1, <1>5, DigiStopsDuplex
  <1>7. Whole(DigiStopDuplex(e), e)
    BY <1>1, <1>4, <1>6, DigiInOrder
  <1> QED BY <1>0, <1>3, <1>7, FreesParams DEF e

\* MIDI close
LEMMA DigiClosesMidi ==
  ASSUME InOrder(card), card.driver = "digi", NEW s \in Streams, DigiMidiClose(s)
  PROVE  Serves(card', card)
  <1> DEFINE e == MidiGone(s, s)
  <1>0. card \in Cards /\ KeyOf(card, s) = s /\ s \in Counters /\ Sound(card)
    BY TidyIsCard, DigiInOrder DEF InOrder, Counters
  <1>1. e \in Cards /\ Sound(e) /\ But(e, card, {"count", "midi"})
    BY <1>0, StoppableByMidi
  <1>2. CloseMidi(s, DigiStopDuplex(e))
    BY DEF DigiMidiClose
  <1> HIDE DEF e
  <1>3. e.driver = "digi"
    BY <1>1 DEF But, Fields
  <1>4. DigiSound(e)
    BY <1>1, <1>3, DigiInOrder
  <1>5. LET d == DigiStopDuplex(e) IN Keeps(d, e) /\ DigiSound(d) /\ DuplexUnused(d)
    BY <1>1, <1>4, DigiStopsDuplex
  <1>6. Whole(DigiStopDuplex(e), e)
    BY <1>1, <1>3, <1>5, DigiInOrder
  <1> QED BY <1>0, <1>2, <1>6, ClosesMidi DEF e

\* prepare
LEMMA DigiPrepares ==
  ASSUME InOrder(card), card.driver = "digi", NEW s \in Streams, DigiPcmPrepare(s)
  PROVE  Serves(card', card)
  <1> DEFINE start == DigiStartDuplex(card, card.want[s])
  <1>0. card \in Cards /\ KeyOf(card, s) = s /\ DigiSound(card) /\ DuplexUnused(card)
    BY TidyIsCard, DigiInOrder DEF InOrder
  <1>1. card.pcm[s] \notin {"closed", "open"} /\ Prepared(s, start)
    BY DEF DigiPcmPrepare, MayPrepare
  <1>2. card.count[s] > 0 /\ card.want[s] \in Rates /\ card.want[s] # AnyRate
    BY <1>0, <1>1, PcmIsCounted, DuplexAssumption
  <1>3. \A o \in start :
          /\ o.ok \in BOOLEAN /\ Keeps(o.card, card) /\ DigiSound(o.card)
          /\ DuplexUnused(o.card)
          /\ o.ok => \A t \in Streams :
                       card.count[t] > 0 =>
                         /\ o.card.run[t] /\ ~o.card.dead[t]
                         /\ card.want[s] # AnyRate => o.card.rate[t] = card.want[s]
    BY <1>0, <1>2, DigiStartsDuplex
  <1> HIDE DEF start
  <1>4. ASSUME NEW o \in start
        PROVE  o.ok \in BOOLEAN /\ Whole(o.card, card) /\ (o.ok => StartedAt(o.card, card, s))
    <2>1. o.ok \in BOOLEAN /\ Whole(o.card, card)
      BY <1>0, <1>3, <1>4, DigiInOrder
    <2>2. o.ok => StartedAt(o.card, card, s)
      BY <1>2, <1>3, <1>4 DEF StartedAt
    <2> QED BY <2>1, <2>2
  <1>5. Starts(start, card, s)
    BY <1>4 DEF Starts
  <1> QED BY <1>1, <1>5, Prepares

\* MIDI open
LEMMA DigiOpensMidi ==
  ASSUME InOrder(card), card.driver = "digi", NEW s \in Streams, DigiMidiOpen(s)
  PROVE  Serves(card', card)
  <1>0. card \in Cards /\ KeyOf(card, s) = s
    BY TidyIsCard, DigiInOrder
  <1>1. /\ card.life \notin {"absent", "deferred"}
        /\ s \notin card.midi /\ <<"midi", s>> \notin card.waiting
    BY DEF DigiMidiOpen, MayOpenMidi, Usable, Idle
  <1>2. PICK o \in LockTry(card) :
          o.ok /\ MidiOpened(s, s, DigiStartDuplex(Inc(o.card, s), AnyRate))
    BY DEF DigiMidiOpen
  <1>3. card.lock >= 0 /\ o.card = [card EXCEPT !.lock = @ + 1]
    BY <1>0, <1>2, LockTried
  <1> DEFINE e == Inc([card EXCEPT !.lock = @ + 1], s)
             start == DigiStartDuplex(e, AnyRate)
  <1>4. Lent(e, card, s) /\ But(e, card, {"lock", "count"})
    BY <1>0, <1>1, <1>3, LentFresh
  <1>5. MidiOpened(s, s, start)
    BY <1>2, <1>3
  <1> HIDE DEF e
  <1>6. e \in Cards /\ Sound(e) /\ Unused(e)
    BY <1>0, <1>4, LentIsSound
  <1>7. e.driver = "digi"
    BY <1>4 DEF But, Fields
  <1>8. DigiSound(e) /\ DuplexUnused(e)
    BY <1>6, <1>7, DigiInOrder
  <1>9. \A o1 \in start : /\ o1.ok \in BOOLEAN /\ Keeps(o1.card, e) /\ DigiSound(o1.card)
                          /\ DuplexUnused(o1.card)
    BY <1>6, <1>8, DigiStartsDuplex
  <1> HIDE DEF start
  <1>10. \A o1 \in start : o1.ok \in BOOLEAN /\ Whole(o1.card, e)
    BY <1>6, <1>7, <1>9, DigiInOrder
  <1> QED BY <1>0, <1>1, <1>4, <1>5, <1>10, OpensMidi

\* pcm_open() of BeBoB, Digi 00x and Dice
LEMMA OpensFreely ==
  ASSUME InOrder(card), NEW s \in Streams, Usable, card.pcm[s] = "closed",
         \E o \in LockTry(card), external \in BOOLEAN :
           o.ok /\ card' = OpenPcm(o.card, s, external \/ PcmRunning(card))
  PROVE  Serves(card', card)
  <1>1. PICK o \in LockTry(card), external \in BOOLEAN :
          o.ok /\ card' = OpenPcm(o.card, s, external \/ PcmRunning(card))
    OBVIOUS
  <1>2. (external \/ PcmRunning(card)) \in BOOLEAN
    OBVIOUS
  <1> QED BY <1>1, <1>2, OpensPcm

\* The probe
LEMMA DigiProbes ==
  ASSUME InOrder(card), DigiProbe
  PROVE  Serves(card', card)
  <1> DEFINE e == [card EXCEPT !.inited = TRUE]
             f == Destroy(Destroy(card, "rx"), "tx")
             g == Destroy(Destroy(e, "rx"), "tx")
  <1>0. card \in Cards /\ e \in Cards /\ "tx" \in Streams /\ "rx" \in Streams
    BY TidyIsCard, Uninitialised DEF But, Streams
  <1>1. Warns(f, card) /\ Warns(g, e)
    <2> HIDE DEF e
    <2> QED BY <1>0, DestroyedBoth
  <1>2. card.life = "absent"
        /\ card' \in {[e EXCEPT !.life = "live"], [f EXCEPT !.life = "freed"],
                      [g EXCEPT !.life = "freed"]}
    BY DEF DigiProbe, DigiCardFree
  <1> HIDE DEF f, g
  <1> QED BY <1>1, <1>2, Probes

\* private_free
LEMMA DigiFreesCard ==
  ASSUME InOrder(card), DigiReleased
  PROVE  Serves(card', card)
  <1>1. Warns(Destroy(Destroy(card, "rx"), "tx"), card)
    BY TidyIsCard, DestroyedBoth DEF Streams
  <1> QED BY <1>1, Frees DEF DigiReleased, DigiCardFree

\* The bus reset
LEMMA DigiResets ==
  ASSUME InOrder(card), card.driver = "digi", DigiUpdate
  PROVE  Serves(card', card)
  <1>0. card \in Cards /\ DigiSound(card) /\ DuplexUnused(card)
    BY TidyIsCard, DigiInOrder DEF InOrder
  <1>1. PICK o \in Reconnect(card, "tx") : \E p \in Reconnect(o.card, "rx") : card' = p.card
    BY DEF DigiUpdate
  <1>2. "tx" \in Streams /\ "rx" \in Streams
    BY DEF Streams
  <1>3. Keeps(o.card, card) /\ DigiSound(o.card) /\ DuplexUnused(o.card)
    BY <1>0, <1>2, DigiUpdates
  <1>4. Keeps(card', o.card) /\ DigiSound(card') /\ DuplexUnused(card')
    <2>1. o.card \in Cards
      BY <1>3 DEF Keeps
    <2> QED BY <1>1, <1>2, <1>3, <2>1, DigiUpdates
  <1>5. Keeps(card', card)
    BY <1>3, <1>4, KeepsTrans
  <1>6. Whole(card', card)
    BY <1>0, <1>4, <1>5, DigiInOrder
  <1> QED BY <1>6, PassesOn

\* Every step
LEMMA DigiSteps ==
  ASSUME InOrder(card), card.driver = "digi", DigiStep
  PROVE  Serves(card', card)
  <1>0. card \in Cards /\ \A s : KeyOf(card, s) = s
    BY TidyIsCard, DigiInOrder
  <1>1. ASSUME NEW s \in Streams,
               \/ DigiPcmOpen(s) \/ DigiPcmClose(s) \/ DigiPcmHwParams(s)
               \/ DigiPcmHwFree(s) \/ DigiPcmPrepare(s)
        PROVE  Serves(card', card)
    <2>1. CASE DigiPcmOpen(s)
      BY <2>1, DigiOpensPcm
    <2>2. CASE DigiPcmClose(s)
      BY <2>2, ClosesPcm DEF DigiPcmClose
    <2>3. CASE DigiPcmHwParams(s)
      BY <1>0, <2>3, SetsParams DEF DigiPcmHwParams
    <2>4. CASE DigiPcmHwFree(s)
      BY <2>4, DigiFrees
    <2>5. CASE DigiPcmPrepare(s)
      BY <2>5, DigiPrepares
    <2> QED BY <1>1, <2>1, <2>2, <2>3, <2>4, <2>5
  <1>2. ASSUME NEW s \in Streams,
               \/ DigiPcmTrigger(s) \/ DigiMidiOpen(s) \/ DigiMidiClose(s) \/ DigiPacketError(s)
        PROVE  Serves(card', card)
    <2>1. CASE DigiPcmTrigger(s)
      BY <2>1, Triggers DEF DigiPcmTrigger
    <2>2. CASE DigiMidiOpen(s)
      BY <2>2, DigiOpensMidi
    <2>3. CASE DigiMidiClose(s)
      BY <2>3, DigiClosesMidi
    <2>4. CASE DigiPacketError(s)
      <3>1. card.driver \notin BebobDrivers
        BY DEF BebobDrivers
      <3> QED BY <2>4, <3>1, Errs DEF DigiPacketError
    <2> QED BY <1>2, <2>1, <2>2, <2>3, <2>4
  <1>3. CASE DigiHwdepLock \/ DigiHwdepUnlock
    BY <1>3, Locks DEF DigiHwdepLock, DigiHwdepUnlock
  <1>4. CASE DigiProbe
    BY <1>4, DigiProbes
  <1>5. CASE DigiUpdate
    BY <1>5, DigiResets
  <1>6. CASE DigiRemove
    BY <1>6, Leaves DEF DigiRemove, Unplug, Usable
  <1>7. CASE DigiReleased
    BY <1>7, DigiFreesCard
  <1> QED BY <1>1, <1>2, <1>3, <1>4, <1>5, <1>6, <1>7 DEF DigiStep

----------------------------------------------------------------------------
(* The steps of Dice *)

\* What order is for this driver
LEMMA DiceInOrder ==
  ASSUME NEW c, c.driver = "dice"
  PROVE  /\ Sound(c) <=> DiceSound(c)
         /\ Unused(c) <=> DiceUnused(c)
         /\ \A s : KeyOf(c, s) = "both"
         /\ \A d : Keeps(d, c) /\ DiceSound(d) /\ DiceUnused(d) /\ c \in Cards => Whole(d, c)
  <1>1. Sound(c) <=> DiceSound(c)
    BY DEF Sound, BebobDrivers
  <1>2. Unused(c) <=> DiceUnused(c)
    BY DEF Unused, BebobDrivers
  <1>3. \A s : KeyOf(c, s) = "both"
    BY DEF KeyOf
  <1>4. ASSUME NEW d, Keeps(d, c), DiceSound(d), DiceUnused(d), c \in Cards
        PROVE  Whole(d, c)
    <2>1. d.driver = "dice"
      BY <1>4, KeepsFields
    <2>2. Sound(d) /\ Unused(d)
      BY <1>4, <2>1 DEF Sound, Unused, BebobDrivers
    <2> QED BY <1>4, <2>2 DEF Whole
  <1> QED BY <1>1, <1>2, <1>3, <1>4

\* hw_free
LEMMA DiceFrees ==
  ASSUME InOrder(card), card.driver = "dice", NEW s \in Streams, DicePcmHwFree(s)
  PROVE  Serves(card', card)
  <1> DEFINE e == Dec(card, "both")
  <1>0. card \in Cards /\ KeyOf(card, s) = "both" /\ "both" \in Counters /\ Sound(card)
    BY TidyIsCard, DiceInOrder DEF InOrder, Counters
  <1>1. e \in Cards /\ Sound(e)
    BY <1>0, StoppableByPcm
  <1>2. But(e, card, {"count"})
    BY <1>0, DecFields
  <1>3. HwFree(s, DiceStopDuplex(e))
    BY DEF DicePcmHwFree
  <1> HIDE DEF e
  <1>4. e.driver = "dice"
    BY <1>2 DEF But, Fields
  <1>5. DiceSound(e)
    BY <1>1, <1>4, DiceInOrder
  <1>6. LET d == DiceStopDuplex(e) IN Keeps(d, e) /\ DiceSound(d) /\ DiceUnused(d)
    BY <1>1, <1>5, DiceStopsDuplex
  <1>7. Whole(DiceStopDuplex(e), e)
    BY <1>1, <1>4, <1>6, DiceInOrder
  <1> QED BY <1>0, <1>3, <1>7, FreesParams DEF e

\* MIDI close
LEMMA DiceClosesMidi ==
  ASSUME InOrder(card), card.driver = "dice", NEW s \in Streams, DiceMidiClose(s)
  PROVE  Serves(card', card)
  <1> DEFINE e == MidiGone(s, "both")
  <1>0. card \in Cards /\ KeyOf(card, s) = "both" /\ "both" \in Counters /\ Sound(card)
    BY TidyIsCard, DiceInOrder DEF InOrder, Counters
  <1>1. e \in Cards /\ Sound(e) /\ But(e, card, {"count", "midi"})
    BY <1>0, StoppableByMidi
  <1>2. CloseMidi(s, DiceStopDuplex(e))
    BY DEF DiceMidiClose
  <1> HIDE DEF e
  <1>3. e.driver = "dice"
    BY <1>1 DEF But, Fields
  <1>4. DiceSound(e)
    BY <1>1, <1>3, DiceInOrder
  <1>5. LET d == DiceStopDuplex(e) IN Keeps(d, e) /\ DiceSound(d) /\ DiceUnused(d)
    BY <1>1, <1>4, DiceStopsDuplex
  <1>6. Whole(DiceStopDuplex(e), e)
    BY <1>1, <1>3, <1>5, DiceInOrder
  <1> QED BY <1>0, <1>2, <1>6, ClosesMidi DEF e

\* prepare
LEMMA DicePrepares ==
  ASSUME InOrder(card), card.driver = "dice", NEW s \in Streams, DicePcmPrepare(s)
  PROVE  Serves(card', card)
  <1> DEFINE start == DiceStartDuplex(card, card.want[s])
             told == IF s = "tx" THEN UNION {Good(o.card) : o \in start} ELSE start
  <1>0. card \in Cards /\ KeyOf(card, s) = "both" /\ DiceSound(card) /\ DiceUnused(card)
    BY TidyIsCard, DiceInOrder DEF InOrder
  <1>1. card.pcm[s] \notin {"closed", "open"} /\ Prepared(s, told)
    BY DEF DicePcmPrepare, MayPrepare
  <1>2. card.count["both"] > 0 /\ card.want[s] \in Rates /\ card.want[s] # AnyRate
        /\ card.count["both"] \in Int
    BY <1>0, <1>1, PcmIsCounted, DuplexAssumption DEF Cards, Counters
  <1>3. \A o \in start :
          /\ DiceReached(o, card)
          /\ DiceUnused(card) => DiceUnused(o.card)
          /\ o.ok /\ card.count["both"] # 0 =>
               \A t \in Streams :
                 /\ o.card.run[t] /\ ~o.card.dead[t]
                 /\ card.want[s] # AnyRate => o.card.rate[t] = card.want[s]
    BY <1>0, <1>2, DiceStartsDuplex
  <1> HIDE DEF start
  <1>4. \A o \in start : o.ok \in BOOLEAN /\ Whole(o.card, card)
    BY <1>0, <1>3, DiceInOrder DEF DiceReached
  <1>5. CASE s = "tx"
    <2>1. \A o \in told : o.ok \in BOOLEAN /\ Whole(o.card, card)
      <3>1. \A o \in told : \E p \in start : o \in Good(p.card)
        BY <1>5
      <3>2. \A o \in told : \E p \in start : o.ok = TRUE /\ o.card = p.card
        <4> HIDE DEF told
        <4> QED BY <3>1, Outcomes
      <3> HIDE DEF told
      <3> QED BY <1>4, <3>2
    <2> HIDE DEF told
    <2>2. \A o \in told : StartedAt(o.card, card, s)
      BY <1>5 DEF StartedAt
    <2>3. Starts(told, card, s)
      BY <2>1, <2>2 DEF Starts
    <2> QED BY <1>1, <2>3, Prepares
  <1>6. CASE s # "tx"
    <2>1. told = start
      BY <1>6
    <2>2. card.count["both"] # 0
      BY <1>2
    <2>3. \A o \in start : o.ok => StartedAt(o.card, card, s)
      BY <1>2, <1>3, <2>2 DEF StartedAt
    <2>4. Starts(start, card, s)
      BY <1>4, <2>3 DEF Starts
    <2> QED BY <1>1, <2>1, <2>4, Prepares
  <1> QED BY <1>5, <1>6

\* MIDI open
LEMMA DiceOpensMidi ==
  ASSUME InOrder(card), card.driver = "dice", NEW s \in Streams, DiceMidiOpen(s)
  PROVE  Serves(card', card)
  <1>0. card \in Cards /\ KeyOf(card, s) = "both"
    BY TidyIsCard, DiceInOrder
  <1>1. /\ card.life \notin {"absent", "deferred"}
        /\ s \notin card.midi /\ <<"midi", s>> \notin card.waiting
    BY DEF DiceMidiOpen, MayOpenMidi, Usable, Idle
  <1>2. PICK o \in LockTry(card) :
          o.ok /\ MidiOpened(s, "both", DiceStartDuplex(Inc(o.card, "both"), AnyRate))
    BY DEF DiceMidiOpen
  <1>3. card.lock >= 0 /\ o.card = [card EXCEPT !.lock = @ + 1]
    BY <1>0, <1>2, LockTried
  <1> DEFINE e == Inc([card EXCEPT !.lock = @ + 1], "both")
             start == DiceStartDuplex(e, AnyRate)
  <1>4. Lent(e, card, s) /\ But(e, card, {"lock", "count"})
    BY <1>0, <1>1, <1>3, LentFresh
  <1>5. MidiOpened(s, "both", start)
    BY <1>2, <1>3
  <1> HIDE DEF e
  <1>6. e \in Cards /\ Sound(e) /\ Unused(e)
    BY <1>0, <1>4, LentIsSound
  <1>7. e.driver = "dice"
    BY <1>4 DEF But, Fields
  <1>8. DiceSound(e) /\ DiceUnused(e)
    BY <1>6, <1>7, DiceInOrder
  <1>9. \A o1 \in start : DiceReached(o1, e) /\ DiceUnused(o1.card)
    BY <1>6, <1>8, DiceStartsDuplex
  <1> HIDE DEF start
  <1>10. \A o1 \in start : o1.ok \in BOOLEAN /\ Whole(o1.card, e)
    BY <1>6, <1>7, <1>9, DiceInOrder DEF DiceReached
  <1> QED BY <1>0, <1>1, <1>4, <1>5, <1>10, OpensMidi

\* The streams are destroyed.
LEMMA DiceDestroys ==
  ASSUME NEW c \in Cards, c.driver = "dice"
  PROVE  Warns(DiceDestroyDuplex(c), c)
  <1> DEFINE d == DiceClearEnable(c)
  <1>1. Warns(d, c)
    BY Cleared
  <1> HIDE DEF d
  <1>2. d \in Cards /\ "tx" \in Streams /\ "rx" \in Streams
    BY <1>1 DEF Warns, But, Streams
  <1>3. Warns(Destroy(Destroy(d, "tx"), "rx"), d)
    BY <1>2, DestroyedBoth
  <1>4. Warns(Destroy(Destroy(d, "tx"), "rx"), c)
    BY <1>1, <1>3, WarnsTrans
  <1> QED BY <1>4 DEF DiceDestroyDuplex, d

\* The probe
LEMMA DiceProbes ==
  ASSUME InOrder(card), card.driver = "dice", DiceProbe
  PROVE  Serves(card', card)
  <1> DEFINE e == [card EXCEPT !.inited = TRUE]
             f == DiceDestroyDuplex(card)
             g == DiceDestroyDuplex(DiceDestroyDuplex(e))
  <1>0. card \in Cards /\ But(e, card, {"inited"})
    BY TidyIsCard, Uninitialised
  <1>1. Warns(f, card)
    BY <1>0, DiceDestroys
  <1>2. e \in Cards /\ e.driver = "dice"
    BY <1>0 DEF But, Fields
  <1>3. Warns(g, e)
    <2> DEFINE h == DiceDestroyDuplex(e)
    <2>1. Warns(h, e)
      <3> HIDE DEF e
      <3> QED BY <1>2, DiceDestroys
    <2>2. h \in Cards /\ h.driver = "dice"
      <3> HIDE DEF h, e
      <3> QED BY <1>2, <2>1 DEF Warns, But, Fields
    <2>3. Warns(DiceDestroyDuplex(h), h)
      <3> HIDE DEF h
      <3> QED BY <2>2, DiceDestroys
    <2> QED BY <2>1, <2>3, WarnsTrans
  <1>4. card.life = "absent"
        /\ card' \in {[e EXCEPT !.life = "live"], [f EXCEPT !.life = "freed"],
                      [g EXCEPT !.life = "freed"]}
    BY DEF DiceProbe, DiceCardFree
  <1> HIDE DEF f, g
  <1> QED BY <1>1, <1>3, <1>4, Probes

\* private_free
LEMMA DiceFreesCard ==
  ASSUME InOrder(card), card.driver = "dice", DiceReleased
  PROVE  Serves(card', card)
  <1>1. Warns(DiceDestroyDuplex(card), card)
    BY TidyIsCard, DiceDestroys
  <1> QED BY <1>1, Frees DEF DiceReleased, DiceCardFree

\* The bus reset
LEMMA DiceResets ==
  ASSUME InOrder(card), card.driver = "dice", DiceBusReset
  PROVE  Serves(card', card)
  <1>0. card \in Cards /\ DiceSound(card) /\ DiceUnused(card)
    BY TidyIsCard, DiceInOrder DEF InOrder
  <1>1. "rx" \in Streams /\ Other("rx") = "tx"
    BY DEF Streams, Other
  <1>2. DiceLinked(card)
    BY <1>0 DEF DiceSound
  <1>3. LET d == DiceStopStream(DiceStopStream([card EXCEPT !.session = FALSE], "rx"), "tx") IN
          Keeps(d, card) /\ DiceSound(d) /\ DiceUnused(d)
    BY <1>0, <1>1, <1>2, DiceStopsAll
  <1>4. Whole(card', card)
    BY <1>0, <1>3, DiceInOrder DEF DiceBusReset
  <1> QED BY <1>4, PassesOn

\* Every step
LEMMA DiceSteps ==
  ASSUME InOrder(card), card.driver = "dice", DiceStep
  PROVE  Serves(card', card)
  <1>0. card \in Cards /\ \A s : KeyOf(card, s) = "both"
    BY TidyIsCard, DiceInOrder
  <1>1. ASSUME NEW s \in Streams,
               \/ DicePcmOpen(s) \/ DicePcmClose(s) \/ DicePcmHwParams(s)
               \/ DicePcmHwFree(s) \/ DicePcmPrepare(s)
        PROVE  Serves(card', card)
    <2>1. CASE DicePcmOpen(s)
      BY <2>1, OpensFreely DEF DicePcmOpen
    <2>2. CASE DicePcmClose(s)
      BY <2>2, ClosesPcm DEF DicePcmClose
    <2>3. CASE DicePcmHwParams(s)
      BY <1>0, <2>3, SetsParams DEF DicePcmHwParams
    <2>4. CASE DicePcmHwFree(s)
      BY <2>4, DiceFrees
    <2>5. CASE DicePcmPrepare(s)
      BY <2>5, DicePrepares
    <2> QED BY <1>1, <2>1, <2>2, <2>3, <2>4, <2>5
  <1>2. ASSUME NEW s \in Streams,
               \/ DicePcmTrigger(s) \/ DiceMidiOpen(s) \/ DiceMidiClose(s) \/ DicePacketError(s)
        PROVE  Serves(card', card)
    <2>1. CASE DicePcmTrigger(s)
      BY <2>1, Triggers DEF DicePcmTrigger
    <2>2. CASE DiceMidiOpen(s)
      BY <2>2, DiceOpensMidi
    <2>3. CASE DiceMidiClose(s)
      BY <2>3, DiceClosesMidi
    <2>4. CASE DicePacketError(s)
      <3>1. card.driver \notin BebobDrivers /\ (card.master = "tx") \in BOOLEAN
        BY DEF BebobDrivers
      <3> QED BY <2>4, <3>1, Errs DEF DicePacketError
    <2> QED BY <1>2, <2>1, <2>2, <2>3, <2>4
  <1>3. CASE DiceHwdepLock \/ DiceHwdepUnlock
    BY <1>3, Locks DEF DiceHwdepLock, DiceHwdepUnlock
  <1>4. CASE DiceProbe
    BY <1>4, DiceProbes
  <1>5. CASE DiceBusReset
    BY <1>5, DiceResets
  <1>6. CASE DiceRemove
    BY <1>6, Leaves DEF DiceRemove, Unplug, Usable
  <1>7. CASE DiceReleased
    BY <1>7, DiceFreesCard
  <1> QED BY <1>1, <1>2, <1>3, <1>4, <1>5, <1>6, <1>7 DEF DiceStep

----------------------------------------------------------------------------
(* The steps of BeBoB *)

\* What order is for this driver
LEMMA BebobInOrder ==
  ASSUME NEW c, c.driver \in BebobDrivers
  PROVE  /\ Sound(c) <=> BebobSound(c)
         /\ Unused(c) <=> DuplexUnused(c)
         /\ \A s : KeyOf(c, s) = s
         /\ \A d : Keeps(d, c) /\ BebobSound(d) /\ DuplexUnused(d) /\ c \in Cards => Whole(d, c)
  <1>1. Sound(c) <=> BebobSound(c)
    BY DEF Sound, BebobDrivers
  <1>2. Unused(c) <=> DuplexUnused(c)
    BY DEF Unused, BebobDrivers
  <1>3. \A s : KeyOf(c, s) = s
    BY DEF KeyOf, BebobDrivers
  <1>4. ASSUME NEW d, Keeps(d, c), BebobSound(d), DuplexUnused(d), c \in Cards
        PROVE  Whole(d, c)
    <2>1. d.driver \in BebobDrivers
      BY <1>4, KeepsFields
    <2>2. Sound(d) /\ Unused(d)
      BY <1>4, <2>1 DEF Sound, Unused, BebobDrivers
    <2> QED BY <1>4, <2>2 DEF Whole
  <1> QED BY <1>1, <1>2, <1>3, <1>4

\* hw_free
LEMMA BebobFrees ==
  ASSUME InOrder(card), card.driver \in BebobDrivers, NEW s \in Streams, BebobPcmHwFree(s)
  PROVE  Serves(card', card)
  <1> DEFINE e == Dec(card, s)
  <1>0. card \in Cards /\ KeyOf(card, s) = s /\ s \in Counters /\ Sound(card)
    BY TidyIsCard, BebobInOrder DEF InOrder, Counters
  <1>1. e \in Cards /\ Sound(e)
    BY <1>0, StoppableByPcm
  <1>2. But(e, card, {"count"})
    BY <1>0, DecFields
  <1>3. HwFree(s, BebobStopDuplex(e))
    BY DEF BebobPcmHwFree
  <1> HIDE DEF e
  <1>4. e.driver \in BebobDrivers
    BY <1>2 DEF But, Fields
  <1>5. BebobSound(e)
    BY <1>1, <1>4, BebobInOrder
  <1>6. LET d == BebobStopDuplex(e) IN Keeps(d, e) /\ BebobSound(d) /\ DuplexUnused(d)
    BY <1>1, <1>5, BebobStopsDuplex
  <1>7. Whole(BebobStopDuplex(e), e)
    BY <1>1, <1>4, <1>6, BebobInOrder
  <1> QED BY <1>0, <1>3, <1>7, FreesParams DEF e

\* MIDI close
LEMMA BebobClosesMidi ==
  ASSUME InOrder(card), card.driver \in BebobDrivers, NEW s \in Streams, BebobMidiClose(s)
  PROVE  Serves(card', card)
  <1> DEFINE e == MidiGone(s, s)
  <1>0. card \in Cards /\ KeyOf(card, s) = s /\ s \in Counters /\ Sound(card)
    BY TidyIsCard, BebobInOrder DEF InOrder, Counters
  <1>1. e \in Cards /\ Sound(e) /\ But(e, card, {"count", "midi"})
    BY <1>0, StoppableByMidi
  <1>2. CloseMidi(s, BebobStopDuplex(e))
    BY DEF BebobMidiClose
  <1> HIDE DEF e
  <1>3. e.driver \in BebobDrivers
    BY <1>1 DEF But, Fields
  <1>4. BebobSound(e)
    BY <1>1, <1>3, BebobInOrder
  <1>5. LET d == BebobStopDuplex(e) IN Keeps(d, e) /\ BebobSound(d) /\ DuplexUnused(d)
    BY <1>1, <1>4, BebobStopsDuplex
  <1>6. Whole(BebobStopDuplex(e), e)
    BY <1>1, <1>3, <1>5, BebobInOrder
  <1> QED BY <1>0, <1>2, <1>6, ClosesMidi DEF e

\* What start_duplex() comes to for a PCM, with or without the wait.
LEMMA BebobStartsFor ==
  ASSUME NEW c, InOrder(c), c.driver \in BebobDrivers, NEW s \in Streams,
         c.pcm[s] \notin {"closed", "open"}, NEW updated \in BOOLEAN
  PROVE  Starts(BebobStartDuplex(c, c.want[s], updated), c, s)
  <1> DEFINE start == BebobStartDuplex(c, c.want[s], updated)
  <1>0. c \in Cards /\ KeyOf(c, s) = s /\ BebobSound(c) /\ DuplexUnused(c)
    BY TidyIsCard, BebobInOrder DEF InOrder
  <1>1. c.count[s] > 0 /\ c.want[s] \in Rates /\ c.want[s] # AnyRate
    BY <1>0, PcmIsCounted, DuplexAssumption
  <1>2. \A o \in start :
          /\ o.ok \in BOOLEAN /\ Keeps(o.card, c) /\ BebobSound(o.card)
          /\ DuplexUnused(o.card)
          /\ o.ok => \A t \in Streams :
                       c.count[t] > 0 =>
                         /\ o.card.run[t] /\ ~o.card.dead[t]
                         /\ c.want[s] # AnyRate => o.card.rate[t] = c.want[s]
    BY <1>0, <1>1, BebobStartsDuplex
  <1> HIDE DEF start
  <1>3. ASSUME NEW o \in start
        PROVE  o.ok \in BOOLEAN /\ Whole(o.card, c) /\ (o.ok => StartedAt(o.card, c, s))
    <2>1. o.ok \in BOOLEAN /\ Whole(o.card, c)
      BY <1>0, <1>2, <1>3, BebobInOrder
    <2>2. o.ok => StartedAt(o.card, c, s)
      BY <1>1, <1>2, <1>3 DEF StartedAt
    <2> QED BY <2>1, <2>2
  <1> QED BY <1>3 DEF Starts, start

\* prepare
LEMMA BebobPrepares ==
  ASSUME InOrder(card), card.driver \in BebobDrivers, NEW s \in Streams, BebobPcmPrepare(s)
  PROVE  Serves(card', card)
  <1>0. card \in Cards
    BY TidyIsCard
  <1>1. card.pcm[s] \notin {"closed", "open"}
    BY DEF BebobPcmPrepare, MayPrepare
  <1>2. CASE card' = BebobWait(card, <<"pcm", s>>)
    <2>1. <<"pcm", s>> \in Threads
      BY DEF Threads
    <2>2. But(card', card, {"waiting", "completed"})
          /\ card'.waiting = card.waiting \cup {<<"pcm", s>>}
      BY <1>0, <1>2, <2>1, WaitFields
    <2>3. InOrder(card')
      BY <1>0, <1>1, <2>2, PcmWaits
    <2> QED BY <1>0, <2>2, <2>3, Passes
  <1>3. CASE Prepared(s, BebobStartDuplex(card, card.want[s], FALSE))
    <2>1. Starts(BebobStartDuplex(card, card.want[s], FALSE), card, s)
      BY <1>1, BebobStartsFor
    <2> QED BY <1>1, <1>3, <2>1, Prepares
  <1> QED BY <1>2, <1>3 DEF BebobPcmPrepare

\* A card that differs in nothing PreparedRuns looks at.
LEMMA ServesFrom ==
  ASSUME NEW c, NEW e, NEW d, Serves(d, e),
         e.pcm = c.pcm, e.want = c.want, e.driver = c.driver
  PROVE  Serves(d, c)
  BY DEF Serves, Readies, RunsAt

\* prepare, after the wait
LEMMA BebobPreparesAwake ==
  ASSUME InOrder(card), card.driver \in BebobDrivers, NEW s \in Streams,
         BebobPcmPrepareAwake(s)
  PROVE  Serves(card', card)
  <1> DEFINE e == [card EXCEPT !.waiting = @ \ {<<"pcm", s>>}]
             start == UNION {BebobStartDuplex(e, card.want[s], updated) :
                               updated \in {FALSE, card.completed}}
  <1>0. card \in Cards /\ Orderly(card, s)
    BY TidyIsCard DEF InOrder, Tidy
  <1>1. <<"pcm", s>> \in card.waiting /\ Prepared(s, start)
    BY DEF BebobPcmPrepareAwake, BebobWakeUp
  <1>2. card.pcm[s] \notin {"closed", "open"} /\ card.completed \in BOOLEAN
    BY <1>0, <1>1 DEF Orderly, Cards
  <1>3. But(e, card, {"waiting"}) /\ e.waiting = card.waiting \ {<<"pcm", s>>}
    BY <1>0, SetWaiting DEF Cards
  <1> HIDE DEF e
  <1>4. But(e, card, {"waiting", "completed"})
    BY <1>3 DEF But
  <1>5. InOrder(e)
    BY <1>0, <1>2, <1>3, <1>4, PcmWaits
  <1>6. e.pcm = card.pcm /\ e.want = card.want /\ e.driver = card.driver
    BY <1>3 DEF But, Fields
  <1>7. \A updated \in {FALSE, card.completed} :
          Starts(BebobStartDuplex(e, card.want[s], updated), e, s)
    BY <1>2, <1>5, <1>6, BebobStartsFor
  <1>8. Starts(start, e, s)
    BY <1>7 DEF Starts
  <1> HIDE DEF start
  <1>9. Serves(card', e)
    BY <1>1, <1>2, <1>5, <1>6, <1>8, Prepares
  <1> QED BY <1>6, <1>9, ServesFrom

\* The same for a MIDI substream.
LEMMA BebobStartsForMidi ==
  ASSUME NEW e \in Cards, Sound(e), Unused(e), e.driver \in BebobDrivers,
         NEW updated \in BOOLEAN
  PROVE  \A o \in BebobStartDuplex(e, AnyRate, updated) : o.ok \in BOOLEAN /\ Whole(o.card, e)
  <1>1. BebobSound(e) /\ DuplexUnused(e)
    BY BebobInOrder
  <1>2. \A o \in BebobStartDuplex(e, AnyRate, updated) :
          /\ o.ok \in BOOLEAN /\ Keeps(o.card, e) /\ BebobSound(o.card)
          /\ DuplexUnused(o.card)
    BY <1>1, BebobStartsDuplex
  <1> QED BY <1>2, BebobInOrder

\* MIDI open
LEMMA BebobOpensMidi ==
  ASSUME InOrder(card), card.driver \in BebobDrivers, NEW s \in Streams, BebobMidiOpen(s)
  PROVE  Serves(card', card)
  <1>0. card \in Cards /\ KeyOf(card, s) = s
    BY TidyIsCard, BebobInOrder
  <1>1. /\ card.life = "live"
        /\ s \notin card.midi /\ <<"midi", s>> \notin card.waiting
    BY DEF BebobMidiOpen, MayOpenMidi, Usable, Idle
  <1>2. PICK o \in LockTry(card) :
          /\ o.ok
          /\ \/ card' = BebobWait(Inc(o.card, s), <<"midi", s>>)
             \/ MidiOpened(s, s, BebobStartDuplex(Inc(o.card, s), AnyRate, FALSE))
    BY DEF BebobMidiOpen
  <1>3. card.lock >= 0 /\ o.card = [card EXCEPT !.lock = @ + 1]
    BY <1>0, <1>2, LockTried
  <1> DEFINE e == Inc([card EXCEPT !.lock = @ + 1], s)
             start == BebobStartDuplex(e, AnyRate, FALSE)
  <1>4. /\ Lent(e, card, s) /\ But(e, card, {"lock", "count"})
        /\ MidiUses(card, s) = 0
    BY <1>0, <1>1, <1>3, LentFresh
  <1>5. card' = BebobWait(e, <<"midi", s>>) \/ MidiOpened(s, s, start)
    BY <1>2, <1>3
  <1> HIDE DEF e
  <1>6. e \in Cards /\ Sound(e) /\ Unused(e)
    BY <1>0, <1>4, LentIsSound
  <1>7. e.driver = card.driver /\ e.pcm = card.pcm
    BY <1>4 DEF But, Fields
  <1>8. CASE card' = BebobWait(e, <<"midi", s>>)
    <2>1. InOrder(card')
      BY <1>0, <1>1, <1>3, <1>4, <1>8, MidiWaits
    <2>2. <<"midi", s>> \in Threads
      BY DEF Threads
    <2>3. But(card', e, {"waiting", "completed"})
      BY <1>6, <1>8, <2>2, WaitFields
    <2>4. card'.pcm = card.pcm
      BY <1>7, <2>3 DEF But, Fields
    <2> QED BY <2>1, <2>4, NoneReadied DEF Serves
  <1>9. CASE MidiOpened(s, s, start)
    <2>1. \A o1 \in start : o1.ok \in BOOLEAN /\ Whole(o1.card, e)
      BY <1>6, <1>7, BebobStartsForMidi
    <2> HIDE DEF start
    <2>2. card.life \notin {"absent", "deferred"}
      BY <1>1
    <2> QED BY <1>0, <1>4, <1>9, <2>1, <2>2, OpensMidi
  <1> QED BY <1>5, <1>8, <1>9

\* MIDI open, after the wait
LEMMA BebobOpensMidiAwake ==
  ASSUME InOrder(card), card.driver \in BebobDrivers, NEW s \in Streams,
         BebobMidiOpenAwake(s)
  PROVE  Serves(card', card)
  <1> DEFINE e == [card EXCEPT !.waiting = @ \ {<<"midi", s>>}]
             start == UNION {BebobStartDuplex(e, AnyRate, updated) :
                               updated \in {FALSE, card.completed}}
  <1>0. card \in Cards /\ KeyOf(card, s) = s /\ Tidy(card)
    BY TidyIsCard, BebobInOrder DEF InOrder
  <1>1. <<"midi", s>> \in card.waiting /\ MidiOpened(s, s, start)
    BY DEF BebobMidiOpenAwake, BebobWakeUp
  <1>2. /\ Lent(e, card, s) /\ But(e, card, {"waiting"})
        /\ MidiUses(card, s) = 1
    BY <1>0, <1>1, LentAwake
  <1> HIDE DEF e
  <1>3. e \in Cards /\ Sound(e) /\ Unused(e)
    BY <1>0, <1>2, LentIsSound
  <1>4. e.driver = card.driver
    BY <1>2 DEF But, Fields
  <1>5. card.completed \in BOOLEAN
    BY <1>0 DEF Cards
  <1>6. \A updated \in {FALSE, card.completed} :
          \A o \in BebobStartDuplex(e, AnyRate, updated) : o.ok \in BOOLEAN /\ Whole(o.card, e)
    BY <1>3, <1>4, <1>5, BebobStartsForMidi
  <1>7. \A o \in start : o.ok \in BOOLEAN /\ Whole(o.card, e)
    BY <1>6
  <1> HIDE DEF start
  <1>8. card.life \notin {"absent", "deferred"}
    BY <1>0, <1>2, BornByMidi
  <1> QED BY <1>0, <1>1, <1>2, <1>7, <1>8, OpensMidi

\* The streams are destroyed.
LEMMA BebobDestroys ==
  ASSUME NEW c \in Cards
  PROVE  Warns(BebobDestroyDuplex(c), c)
  BY DestroyedBoth DEF BebobDestroyDuplex, Streams

\* The streams are destroyed twice.
LEMMA BebobDestroysTwice ==
  ASSUME NEW c \in Cards
  PROVE  Warns(BebobDestroyDuplex(BebobDestroyDuplex(c)), c)
  <1> DEFINE h == BebobDestroyDuplex(c)
  <1>1. Warns(h, c)
    BY BebobDestroys
  <1> HIDE DEF h
  <1>2. h \in Cards
    BY <1>1 DEF Warns, But
  <1>3. Warns(BebobDestroyDuplex(h), h)
    BY <1>2, BebobDestroys
  <1>4. Warns(BebobDestroyDuplex(h), c)
    BY <1>1, <1>3, WarnsTrans
  <1> QED BY <1>4 DEF h

\* The probe
LEMMA BebobProbes ==
  ASSUME InOrder(card), card.driver \in BebobDrivers, BebobProbe
  PROVE  Serves(card', card)
  <1> DEFINE e == [card EXCEPT !.inited = TRUE]
             f == BebobDestroyDuplex(card)
             g == BebobDestroyDuplex(BebobDestroyDuplex(e))
             l == IF BebobSpecial(card) THEN "deferred" ELSE "live"
  <1>0. card \in Cards /\ e \in Cards
    BY TidyIsCard, Uninitialised DEF But
  <1>1. Warns(f, card)
    BY <1>0, BebobDestroys
  <1>2. Warns(g, e)
    <2> HIDE DEF e
    <2> QED BY <1>0, BebobDestroysTwice
  <1>3. card.life = "absent"
        /\ card' \in {[e EXCEPT !.life = l], [f EXCEPT !.life = "freed"],
                      [g EXCEPT !.life = "freed"]}
    <2>1. card' \in IF BebobSpecial(card)
                    THEN {[e EXCEPT !.life = "deferred"], [f EXCEPT !.life = "freed"]}
                    ELSE {[e EXCEPT !.life = "live"], [f EXCEPT !.life = "freed"],
                          [g EXCEPT !.life = "freed"]}
      BY DEF BebobProbe, BebobCardFree
    <2>2. card.life = "absent"
      BY DEF BebobProbe
    <2> HIDE DEF e, f, g
    <2> QED BY <2>1, <2>2
  <1>4. l = "live" \/ (l = "deferred" /\ card.driver = "maudio")
    BY DEF BebobSpecial
  <1> HIDE DEF f, g, l
  <1> QED BY <1>1, <1>2, <1>3, <1>4, Probes

\* private_free
LEMMA BebobFreesCard ==
  ASSUME InOrder(card), BebobReleased
  PROVE  Serves(card', card)
  <1>1. Warns(BebobDestroyDuplex(card), card)
    BY TidyIsCard, BebobDestroys
  <1> QED BY <1>1, Frees DEF BebobReleased, BebobCardFree

\* The deferred registration fails: the card is freed and then written to.
LEMMA BebobHaunts ==
  ASSUME NEW c, InOrder(c), c.driver = "maudio", c.life = "deferred"
  PROVE  LET d == [BebobCardFree(BebobDestroyDuplex(c)) EXCEPT !.ghost = TRUE] IN
           InOrder(d) /\ d.pcm = c.pcm
  <1> DEFINE g == BebobDestroyDuplex(BebobDestroyDuplex(c))
             h == [g EXCEPT !.life = "freed"]
             d == [h EXCEPT !.ghost = TRUE]
  <1>0. c \in Cards /\ Tidy(c)
    BY TidyIsCard DEF InOrder
  <1>1. Warns(g, c)
    BY <1>0, BebobDestroysTwice
  <1>2. [BebobCardFree(BebobDestroyDuplex(c)) EXCEPT !.ghost = TRUE] = d
    BY DEF BebobCardFree
  <1> HIDE DEF g
  <1>3. But(g, c, {"warned", "session"}) /\ g \in Cards
    BY <1>1 DEF Warns, But
  <1>4. But(h, g, {"life"}) /\ h.life = "freed"
    BY <1>3, SetLife
  <1> HIDE DEF h
  <1>5. h \in Cards
    BY <1>4 DEF But
  <1>6. But(d, h, {"ghost"})
    BY <1>5, SetGhost
  <1> HIDE DEF d
  <1>7. But(d, c, EndFields)
    BY <1>3, <1>4, <1>6 DEF But, EndFields
  <1>8. /\ d.life = "freed" /\ d.session = g.session /\ d.warned = g.warned
        /\ d.inited = c.inited /\ d.pcm = c.pcm
    BY <1>3, <1>4, <1>6 DEF But, Fields
  <1>9. d.session = c.session \/ (d.session = FALSE /\ c.driver = "dice")
    BY <1>1, <1>8 DEF Warns
  <1>10. d.warned /\ d.inited => \E s \in Streams : c.run[s]
    <2>1. ~c.warned
      BY <1>0 DEF Tidy, Lives
    <2> QED BY <1>1, <1>8, <2>1 DEF Warns
  <1>11. \A s \in Streams : Uses(c, s) = 0
    BY <1>0, UnbornIsIdle
  <1>12. InOrder(d)
    BY <1>0, <1>7, <1>8, <1>9, <1>10, <1>11, Ended
  <1> QED BY <1>2, <1>8, <1>12

\* The bus reset
LEMMA BebobResets ==
  ASSUME InOrder(card), card.driver \in BebobDrivers, BebobUpdate
  PROVE  Serves(card', card)
  <1>0. card \in Cards /\ Tidy(card) /\ BebobSound(card) /\ DuplexUnused(card)
    BY TidyIsCard, BebobInOrder DEF InOrder
  <1>1. card.life \in {"deferred", "live"}
    BY DEF BebobUpdate
  <1>2. PICK c \in BebobUpdateDuplex(card) :
          card' \in IF card.life = "live" THEN {c}
                    ELSE {[c EXCEPT !.life = "live"],
                          [BebobCardFree(BebobDestroyDuplex(c)) EXCEPT !.ghost = TRUE]}
    BY DEF BebobUpdate
  <1>3. Keeps(c, card) /\ BebobSound(c) /\ DuplexUnused(c)
    BY <1>0, BebobUpdates
  <1>4. Whole(c, card)
    BY <1>0, <1>3, BebobInOrder
  <1>5. Serves(c, card)
    BY <1>4, PassesOn
  <1>6. c.life = card.life /\ c.driver = card.driver
    BY <1>0, <1>3, KeepsFields
  <1>7. c \in Cards /\ InOrder(c)
    BY <1>5, TidyIsCard DEF Serves
  <1>8. ASSUME card'.pcm = c.pcm, InOrder(card')
        PROVE  Serves(card', card)
    <2>1. \A s \in Streams : card'.pcm[s] = "prepared" => card.pcm[s] = "prepared"
      BY <1>0, <1>3, <1>8, KeptUnready
    <2> QED BY <1>8, <2>1, NoneReadied DEF Serves
  <1>9. CASE card' = c
    BY <1>5, <1>9
  <1>10. CASE card' = [c EXCEPT !.life = "live"] /\ card.life # "live"
    <2>1. But(c, c, {"inited"})
      BY <1>7, Uninitialised
    <2>2. Serves(card', c)
      BY <1>1, <1>6, <1>7, <1>10, <2>1, Enters
    <2>3. card'.pcm = c.pcm
      BY <1>7, <1>10 DEF Cards
    <2> QED BY <1>8, <2>2, <2>3 DEF Serves
  <1>11. CASE card' = [BebobCardFree(BebobDestroyDuplex(c)) EXCEPT !.ghost = TRUE]
              /\ card.life # "live"
    <2>1. c.life = "deferred" /\ c.driver = "maudio"
      BY <1>0, <1>1, <1>6, <1>11 DEF Tidy, Lives
    <2>2. InOrder(card') /\ card'.pcm = c.pcm
      BY <1>7, <1>11, <2>1, BebobHaunts
    <2> QED BY <1>8, <2>2
  <1> QED BY <1>2, <1>9, <1>10, <1>11

\* bebob_remove()
LEMMA BebobLeaves ==
  ASSUME InOrder(card), card.driver \in BebobDrivers, BebobRemove
  PROVE  Serves(card', card)
  <1> DEFINE e == [card EXCEPT !.completed = TRUE]
  <1>0. card \in Cards /\ Tidy(card) /\ BebobSound(card) /\ DuplexUnused(card)
    BY TidyIsCard, BebobInOrder DEF InOrder
  <1>1. /\ Keeps(e, card) /\ SameRun(e, card) /\ SamePcm(e, card) /\ SameDevice(e, card)
        /\ SameLink(e, card)
    BY <1>0, SetCompleted
  <1>2. card.life = "live" /\ card' = Disconnected(e)
    BY DEF BebobRemove, Usable
  <1> HIDE DEF e
  <1>3. /\ e.driver = card.driver /\ e.want = card.want /\ e.life = card.life
        /\ e.count = card.count
    BY <1>0, <1>1, KeepsFields
  <1>4. BebobSound(e) /\ DuplexUnused(e)
    BY <1>0, <1>1, <1>3 DEF BebobSound, DuplexUnused, NoStream, SameRun, SameLink, SameDevice
  <1>5. InOrder(e)
    BY <1>0, <1>1, <1>4, BebobInOrder, WholeIsInOrder
  <1>6. Serves(card', e)
    BY <1>2, <1>3, <1>5, Leaves
  <1> QED BY <1>1, <1>3, <1>6, ServesFrom DEF SamePcm

\* Every step
LEMMA BebobSteps ==
  ASSUME InOrder(card), card.driver \in BebobDrivers, BebobStep
  PROVE  Serves(card', card)
  <1>0. card \in Cards /\ \A s : KeyOf(card, s) = s
    BY TidyIsCard, BebobInOrder
  <1>1. ASSUME NEW s \in Streams,
               \/ BebobPcmOpen(s) \/ BebobPcmClose(s) \/ BebobPcmHwParams(s)
               \/ BebobPcmHwFree(s) \/ BebobPcmPrepare(s) \/ BebobPcmPrepareAwake(s)
        PROVE  Serves(card', card)
    <2>1. CASE BebobPcmOpen(s)
      BY <2>1, OpensFreely DEF BebobPcmOpen
    <2>2. CASE BebobPcmClose(s)
      BY <2>2, ClosesPcm DEF BebobPcmClose
    <2>3. CASE BebobPcmHwParams(s)
      BY <1>0, <2>3, SetsParams DEF BebobPcmHwParams
    <2>4. CASE BebobPcmHwFree(s)
      BY <2>4, BebobFrees
    <2>5. CASE BebobPcmPrepare(s)
      BY <2>5, BebobPrepares
    <2>6. CASE BebobPcmPrepareAwake(s)
      BY <2>6, BebobPreparesAwake
    <2> QED BY <1>1, <2>1, <2>2, <2>3, <2>4, <2>5, <2>6
  <1>2. ASSUME NEW s \in Streams,
               \/ BebobPcmTrigger(s) \/ BebobMidiOpen(s) \/ BebobMidiOpenAwake(s)
               \/ BebobMidiClose(s) \/ BebobPacketError(s)
        PROVE  Serves(card', card)
    <2>1. CASE BebobPcmTrigger(s)
      BY <2>1, Triggers DEF BebobPcmTrigger
    <2>2. CASE BebobMidiOpen(s)
      BY <2>2, BebobOpensMidi
    <2>3. CASE BebobMidiOpenAwake(s)
      BY <2>3, BebobOpensMidiAwake
    <2>4. CASE BebobMidiClose(s)
      BY <2>4, BebobClosesMidi
    <2>5. CASE BebobPacketError(s)
      BY <2>5, Errs DEF BebobPacketError
    <2> QED BY <1>2, <2>1, <2>2, <2>3, <2>4, <2>5
  <1>3. CASE BebobHwdepLock \/ BebobHwdepUnlock
    BY <1>3, Locks DEF BebobHwdepLock, BebobHwdepUnlock
  <1>4. CASE BebobProbe
    BY <1>4, BebobProbes
  <1>5. CASE BebobUpdate
    BY <1>5, BebobResets
  <1>6. CASE BebobRemove
    BY <1>6, BebobLeaves
  <1>7. CASE BebobReleased
    BY <1>7, BebobFreesCard
  <1> QED BY <1>1, <1>2, <1>3, <1>4, <1>5, <1>6, <1>7 DEF BebobStep

----------------------------------------------------------------------------
(* The invariant *)

\* A unit that was plugged in
LEMMA UnitIsCard ==
  ASSUME NEW u \in Units, NEW device \in Rates
  PROVE  Plugged(u, device) \in Cards
  <1> DEFINE c == Plugged(u, device)
  <1>1. /\ u.driver \in Drivers /\ u.dirs \in SUBSET Streams /\ u.ports \in SUBSET Streams
        /\ u.master \in Streams
    BY DEF Units
  <1>2. /\ [s \in Streams |-> FALSE] \in Flags
        /\ [s \in Streams |-> AnyRate] \in [Streams -> Rates \cup {AnyRate}]
        /\ [s \in Streams |-> "closed"] \in [Streams -> PcmStates]
        /\ [s \in Streams |-> {}] \in [Streams -> SUBSET Rates]
        /\ [s \in Counters |-> 0] \in [Counters -> Int]
    BY DEF Flags, PcmStates
  <1> QED BY <1>1, <1>2 DEF Plugged, Cards

\* The initial states are in order,
LEMMA InitInOrder ==
  ASSUME Init
  PROVE  IInv
  <1>1. PICK u \in Plug, device \in Rates : card = Plugged(u, device)
    BY DEF Init
  <1>2. card \in Cards
    BY <1>1, UnitIsCard, PlugAssumption
  <1>3. /\ card.life = "absent" /\ card.run = [s \in Streams |-> FALSE]
        /\ card.conn = [s \in Streams |-> FALSE] /\ card.session = FALSE
        /\ card.pcm = [s \in Streams |-> "closed"]
        /\ card.midi = {} /\ card.count = [s \in Counters |-> 0] /\ card.lock = 0
        /\ card.lost = [s \in Counters |-> 0] /\ card.lockLost = 0
        /\ card.warned = FALSE /\ card.ghost = FALSE /\ card.waiting = {}
    BY <1>1 DEF Plugged
  <1>4. "tx" \in Streams /\ "rx" \in Streams /\ card.master \in Streams
    BY <1>2 DEF Streams, Cards
  <1>5. \A s \in Streams : Uses(card, s) = 0 /\ Holds(card, s) = 0
    BY <1>3 DEF Uses, Holds, PcmUses, PcmHolds, MidiUses
  <1>6. Counting(card)
    <2>1. \A k \in Counters : CountOf(card, k) = 0
      BY <1>4, <1>5 DEF CountOf, Counters
    <2>2. Streams \subseteq Counters /\ "both" \in Counters
      BY DEF Counters
    <2> QED BY <1>3, <2>1, <2>2 DEF Counting
  <1>7. Locking(card)
    BY <1>3, <1>4, <1>5 DEF Locking, LockOf
  <1>8. Lives(card)
    BY <1>3 DEF Lives, Unborn
  <1>9. \A s \in Streams : Orderly(card, s)
    BY <1>3 DEF Orderly
  <1>10. \A s \in Streams : ~card.run[s] /\ ~card.conn[s] /\ Heard(card, s)
    BY <1>3 DEF Heard
  <1>11. Sound(card)
    <2>1. OxfwSound(card)
      BY <1>3, <1>4, <1>10 DEF OxfwSound
    <2>2. BebobSound(card)
      BY <1>3, <1>4, <1>10 DEF BebobSound
    <2>3. DigiSound(card)
      BY <1>4, <1>10 DEF DigiSound
    <2>4. DiceSound(card)
      BY <1>4, <1>10 DEF DiceSound, DiceLinked
    <2> QED BY <2>1, <2>2, <2>3, <2>4 DEF Sound
  <1>12. Unused(card)
    BY <1>3, <1>10 DEF Unused, OxfwUnused, DuplexUnused, DiceUnused, NoStream
  <1> QED BY <1>2, <1>6, <1>7, <1>8, <1>9, <1>11, <1>12 DEF IInv, Tidy

\* and every step keeps that, and makes no PCM ready but by a start that ended well.
LEMMA NextServes ==
  ASSUME InOrder(card), Next
  PROVE  Serves(card', card)
  BY OxfwSteps, BebobSteps, DigiSteps, DiceSteps DEF Next

\* Whatever the driver, every behaviour keeps the counters, the lock and the streams in
\* order.
THEOREM InvariantHolds == Spec => []IInv
  <1>1. Init => IInv
    BY InitInOrder
  <1>2. IInv /\ [Next]_card => IInv'
    <2> SUFFICES ASSUME IInv, [Next]_card PROVE IInv'
      OBVIOUS
    <2>0. InOrder(card)
      BY DEF IInv, InOrder
    <2>1. CASE Next
      BY <2>0, <2>1, NextServes DEF Serves, InOrder, IInv
    <2>2. CASE UNCHANGED card
      BY <2>2 DEF IInv
    <2> QED BY <2>1, <2>2
  <1> QED BY <1>1, <1>2, PTL DEF Spec

\* prepare of a PCM of these drivers, Dice's capture apart, only ends well with its
\* stream running and at the rate asked for (*_pcm_prepare).  The stream has no error of
\* before; one that came while prepare ran may have ended it, and then the abort of its
\* PCM is lost.
THEOREM PreparedRunsHolds == Spec => PreparedRuns
  <1>1. IInv /\ [Next]_card =>
          [\A s \in Streams :
             LET prepared == card.pcm[s] # "prepared" /\ card'.pcm[s] = "prepared" IN
               prepared /\ <<card.driver, s>> # <<"dice", "tx">> =>
                 /\ card'.run[s] /\ (card'.dead[s] => card'.missed[s])
                 /\ <<card.driver, s>> # <<"oxfw", "tx">> => card'.rate[s] = card.want[s]]_card
    <2> SUFFICES ASSUME IInv, Next
                 PROVE  \A s \in Streams :
                   LET prepared == card.pcm[s] # "prepared" /\ card'.pcm[s] = "prepared" IN
                     prepared /\ <<card.driver, s>> # <<"dice", "tx">> =>
                       /\ card'.run[s] /\ (card'.dead[s] => card'.missed[s])
                       /\ <<card.driver, s>> # <<"oxfw", "tx">> => card'.rate[s] = card.want[s]
      OBVIOUS
    <2>1. Readies(card', card)
      BY NextServes DEF IInv, InOrder, Serves
    <2> QED BY <2>1 DEF Readies, RunsAt
  <1> QED BY <1>1, InvariantHolds, PTL DEF Spec, PreparedRuns

----------------------------------------------------------------------------
(* What it says of the users *)

\* The number of streams in a set of them
LEMMA StreamsOf ==
  ASSUME NEW S \in SUBSET Streams
  PROVE  Cardinality(S) = (IF "tx" \in S THEN 1 ELSE 0) + (IF "rx" \in S THEN 1 ELSE 0)
  <1>1. Cardinality({}) = 0
    BY FS_EmptySet
  <1>2. Cardinality({"tx"}) = 1 /\ Cardinality({"rx"}) = 1 /\ IsFiniteSet({"tx"})
    BY FS_Singleton
  <1>3. Cardinality({"tx"} \cup {"rx"}) = 2
    BY <1>2, FS_AddElement
  <1>4. S \in {{}, {"tx"}, {"rx"}, {"tx"} \cup {"rx"}}
    BY DEF Streams
  <1>5. CASE S = {}
    BY <1>1, <1>5
  <1>6. CASE S = {"tx"}
    BY <1>2, <1>6
  <1>7. CASE S = {"rx"}
    BY <1>2, <1>7
  <1>8. CASE S = {"tx"} \cup {"rx"}
    BY <1>3, <1>8
  <1> QED BY <1>4, <1>5, <1>6, <1>7, <1>8

\* CountsUsers counts sets; PcmUses, PcmHolds and MidiUses add up to the same.
LEMMA UsersAreCounted ==
  /\ \A k \in Streams : Counted(k) = PcmUses(card, k) /\ Sounding(k) = MidiUses(card, k)
  /\ Counted("both") = PcmUses(card, "tx") + PcmUses(card, "rx")
  /\ Sounding("both") = MidiUses(card, "tx") + MidiUses(card, "rx")
  /\ Cardinality({s \in Streams : card.pcm[s] # "closed"}) =
       PcmHolds(card, "tx") + PcmHolds(card, "rx")
  <1>0. Streams = {"tx", "rx"}
    BY DEF Streams
  <1>1. ASSUME NEW k \in Counters
        PROVE  /\ Counted(k) = (IF "tx" \in PcmOf(k) THEN PcmUses(card, "tx") ELSE 0)
                               + (IF "rx" \in PcmOf(k) THEN PcmUses(card, "rx") ELSE 0)
               /\ Sounding(k) = (IF "tx" \in PcmOf(k) THEN MidiUses(card, "tx") ELSE 0)
                                + (IF "rx" \in PcmOf(k) THEN MidiUses(card, "rx") ELSE 0)
    <2> DEFINE A == {s \in Streams \cap PcmOf(k) : card.pcm[s] \notin {"closed", "open"}}
               B == {s \in Streams \cap PcmOf(k) :
                       s \in card.midi \/ <<"midi", s>> \in card.waiting}
    <2>1. A \in SUBSET Streams /\ B \in SUBSET Streams
      OBVIOUS
    <2>2. /\ Cardinality(A) = (IF "tx" \in A THEN 1 ELSE 0) + (IF "rx" \in A THEN 1 ELSE 0)
          /\ Cardinality(B) = (IF "tx" \in B THEN 1 ELSE 0) + (IF "rx" \in B THEN 1 ELSE 0)
      <3> HIDE DEF A, B
      <3> QED BY <2>1, StreamsOf
    <2>3. /\ (IF "tx" \in A THEN 1 ELSE 0) = (IF "tx" \in PcmOf(k) THEN PcmUses(card, "tx") ELSE 0)
          /\ (IF "rx" \in A THEN 1 ELSE 0) = (IF "rx" \in PcmOf(k) THEN PcmUses(card, "rx") ELSE 0)
      BY <1>0 DEF PcmUses
    <2>4. /\ (IF "tx" \in B THEN 1 ELSE 0) = (IF "tx" \in PcmOf(k) THEN MidiUses(card, "tx") ELSE 0)
          /\ (IF "rx" \in B THEN 1 ELSE 0) = (IF "rx" \in PcmOf(k) THEN MidiUses(card, "rx") ELSE 0)
      BY <1>0 DEF MidiUses
    <2>5. Counted(k) = Cardinality(A) /\ Sounding(k) = Cardinality(B)
      BY DEF Counted, Sounding
    <2> HIDE DEF A, B
    <2> QED BY <2>2, <2>3, <2>4, <2>5
  <1>2. /\ "tx" \in PcmOf("tx") /\ "rx" \notin PcmOf("tx") /\ "rx" \in PcmOf("rx")
        /\ "tx" \notin PcmOf("rx") /\ "tx" \in PcmOf("both") /\ "rx" \in PcmOf("both")
    BY <1>0 DEF PcmOf
  <1>3. \A s \in Streams : PcmUses(card, s) \in Int /\ MidiUses(card, s) \in Int
    BY UsesRange
  <1>4. \A k \in Streams : Counted(k) = PcmUses(card, k) /\ Sounding(k) = MidiUses(card, k)
    BY <1>0, <1>1, <1>2, <1>3 DEF Counters
  <1>5. /\ Counted("both") = PcmUses(card, "tx") + PcmUses(card, "rx")
        /\ Sounding("both") = MidiUses(card, "tx") + MidiUses(card, "rx")
    BY <1>1, <1>2 DEF Counters
  <1>6. Cardinality({s \in Streams : card.pcm[s] # "closed"}) =
          PcmHolds(card, "tx") + PcmHolds(card, "rx")
    <2> DEFINE A == {s \in Streams : card.pcm[s] # "closed"}
    <2>1. Cardinality(A) = (IF "tx" \in A THEN 1 ELSE 0) + (IF "rx" \in A THEN 1 ELSE 0)
      BY StreamsOf
    <2>2. /\ (IF "tx" \in A THEN 1 ELSE 0) = PcmHolds(card, "tx")
          /\ (IF "rx" \in A THEN 1 ELSE 0) = PcmHolds(card, "rx")
      BY <1>0 DEF PcmHolds
    <2> HIDE DEF A
    <2>3. Cardinality(A) = PcmHolds(card, "tx") + PcmHolds(card, "rx")
      BY <2>1, <2>2
    <2> QED BY <2>3 DEF A
  <1> QED BY <1>4, <1>5, <1>6

\* The invariant implies the properties.
LEMMA InvCounts ==
  ASSUME IInv
  PROVE  CountsUsers
  <1>0. card \in Cards /\ Counting(card) /\ Locking(card)
    BY DEF IInv, Tidy
  <1>1. \A s \in Streams :
          /\ PcmUses(card, s) \in Int /\ MidiUses(card, s) \in Int /\ PcmHolds(card, s) \in Int
    BY UsesRange
  <1>2. "tx" \in Streams /\ "rx" \in Streams
    BY DEF Streams
  <1>3. \A k \in IF card.driver = "dice" THEN {"both"} ELSE Streams :
          card.count[k] = Counted(k) + Sounding(k) + card.lost[k]
    <2>1. CASE card.driver = "dice"
      <3>1. "both" \in Counters /\ card.lost["both"] \in Int
        BY <1>0 DEF Counters, Cards
      <3>2. card.count["both"] = Uses(card, "tx") + Uses(card, "rx") + card.lost["both"]
        BY <1>0, <2>1, <3>1 DEF Counting, CountOf
      <3>3. card.count["both"] = Counted("both") + Sounding("both") + card.lost["both"]
        BY <1>1, <1>2, <3>1, <3>2, UsersAreCounted DEF Uses
      <3> QED BY <2>1, <3>3
    <2>2. CASE card.driver # "dice"
      <3> SUFFICES ASSUME NEW k \in Streams
                   PROVE  card.count[k] = Counted(k) + Sounding(k) + card.lost[k]
        BY <2>2
      <3>1. k \in Counters /\ k # "both"
        BY DEF Counters, Streams
      <3>2. card.count[k] = Uses(card, k) + card.lost[k]
        BY <1>0, <2>2, <3>1 DEF Counting, CountOf
      <3> QED BY <3>2, UsersAreCounted DEF Uses
    <2> QED BY <2>1, <2>2
  <1>4. Holders + card.lockLost = LockOf(card)
    <2>1. card.lockLost \in Int
      BY <1>0 DEF Cards
    <2>2. Holders = PcmHolds(card, "tx") + PcmHolds(card, "rx")
                    + (MidiUses(card, "tx") + MidiUses(card, "rx"))
      BY UsersAreCounted DEF Holders
    <2> QED BY <1>1, <1>2, <2>1, <2>2 DEF LockOf, Holds
  <1>5. card.lock \in {-1, Holders + card.lockLost}
        /\ (card.lock = -1 => Holders + card.lockLost = 0)
        /\ (card.lockLost > 0 => card.driver \in {"oxfw", "digi"})
    BY <1>0, <1>4 DEF Locking
  <1> QED BY <1>3, <1>5 DEF CountsUsers

\* A counter of substreams is its users plus those that were forgotten, and the lock the
\* open substreams plus the locks that a failing pcm_open() of OXFW or Digi 00x kept,
\* after any sequence of calls and failures.
THEOREM CountsUsersHolds == Spec => []CountsUsers
  <1>1. IInv => CountsUsers
    BY InvCounts
  <1> QED BY <1>1, InvariantHolds, PTL

LEMMA InvStreams ==
  ASSUME IInv
  PROVE  StreamsMatchUse
  <1>0. card \in Cards /\ Lives(card) /\ Sound(card) /\ Unused(card)
    BY DEF IInv, Tidy
  <1>1. card.driver \in {"oxfw", "dice", "digi"} \cup BebobDrivers
    BY <1>0 DEF Cards, Drivers, BebobDrivers
  <1>2. card.driver # "digi" =>
          \A s \in Streams :
            card.run[s] => card.conn[s] \/ (card.driver \in BebobDrivers /\ ~card.run["tx"])
    <2>1. OxfwSound(card) => \A s \in Streams : card.run[s] => card.conn[s]
      BY DEF OxfwSound
    <2>2. DiceSound(card) => \A s \in Streams : card.run[s] => card.conn[s]
      BY DEF DiceSound, DiceLinked
    <2>3. BebobSound(card) => \A s \in Streams : card.run["tx"] => card.conn[s]
      BY <1>0 DEF BebobSound, Streams, Cards, Flags
    <2> QED BY <1>0, <1>1, <2>1, <2>2, <2>3 DEF Sound
  <1>3. ASSUME \A k \in Counters : card.count[k] = 0
        PROVE  (\A s \in Streams : ~card.run[s] /\ ~card.conn[s]) /\ ~card.session
    <2>0. \A k \in Streams \cup {"both"} : card.count[k] = 0
      BY <1>3 DEF Counters
    <2>1. CASE card.driver = "oxfw"
      BY <1>0, <2>0, <2>1 DEF Sound, Unused, OxfwSound, OxfwUnused, NoStream
    <2>2. CASE card.driver \in BebobDrivers \cup {"digi"}
      BY <1>0, <2>0, <2>2 DEF Unused, DuplexUnused, NoStream
    <2>3. CASE card.driver = "dice"
      BY <1>0, <2>0, <2>3 DEF Unused, DiceUnused, NoStream
    <2> QED BY <1>1, <2>1, <2>2, <2>3
  <1>4. card.warned /\ card.inited => \E k \in Counters : card.lost[k] > 0
    BY <1>0 DEF Lives
  <1>5. card.ghost => card.driver = "maudio"
    BY <1>0 DEF Lives
  <1> QED BY <1>2, <1>3, <1>4, <1>5 DEF StreamsMatchUse

\* Packets only go where bandwidth is reserved, but for Digi 00x and for a BeBoB slave
\* without its master; nothing goes on without a user, and amdtp_stream_destroy() only
\* finds a running stream when a user was forgotten.
THEOREM StreamsMatchUseHolds == Spec => []StreamsMatchUse
  <1>1. IInv => StreamsMatchUse
    BY InvStreams
  <1> QED BY <1>1, InvariantHolds, PTL

\* A running PCM of OXFW or Dice has a live stream, or an abort that it never saw.
THEOREM RunningPcmHasStreamHolds == Spec => []RunningPcmHasStream
  <1>1. IInv => RunningPcmHasStream
    <2> SUFFICES ASSUME IInv, NEW s \in Streams, card.pcm[s] = "running",
                        card.driver \in {"oxfw", "dice"},
                        <<card.driver, s>> # <<"dice", "tx">>
                 PROVE  card.missed[s] \/ (card.run[s] /\ ~card.dead[s])
      BY DEF RunningPcmHasStream
    <2>1. Sound(card)
      BY DEF IInv
    <2>2. Heard(card, s)
      BY <2>1 DEF Sound, OxfwSound, DiceSound, DiceLinked, Streams
    <2> QED BY <2>2 DEF Heard
  <1> QED BY <1>1, InvariantHolds, PTL
=============================================================================
