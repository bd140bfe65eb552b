-------------------------- MODULE IsightScs1xProofs --------------------------
(***************************************************************************)
(* Proofs about Isight: nothing is kept of a stream that has ended, and a  *)
(* substream that records has a stream and is in step with the device, for *)
(* all sizes of packets, periods, buffers and queues; and about Scs1x:     *)
(* drain and removal wait for the transaction, every packet that is sent   *)
(* is one command, and what the device sent comes back as it was, whatever *)
(* bytes are written.                                                      *)
(***************************************************************************)
EXTENDS Isight, Scs1x, WellFoundedInduction, SequenceTheorems, TLAPS

\* What is needed of the types: the fields there are, and that the index is a number.
Fields == {"context", "allocated", "current", "active", "running", "first", "index", "total",
           "pointer", "counter"}
Places == {"callback", "user", "update", "remove"}
Types ==
  /\ DOMAIN isight = Fields /\ isight.index \in Int
  /\ DOMAIN pc = Places
  /\ DOMAIN device = {"total", "gap", "heard", "there"}
  /\ DOMAIN past = {"want", "early", "crossed", "equal", "torn"}

\* The channel is the context's, or about to be.
Held == isight.allocated => isight.context \/ pc["user"] \in {"config", "enable"}

\* What the thread of the substream does fits the state of the substream.
SetUp ==
  /\ pc["user"] # "idle" => pcm \in {"setup", "prepared"}
  /\ pcm \in {"closed", "open"} => ~isight.context
  /\ pcm \notin {"closed", "open"} /\ pc["user"] # "free" => isight.active

\* After the unit is gone nothing is started any more.
Gone ==
  /\ pc["remove"] # "idle" => ~device.there
  /\ pc["remove"] = "done" => ~isight.context /\ ~Locked

\* A substream that may be started has a stream which nobody is about to end, or one of
\* the two exceptions holds.
Told ==
  pc["user"] = "idle" /\ pcm \in {"prepared", "running"}
    => \/ isight.context /\ isight.index >= 0 /\ ~EndIsTold
       \/ past.early \/ past.crossed

IInv == Types /\ Held /\ SetUp /\ Gone /\ Told

LEMMA InitInv == Init => IInv
BY DEF Init, IInv, Types, Held, SetUp, Gone, Told, Fields, Places, Locked, EndIsTold

----------------------------------------------------------------------------
(* Steps of the callback *)

\* What such a step leaves as it is
CallbackKeeps ==
  /\ isight'.context = isight.context /\ isight'.allocated = isight.allocated
  /\ isight'.active = isight.active
  /\ pc'["user"] = pc["user"] /\ pc'["update"] = pc["update"] /\ pc'["remove"] = pc["remove"]
  /\ device'.there = device.there
  /\ past'.crossed = past.crossed

\* isight_pcm_abort() stops the substream, or is too early for it.
Aborted ==
  IF isight.active /\ pcm = "running" THEN pcm' = "setup"
  ELSE /\ pcm' = pcm
       /\ past'.early <=> (past.early \/ pcm = "prepared")

LEMMA Abort ==
  ASSUME Types, NEW next, DOMAIN next = Fields, next.index = isight.index,
         next.context = isight.context, next.allocated = isight.allocated,
         next.active = isight.active, isight_pcm_abort(next)
  PROVE  /\ DOMAIN isight' = Fields /\ DOMAIN past' = DOMAIN past /\ isight'.index = isight.index
         /\ isight'.context = isight.context /\ isight'.allocated = isight.allocated
         /\ isight'.active = isight.active /\ past'.crossed = past.crossed
         /\ Aborted
<1>1. CASE isight.active /\ pcm = "running"
  <2>1. isight' = [next EXCEPT !.running = FALSE] /\ UNCHANGED past /\ pcm' = "setup"
    BY <1>1 DEF isight_pcm_abort
  <2>2. QED
    BY <1>1, <2>1 DEF Fields, Aborted
<1>2. CASE ~(isight.active /\ pcm = "running")
  <2>1. /\ isight' = next /\ past' = [past EXCEPT !.early = @ \/ pcm = "prepared"]
        /\ UNCHANGED pcm
    BY <1>2 DEF isight_pcm_abort
  <2>2. QED
    BY <1>2, <2>1 DEF Types, Aborted
<1>3. QED
  BY <1>1, <1>2

LEMMA AdvancedKeeps ==
  ASSUME Types, NEW n
  PROVE  LET a == Advanced(n) IN
         /\ DOMAIN a = Fields /\ a.index = isight.index
         /\ a.context = isight.context /\ a.allocated = isight.allocated
         /\ a.active = isight.active
BY DEF Advanced, Types, Fields

\* A step of the callback after which it goes on, or ends the stream: by then the
\* substream has been told.
CallbackGoes ==
  \/ /\ pc["callback"] # "failed" => pc'["callback"] # "failed"
     /\ isight'.index = isight.index \/ isight'.index >= 0
     /\ pcm' = pcm /\ (past'.early <=> past.early)
  \/ /\ pc["callback"] # "failed" /\ isight'.index = isight.index
     /\ Aborted
  \/ /\ pc["callback"] = "failed"
     /\ pcm' = pcm /\ (past'.early <=> past.early)

LEMMA CallbackSteps ==
  Types /\ CallbackStep => Types' /\ CallbackKeeps /\ CallbackGoes
<1> SUFFICES ASSUME Types, CallbackStep PROVE Types' /\ CallbackKeeps /\ CallbackGoes
  OBVIOUS
<1>1. CASE Packet
  BY <1>1 DEF Packet, Goto, Types, Fields, Places, CallbackKeeps, CallbackGoes
<1>2. CASE PacketIsBad
  BY <1>2 DEF PacketIsBad, Goto, Types, Fields, Places, CallbackKeeps, CallbackGoes
<1>3. CASE Fill
  <2>1. CASE Dropped < BufferSize
    BY <1>3, <2>1, AdvancedKeeps
    DEF Fill, Goto, Types, Fields, Places, CallbackKeeps, CallbackGoes
  <2>2. CASE ~(Dropped < BufferSize)
    <3> DEFINE next == [isight EXCEPT !.total = packet.total]
    <3>1. /\ DOMAIN next = Fields /\ next.index = isight.index
          /\ next.context = isight.context /\ next.allocated = isight.allocated
          /\ next.active = isight.active
      BY DEF Types, Fields
    <3>2. isight_pcm_abort(next) /\ Goto("callback", "check") /\ pc["callback"] = "fill"
          /\ UNCHANGED device
      BY <1>3, <2>2 DEF Fill
    <3> HIDE DEF next
    <3>3. QED
      BY <3>1, <3>2, Abort DEF Types, Goto, Places, CallbackKeeps, CallbackGoes
  <2>3. QED
    BY <2>1, <2>2
<1>4. CASE Check
  BY <1>4 DEF Check, Goto, Types, Fields, Places, CallbackKeeps, CallbackGoes
<1>5. CASE Copy
  BY <1>5, AdvancedKeeps DEF Copy, Goto, Types, Fields, Places, CallbackKeeps, CallbackGoes
<1>6. CASE Queue
  <2>1. CASE isight_pcm_abort(isight) /\ Goto("callback", "failed")
    BY <1>6, <2>1, Abort DEF Queue, Types, Goto, Places, CallbackKeeps, CallbackGoes
  <2>2. CASE /\ isight' = [isight EXCEPT !.index = (@ + 1) % QueueLength]
             /\ Goto("callback", "idle")
             /\ UNCHANGED <<pcm, past>>
    <3>1. (isight.index + 1) % QueueLength \in Int /\ (isight.index + 1) % QueueLength >= 0
      BY IsightAssumption DEF Types
    <3>2. QED
      BY <1>6, <2>2, <3>1 DEF Queue, Goto, Types, Fields, Places, CallbackKeeps, CallbackGoes
  <2>3. QED
    BY <1>6, <2>1, <2>2 DEF Queue
<1>7. CASE QueueFailed
  BY <1>7 DEF QueueFailed, Goto, Types, Fields, Places, CallbackKeeps, CallbackGoes
<1>8. QED
  BY <1>1, <1>2, <1>3, <1>4, <1>5, <1>6, <1>7 DEF CallbackStep

LEMMA CallbackInv == IInv /\ CallbackStep => IInv'
<1> SUFFICES ASSUME IInv, CallbackStep PROVE IInv'
  OBVIOUS
<1>1. Types' /\ CallbackKeeps /\ CallbackGoes
  BY CallbackSteps DEF IInv
<1>2. Held'
  BY <1>1 DEF IInv, Held, CallbackKeeps
<1>3. SetUp'
  BY <1>1 DEF IInv, SetUp, CallbackKeeps, CallbackGoes, Aborted
<1>4. Gone'
  BY <1>1 DEF IInv, Gone, CallbackKeeps, Locked
<1>5. Told'
  <2>1. isight.index \in Int /\ isight'.index \in Int
    BY <1>1 DEF IInv, Types
  <2>2. pcm = "running" => isight.active
    BY DEF IInv, SetUp
  <2>3. QED
    BY <1>1, <2>1, <2>2 DEF IInv, Told, CallbackKeeps, CallbackGoes, Aborted, EndIsTold
<1>6. QED
  BY <1>1, <1>2, <1>3, <1>4, <1>5 DEF IInv

----------------------------------------------------------------------------
(* Steps of the substream *)

LEMMA PcmInv == IInv /\ PcmStep => IInv'
<1> SUFFICES ASSUME IInv, PcmStep PROVE IInv'
  OBVIOUS
<1> USE DEF IInv, Types, Held, SetUp, Gone, Told, Fields, Places, EndIsTold, Locked, UserFree,
  Goto
<1>1. CASE Open
  BY <1>1 DEF Open
<1>2. CASE HwParams
  BY <1>2 DEF HwParams
<1>3. CASE Prepare
  BY <1>3 DEF Prepare
<1>4. CASE TriggerStart
  BY <1>4 DEF TriggerStart
<1>5. CASE TriggerStop
  BY <1>5 DEF TriggerStop
<1>6. CASE HwFree
  BY <1>6 DEF HwFree
<1>7. CASE Close
  BY <1>7 DEF Close
<1>8. QED
  BY <1>1, <1>2, <1>3, <1>4, <1>5, <1>6, <1>7 DEF PcmStep

\* isight_stop_streaming() leaves neither a context nor its channel.
LEMMA StoppedIsQuiet ==
  ASSUME Types, Held
  PROVE  LET s == Stopped(isight) IN
         /\ DOMAIN s = Fields /\ s.index = isight.index /\ s.active = isight.active
         /\ ~s.context
         /\ s.allocated => pc["user"] \in {"config", "enable"}
BY DEF Types, Held, Stopped, Fields

LEMMA StreamingInv == IInv /\ StreamingStep => IInv'
<1> SUFFICES ASSUME IInv, StreamingStep PROVE IInv'
  OBVIOUS
<1> USE DEF IInv, Types, Held, SetUp, Gone, Told, Fields, Places, EndIsTold, Locked, Goto
<1>1. CASE HwFreeStops
  BY <1>1, StoppedIsQuiet DEF HwFreeStops
<1>2. CASE StreamingIsOn
  BY <1>2 DEF StreamingIsOn, Prepared
<1>3. CASE StartStreaming
  BY <1>3, StoppedIsQuiet DEF StartStreaming, NotPrepared
<1>4. CASE ConnectAllocates
  BY <1>4 DEF ConnectAllocates, NotPrepared
<1>5. CASE ConnectWrites
  BY <1>5 DEF ConnectWrites, NotPrepared
<1>6. CASE StartContext
  <2>1. /\ isight' = [isight EXCEPT !.context = TRUE, !.first = TRUE, !.index = 0]
        /\ pc["user"] = "enable" /\ device.there
    BY <1>6 DEF StartContext
  <2>2. /\ pcm' = "prepared" /\ pc' = [pc EXCEPT !["user"] = "idle"]
        /\ past' = [past EXCEPT !.early = FALSE, !.crossed = EndIsTold]
    BY <1>6 DEF StartContext, Prepared
  <2>3. DOMAIN device' = DOMAIN device /\ device'.there = device.there
    BY <1>6 DEF StartContext
  <2>4. isight'.context /\ isight'.index = 0 /\ isight'.active = isight.active
    BY <2>1
  <2>5. past'.crossed <=> EndIsTold
    BY <2>2
  <2>6. Types' /\ Held' /\ SetUp'
    BY <2>1, <2>2, <2>3, <2>4
  <2>7. pc'["user"] = "idle" /\ pc'["remove"] = pc["remove"]
    BY <2>2
  <2>8. Gone'
    BY <2>1, <2>3, <2>7
  <2>9. Told'
    <3>1. EndIsTold' <=> EndIsTold
      BY <2>2
    <3>2. past'.crossed \/ (isight'.context /\ isight'.index >= 0 /\ ~EndIsTold')
      BY <2>4, <2>5, <3>1
    <3>3. QED
      BY <3>2
  <2>10. QED
    BY <2>6, <2>8, <2>9
<1>7. CASE StartContextFails
  BY <1>7 DEF StartContextFails, NotPrepared
<1>8. QED
  BY <1>1, <1>2, <1>3, <1>4, <1>5, <1>6, <1>7 DEF StreamingStep

----------------------------------------------------------------------------
(* Steps of the bus and of the unit *)

LEMMA AbortInv ==
  ASSUME IInv, NEW t \in {"update", "remove"}, NEW l \in {"lock", "disconnect"},
         t = "remove" <=> l = "disconnect", AbortOf(t, l)
  PROVE  IInv'
<1>1. /\ pc[t] = "abort" /\ isight_pcm_abort(isight) /\ UNCHANGED device
      /\ pc' = [pc EXCEPT ![t] = l]
  BY DEF AbortOf, Goto
<1>2. /\ DOMAIN isight' = Fields /\ DOMAIN past' = DOMAIN past /\ isight'.index = isight.index
      /\ isight'.context = isight.context /\ isight'.allocated = isight.allocated
      /\ isight'.active = isight.active /\ past'.crossed = past.crossed
      /\ Aborted
  BY <1>1, Abort DEF IInv, Types
<1>3. QED
  BY <1>1, <1>2 DEF IInv, Types, Held, SetUp, Gone, Told, Places, EndIsTold, Locked, Aborted

LEMMA StopInv ==
  ASSUME IInv, NEW t \in {"update", "remove"}, NEW l \in {"idle", "done"},
         t = "remove" <=> l = "done", StopOf(t, l)
  PROVE  IInv'
<1>1. /\ pc[t] = "lock" /\ ~Locked /\ UNCHANGED <<pcm, device, past>>
      /\ isight' = Stopped(isight) /\ pc' = [pc EXCEPT ![t] = l]
  BY DEF StopOf, Goto
<1>2. /\ DOMAIN isight' = Fields /\ isight'.index = isight.index
      /\ isight'.active = isight.active /\ ~isight'.context /\ ~isight'.allocated
  <2>1. pc["user"] \notin {"config", "enable"}
    BY <1>1 DEF Locked
  <2>2. Types /\ Held
    BY DEF IInv
  <2>3. QED
    BY <1>1, <2>1, <2>2, StoppedIsQuiet
<1>3. /\ DOMAIN pc' = Places /\ pc'["user"] = pc["user"]
      /\ pc'["remove"] = IF t = "remove" THEN "done" ELSE pc["remove"]
  BY <1>1 DEF IInv, Types, Places
<1>4. EndIsTold
  BY <1>1 DEF EndIsTold
<1>5. Types' /\ Held' /\ SetUp'
  BY <1>1, <1>2, <1>3 DEF IInv, Types, Held, SetUp
<1>6. Gone'
  BY <1>1, <1>2, <1>3 DEF IInv, Gone, Locked
<1>7. Told'
  BY <1>1, <1>3, <1>4 DEF IInv, Told
<1>8. QED
  BY <1>5, <1>6, <1>7 DEF IInv

LEMMA RestInv == IInv /\ (Lose \/ BusReset \/ UpdateStep \/ RemoveStep) => IInv'
<1> SUFFICES ASSUME IInv, Lose \/ BusReset \/ UpdateStep \/ RemoveStep PROVE IInv'
  OBVIOUS
<1>1. CASE Lose
  BY <1>1 DEF Lose, IInv, Types, Held, SetUp, Gone, Told, EndIsTold, Locked
<1>2. CASE BusReset
  BY <1>2 DEF BusReset, IInv, Types, Held, SetUp, Gone, Told, Fields, EndIsTold, Locked
<1>3. CASE Update
  BY <1>3 DEF Update, IInv, Types, Held, SetUp, Gone, Told, Fields, Places, EndIsTold, Locked,
    Goto
<1>4. CASE Removed
  BY <1>4 DEF Removed, IInv, Types, Held, SetUp, Gone, Told, Places, EndIsTold, Locked, Goto
<1>5. CASE Disconnect
  BY <1>5 DEF Disconnect, IInv, Types, Held, SetUp, Gone, Told, Places, EndIsTold, Locked, Goto
<1>6. CASE AbortOf("update", "lock") \/ AbortOf("remove", "disconnect")
  BY <1>6, AbortInv
<1>7. CASE StopOf("update", "idle") \/ StopOf("remove", "done")
  BY <1>7, StopInv
<1>8. QED
  BY <1>1, <1>2, <1>3, <1>4, <1>5, <1>6, <1>7 DEF UpdateStep, RemoveStep

----------------------------------------------------------------------------
\* The context, the channel, the substream and what has been told of an end fit each
\* other in every reachable state of isight.c.
THEOREM Invariance == Spec => []IInv
<1>1. Init => IInv
  BY InitInv
<1>2. IInv /\ [Next]_vars => IInv'
  <2>1. CASE UNCHANGED vars
    BY <2>1 DEF vars, IInv, Types, Held, SetUp, Gone, Told, EndIsTold, Locked
  <2>2. QED
    BY <2>1, CallbackInv, PcmInv, StreamingInv, RestInv DEF Next
<1>3. QED
  BY <1>1, <1>2, PTL DEF Spec

\* isight_stop_streaming(), isight_connect() and isight_remove() between them keep
\* neither a context nor a channel of a substream that is not set up or a unit that is
\* gone.
THEOREM Quiet == Spec => []FreedIsQuiet
<1>1. IInv => FreedIsQuiet
  BY DEF IInv, Held, SetUp, Gone, FreedIsQuiet
<1>2. QED
  BY <1>1, Invariance, PTL

\* A substream that records has a stream, or was told of its end too early: the callback,
\* isight_bus_reset() and isight_remove() tell it before they end the stream.
THEOREM RunningHas == Spec => []RunningHasStream
<1>1. IInv => RunningHasStream
  BY DEF IInv, SetUp, Told, RunningHasStream
<1>2. QED
  BY <1>1, Invariance, PTL


----------------------------------------------------------------------------
(* The pointer of the PCM buffer *)

\* A substream that is prepared, or about to be
Live == pcm \in {"prepared", "running"} \/ pc["user"] \in {"lock", "connect", "config", "enable"}

\* A packet has been counted by the device but not yet by the driver.
Pending == pc["callback"] \in {"fill", "check", "copy"}

Numbers ==
  /\ isight.pointer \in Int /\ 0 <= isight.pointer /\ isight.pointer < BufferSize
  /\ past.want \in Int /\ 0 <= past.want /\ past.want < BufferSize
  /\ isight.total \in Int /\ 0 <= isight.total /\ isight.total < Total
  /\ device.total \in Int /\ 0 <= device.total /\ device.total < Total
  /\ device.gap \in Int /\ 0 <= device.gap /\ device.gap <= MaxGap
  /\ packet.count \in Int /\ 0 <= packet.count /\ packet.count <= MaxFrames
  /\ packet.total \in Int /\ 0 <= packet.total /\ packet.total < Total

\* The callback belongs to a context; only what has not started has none.
InCall ==
  /\ pc["callback"] # "idle" => isight.context
  /\ pc["user"] \in {"connect", "config", "enable"} => ~isight.context
  /\ Pending => device.heard /\ device.gap = 0

\* What fills in for lost samples has a substream that records; or it was prepared
\* meanwhile.
Recording ==
  /\ isight.running => pcm = "running" \/ (~Live /\ pc["remove"] \in {"lock", "done"})
  /\ pc["callback"] = "fill" => pcm = "running" \/ ~Live \/ past.torn

\* The count of the driver is that of the device but for what was lost since, and for the
\* packet in the callback.
Origin == IF pc["callback"] = "fill" THEN packet.total ELSE isight.total
Ahead == IF Pending THEN packet.count ELSE device.gap
Following ==
  /\ device.heard => device.total = (Origin + Ahead) % Total
  /\ isight.context /\ ~device.heard => isight.first /\ device.gap = 0
  /\ device.heard /\ isight.first => past.equal

\* The pointer has yet to move by what the callback is about to add.
Behind == IF pc["callback"] = "fill" THEN Dropped
          ELSE IF pc["callback"] = "copy" THEN packet.count ELSE 0
InStep ==
  Live => past.want = (isight.pointer + Behind) % BufferSize \/ past.equal \/ past.torn

StepInv == Numbers /\ InCall /\ Recording /\ Following /\ InStep

----------------------------------------------------------------------------
(* Arithmetic modulo Total and modulo BufferSize *)

LEMMA Modulo ==
  ASSUME NEW m \in Int, m > 0, NEW a \in Int
  PROVE  /\ a % m \in Int /\ 0 <= a % m /\ a % m < m
         /\ \E q \in Int : a = m * q + (a % m)
<1>1. /\ a = m * (a \div m) + (a % m) /\ 0 <= a % m /\ a % m < m
      /\ a \div m \in Int /\ a % m \in Int
  OBVIOUS
<1>2. QED
  BY <1>1

LEMMA Remainder ==
  ASSUME NEW m \in Int, m > 0, NEW q \in Int, NEW r \in Int, 0 <= r, r < m
  PROVE  (m * q + r) % m = r
<1>1. PICK x \in Int, y \in Int :
        m * q + r = m * x + y /\ 0 <= y /\ y < m /\ y = (m * q + r) % m
  BY Modulo
<1>2. m * (q - x) = y - r
  BY <1>1
<1>3. PICK d \in Int : d = q - x
  OBVIOUS
<1>4. m * d = y - r
  BY <1>2, <1>3
<1>5. ~(d >= 1)
  <2> SUFFICES ASSUME d >= 1 PROVE FALSE
    OBVIOUS
  <2>1. m * d >= m
    OBVIOUS
  <2>2. QED BY <2>1, <1>4, <1>1
<1>6. ~(d <= -1)
  <2> SUFFICES ASSUME d <= -1 PROVE FALSE
    OBVIOUS
  <2>1. m * d <= -m
    OBVIOUS
  <2>2. QED BY <2>1, <1>4, <1>1
<1>7. d = 0
  BY <1>5, <1>6
<1>8. QED
  BY <1>1, <1>4, <1>7

LEMMA Counting ==
  ASSUME NEW m \in Int, m > 0, NEW t \in Int, 0 <= t, t < m, NEW g \in Int
  PROVE  /\ (t + g) % m \in Int /\ 0 <= (t + g) % m /\ (t + g) % m < m
         /\ (t + 0) % m = t
<1>1. t + 0 = m * 0 + t
  OBVIOUS
<1>2. (m * 0 + t) % m = t
  BY Remainder
<1>3. QED
  BY <1>1, <1>2, Modulo

\* isight_update_pointers() wraps once.
LEMMA Wraps ==
  ASSUME NEW m \in Int, NEW p \in Int, 0 <= p, p < m, NEW n \in Int, 0 <= n, n < m
  PROVE  (p + n) % m = IF p + n >= m THEN p + n - m ELSE p + n
<1>1. CASE p + n >= m
  <2>1. p + n = m * 1 + (p + n - m)
    OBVIOUS
  <2>2. (m * 1 + (p + n - m)) % m = p + n - m
    BY <1>1, Remainder
  <2>3. QED BY <1>1, <2>1, <2>2
<1>2. CASE p + n < m
  <2>1. p + n = m * 0 + (p + n)
    OBVIOUS
  <2>2. (m * 0 + (p + n)) % m = p + n
    BY <1>2, Remainder
  <2>3. QED BY <1>2, <2>1, <2>2
<1>3. QED BY <1>1, <1>2

LEMMA Sizes ==
  /\ Total \in Int /\ Total > 0 /\ BufferSize \in Int /\ BufferSize > 0
  /\ MaxGap \in Nat /\ MaxGap < Total /\ MaxFrames \in Nat /\ MaxFrames < BufferSize
BY IsightAssumption

\* The count after n more samples
After(t, n) == (t + n) % Total

LEMMA Later ==
  \A t, g, n \in Int :
    0 <= t /\ t < Total /\ 0 <= g /\ 0 <= n =>
      /\ After(After(t, g), n) = After(t, g + n)
      /\ g < Total => (After(t, g) - t) % Total = g
<1> SUFFICES ASSUME NEW t \in Int, NEW g \in Int, NEW n \in Int,
                    0 <= t, t < Total, 0 <= g, 0 <= n
             PROVE  /\ (((t + g) % Total) + n) % Total = (t + (g + n)) % Total
                    /\ g < Total => (((t + g) % Total) - t) % Total = g
  BY DEF After
<1>1. PICK y \in Int, x \in Int : y = (t + g) % Total /\ t + g = Total * x + y
  BY Modulo, Sizes
<1>2. PICK v \in Int, u \in Int :
        v = (y + n) % Total /\ 0 <= v /\ v < Total /\ y + n = Total * u + v
  BY Modulo, Sizes
<1>3. (t + (g + n)) % Total = v
  <2>1. t + (g + n) = Total * (x + u) + v
    BY <1>1, <1>2, Sizes
  <2>2. (Total * (x + u) + v) % Total = v
    BY <1>2, Remainder, Sizes
  <2>3. QED
    BY <2>1, <2>2
<1>4. ASSUME g < Total PROVE (y - t) % Total = g
  <2>1. y - t = Total * (-x) + g
    BY <1>1, Sizes
  <2>2. (Total * (-x) + g) % Total = g
    BY <1>4, Remainder, Sizes
  <2>3. QED
    BY <2>1, <2>2
<1>5. QED
  BY <1>1, <1>2, <1>3, <1>4

----------------------------------------------------------------------------
(* Steps that leave the samples alone *)

Kept ==
  /\ packet' = packet /\ pc'["callback"] = pc["callback"]
  /\ isight'.pointer = isight.pointer /\ isight'.total = isight.total
  /\ isight'.first = isight.first
  /\ device'.total = device.total /\ device'.gap = device.gap
  /\ device'.heard = device.heard
  /\ past'.want = past.want /\ past'.equal = past.equal /\ past'.torn = past.torn
  /\ isight'.context => isight.context
  /\ Live' => Live

LEMMA KeptInv ==
  ASSUME StepInv, Kept
  PROVE  Numbers' /\ Following' /\ InStep'
<1>1. Numbers'
  BY DEF StepInv, Kept, Numbers
<1>2. Origin' = Origin /\ Ahead' = Ahead /\ Behind' = Behind
  BY DEF Kept, Origin, Ahead, Behind, Pending, Dropped
<1>3. Following'
  BY <1>2 DEF StepInv, Kept, Following
<1>4. InStep'
  BY <1>2 DEF StepInv, Kept, InStep
<1>5. QED
  BY <1>1, <1>3, <1>4

LEMMA PcmStepInv == IInv /\ StepInv /\ PcmStep => StepInv'
<1> SUFFICES ASSUME IInv, StepInv, PcmStep PROVE StepInv'
  OBVIOUS
<1> USE DEF IInv, Types, Fields, Places, SetUp, Kept, Live, Goto, UserFree
<1>1. CASE Open \/ HwParams \/ TriggerStart \/ TriggerStop \/ HwFree \/ Close
  <2>1. Kept
    BY <1>1 DEF Open, HwParams, TriggerStart, TriggerStop, HwFree, Close
  <2>2. InCall' /\ Recording'
    BY <1>1 DEF Open, HwParams, TriggerStart, TriggerStop, HwFree, Close, StepInv, InCall,
      Recording, Pending
  <2>3. QED
    BY <2>1, <2>2, KeptInv DEF StepInv
<1>2. CASE Prepare
  <2>1. /\ pc' = [pc EXCEPT !["user"] = "lock"] /\ UNCHANGED <<packet, device>>
        /\ isight' = [isight EXCEPT !.pointer = 0, !.counter = 0]
        /\ past' = [past EXCEPT !.want = 0, !.torn = pc["callback"] \in {"fill", "copy"},
                                !.equal = @ /\ isight.first]
    BY <1>2 DEF Prepare
  <2>2. /\ pc'["callback"] = pc["callback"] /\ pc'["remove"] = pc["remove"]
        /\ pc'["user"] = "lock"
    BY <2>1
  <2>3. /\ isight'.pointer = 0 /\ isight'.total = isight.total
        /\ isight'.context = isight.context /\ isight'.first = isight.first
        /\ isight'.running = isight.running
    BY <2>1
  <2>4. /\ past'.want = 0
        /\ past'.torn <=> pc["callback"] \in {"fill", "copy"}
        /\ past'.equal <=> (past.equal /\ isight.first)
    BY <2>1
  <2>5. Numbers'
    BY <2>1, <2>3, <2>4, Sizes DEF StepInv, Numbers
  <2>6. InCall'
    BY <2>1, <2>2, <2>3 DEF StepInv, InCall, Pending
  <2>7. Recording'
    BY <1>2, <2>2, <2>3, <2>4 DEF Prepare, StepInv, Recording
  <2>8. Following'
    <3>1. Origin' = Origin /\ Ahead' = Ahead
      BY <2>1, <2>2, <2>3 DEF Origin, Ahead, Pending
    <3>2. QED
      BY <2>1, <2>3, <2>4, <3>1 DEF StepInv, Following
  <2>9. InStep'
    <3>1. CASE past'.torn
      BY <3>1 DEF InStep
    <3>2. CASE ~past'.torn
      <4>1. Behind' = 0
        BY <2>2, <2>4, <3>2 DEF Behind
      <4>2. (0 + 0) % BufferSize = 0
        BY Counting, Sizes
      <4>3. QED
        BY <2>3, <2>4, <4>1, <4>2 DEF InStep
    <3>3. QED BY <3>1, <3>2
  <2>10. QED
    BY <2>5, <2>6, <2>7, <2>8, <2>9 DEF StepInv
<1>3. QED
  BY <1>1, <1>2 DEF PcmStep

LEMMA StopKeeps ==
  ASSUME Types, StepInv, MayStop
  PROVE  LET s == Stopped(isight) IN
         /\ s.pointer = isight.pointer /\ s.total = isight.total /\ s.first = isight.first
         /\ s.running = isight.running /\ ~s.context
         /\ pc["callback"] = "idle"
BY DEF Types, Fields, Stopped, MayStop, StepInv, InCall

LEMMA StreamingStepInv == IInv /\ StepInv /\ StreamingStep => StepInv'
<1> SUFFICES ASSUME IInv, StepInv, StreamingStep PROVE StepInv'
  OBVIOUS
<1> USE DEF IInv, Types, Fields, Places, SetUp, Kept, Live, Goto
<1>1. CASE HwFreeStops
  <2>1. Kept
    BY <1>1, StopKeeps DEF HwFreeStops
  <2>2. InCall' /\ Recording'
    BY <1>1, StopKeeps DEF HwFreeStops, StepInv, InCall, Recording, Pending
  <2>3. QED
    BY <2>1, <2>2, KeptInv DEF StepInv
<1>2. CASE StartStreaming
  <2>1. Kept
    BY <1>2, StopKeeps DEF StartStreaming, NotPrepared
  <2>2. InCall' /\ Recording'
    BY <1>2, StopKeeps DEF StartStreaming, NotPrepared, StepInv, InCall, Recording, Pending
  <2>3. QED
    BY <2>1, <2>2, KeptInv DEF StepInv
<1>3. CASE StreamingIsOn \/ ConnectAllocates \/ ConnectWrites \/ StartContextFails
  <2>1. Kept
    BY <1>3 DEF StreamingIsOn, ConnectAllocates, ConnectWrites, StartContextFails, Prepared,
      NotPrepared
  <2>2. InCall'
    BY <1>3 DEF StreamingIsOn, ConnectAllocates, ConnectWrites, StartContextFails, Prepared,
      NotPrepared, StepInv, InCall, Pending
  <2>3. Recording'
    <3>1. /\ isight'.running = isight.running /\ past'.torn = past.torn
          /\ pc'["callback"] = pc["callback"] /\ pc'["remove"] = pc["remove"]
          /\ pcm = "running" => pcm' = "running"
      BY <1>3 DEF StreamingIsOn, ConnectAllocates, ConnectWrites, StartContextFails, Prepared,
        NotPrepared
    <3>2. QED
      BY <2>1, <3>1 DEF StepInv, Recording
  <2>4. QED
    BY <2>1, <2>2, <2>3, KeptInv DEF StepInv
<1>4. CASE StartContext
  <2>1. PICK n \in Counts :
          /\ device' = [device EXCEPT !.total = n, !.gap = 0, !.heard = FALSE]
          /\ isight' = [isight EXCEPT !.context = TRUE, !.first = TRUE, !.index = 0]
          /\ pc["user"] = "enable" /\ UNCHANGED packet
          /\ pcm' = "prepared" /\ pc' = [pc EXCEPT !["user"] = "idle"]
          /\ past' = [past EXCEPT !.early = FALSE, !.crossed = EndIsTold]
    BY <1>4 DEF StartContext, Prepared
  <2>2. /\ isight'.context /\ isight'.first /\ isight'.total = isight.total
        /\ isight'.pointer = isight.pointer /\ isight'.running = isight.running
        /\ device'.total = n /\ device'.gap = 0 /\ ~device'.heard
        /\ past'.want = past.want /\ past'.equal = past.equal /\ past'.torn = past.torn
        /\ pc'["remove"] = pc["remove"]
    BY <2>1
  <2>3. pc["callback"] = "idle" /\ pc'["callback"] = "idle"
    BY <2>1 DEF StepInv, InCall
  <2>4. Numbers'
    BY <2>1, <2>2, Sizes DEF StepInv, Numbers, Counts
  <2>5. InCall' /\ Recording' /\ Following'
    BY <2>1, <2>2, <2>3 DEF StepInv, InCall, Recording, Following, Pending
  <2>6. InStep'
    BY <2>1, <2>2, <2>3 DEF StepInv, InStep, Behind
  <2>7. QED
    BY <2>4, <2>5, <2>6 DEF StepInv
<1>5. QED
  BY <1>1, <1>2, <1>3, <1>4 DEF StreamingStep

\* isight_pcm_abort() keeps the samples, and a substream that records does so no more.
LEMMA AbortStep ==
  ASSUME IInv, NEW next, DOMAIN next = Fields, next.running = isight.running,
         isight_pcm_abort(next), pc'["user"] = pc["user"]
  PROVE  /\ \A f \in Fields \ {"running"} : isight'[f] = next[f]
         /\ past'.want = past.want /\ past'.equal = past.equal /\ past'.torn = past.torn
         /\ pcm = "running" => pcm' = "setup" /\ ~isight'.running /\ ~Live'
         /\ pcm # "running" => pcm' = pcm /\ isight'.running = isight.running
         /\ Live' => Live
<1>1. CASE pcm = "running"
  <2>1. isight.active /\ pc["user"] = "idle"
    BY <1>1 DEF IInv, SetUp
  <2>2. isight' = [next EXCEPT !.running = FALSE] /\ UNCHANGED past /\ pcm' = "setup"
    BY <1>1, <2>1 DEF isight_pcm_abort
  <2>3. QED
    BY <1>1, <2>1, <2>2 DEF Fields, Live
<1>2. CASE pcm # "running"
  <2>1. /\ isight' = next /\ past' = [past EXCEPT !.early = @ \/ pcm = "prepared"]
        /\ UNCHANGED pcm
    BY <1>2 DEF isight_pcm_abort
  <2>2. QED
    BY <1>2, <2>1 DEF IInv, Types, Live
<1>3. QED
  BY <1>1, <1>2

LEMMA RestStepInv == IInv /\ StepInv /\ (BusReset \/ UpdateStep \/ RemoveStep) => StepInv'
<1> SUFFICES ASSUME IInv, StepInv, BusReset \/ UpdateStep \/ RemoveStep PROVE StepInv'
  OBVIOUS
<1>1. CASE BusReset \/ Update \/ Removed \/ Disconnect
  <2>1. Kept
    BY <1>1 DEF BusReset, Update, Removed, Disconnect, IInv, Types, Fields, Places, Kept, Live,
      Goto
  <2>2. InCall' /\ Recording'
    BY <1>1 DEF BusReset, Update, Removed, Disconnect, IInv, Types, Fields, Places, SetUp, Live,
      Goto, StepInv, InCall, Recording, Pending
  <2>3. QED
    BY <2>1, <2>2, KeptInv DEF StepInv
<1>2. ASSUME NEW t \in {"update", "remove"}, NEW l \in {"lock", "disconnect"}, AbortOf(t, l),
             t = "remove" => l = "disconnect"
      PROVE  StepInv'
  <2>1. /\ isight_pcm_abort(isight) /\ UNCHANGED <<packet, device>>
        /\ pc[t] = "abort" /\ pc' = [pc EXCEPT ![t] = l]
    BY <1>2 DEF AbortOf, Goto
  <2>2. /\ pc'["user"] = pc["user"] /\ pc'["callback"] = pc["callback"]
        /\ pc["remove"] \notin {"lock", "done"} \/ pc'["remove"] = pc["remove"]
    BY <2>1 DEF IInv, Types, Places
  <2>3. /\ \A f \in Fields \ {"running"} : isight'[f] = isight[f]
        /\ past'.want = past.want /\ past'.equal = past.equal /\ past'.torn = past.torn
        /\ pcm = "running" => pcm' = "setup" /\ ~isight'.running /\ ~Live'
        /\ pcm # "running" => pcm' = pcm /\ isight'.running = isight.running
        /\ Live' => Live
    BY <2>1, <2>2, AbortStep DEF IInv, Types
  <2>4. Kept
    BY <2>1, <2>2, <2>3 DEF Kept, Fields
  <2>5. InCall' /\ Recording'
    BY <2>1, <2>2, <2>3 DEF StepInv, InCall, Recording, Pending, Fields
  <2>6. QED
    BY <2>4, <2>5, KeptInv DEF StepInv
<1>3. ASSUME NEW t \in {"update", "remove"}, NEW l \in {"idle", "done"}, StopOf(t, l),
             t = "remove" => l = "done"
      PROVE  StepInv'
  <2>1. /\ pc[t] = "lock" /\ MayStop /\ UNCHANGED <<pcm, packet, device, past>>
        /\ isight' = Stopped(isight) /\ pc' = [pc EXCEPT ![t] = l]
    BY <1>3 DEF StopOf, Goto
  <2>2. /\ pc'["user"] = pc["user"] /\ pc'["callback"] = pc["callback"]
        /\ pc["remove"] \in {"lock", "done"} => pc'["remove"] \in {"lock", "done"}
    BY <1>3, <2>1 DEF IInv, Types, Places
  <2>3. Kept
    BY <2>1, <2>2, StopKeeps DEF Kept, IInv, Live
  <2>4. InCall' /\ Recording'
    BY <2>1, <2>2, StopKeeps DEF IInv, StepInv, InCall, Recording, Pending, Live
  <2>5. QED
    BY <2>3, <2>4, KeptInv DEF StepInv
<1>4. QED
  BY <1>1, <1>2, <1>3 DEF UpdateStep, RemoveStep

----------------------------------------------------------------------------
(* Steps that count samples *)

LEMMA LoseStepInv == IInv /\ StepInv /\ Lose => StepInv'
<1> SUFFICES ASSUME IInv, StepInv, Lose PROVE StepInv'
  OBVIOUS
<1>1. PICK n \in 1 .. MaxFrames :
        /\ device.gap + n <= MaxGap
        /\ device' = [device EXCEPT !.total = (@ + n) % Total,
                                    !.gap = IF device.heard THEN @ + n ELSE 0]
  BY DEF Lose
<1>2. pc["callback"] = "idle" /\ UNCHANGED <<isight, pcm, pc, packet, past>>
  BY DEF Lose, Ready
<1>3. /\ device'.total = (device.total + n) % Total /\ device'.heard = device.heard
      /\ device'.gap = IF device.heard THEN device.gap + n ELSE 0
  BY <1>1 DEF IInv, Types
<1>4. /\ (device.total + n) % Total \in Int /\ 0 <= (device.total + n) % Total
      /\ (device.total + n) % Total < Total
      /\ device.heard => (device.total + n) % Total = (isight.total + (device.gap + n)) % Total
  <2>1. device.heard => device.total = (isight.total + device.gap) % Total
    BY <1>2 DEF StepInv, Following, Origin, Ahead, Pending
  <2>2. /\ n \in Int /\ 0 <= n /\ device.total \in Int /\ 0 <= device.total
        /\ device.total < Total /\ isight.total \in Int /\ 0 <= isight.total
        /\ isight.total < Total /\ device.gap \in Int /\ 0 <= device.gap
    BY Sizes DEF StepInv, Numbers
  <2>3. After(After(isight.total, device.gap), n) = After(isight.total, device.gap + n)
    BY <2>2, Later
  <2>4. /\ (device.total + n) % Total \in Int /\ 0 <= (device.total + n) % Total
        /\ (device.total + n) % Total < Total
    BY <2>2, Counting, Sizes
  <2>5. QED
    BY <2>1, <2>3, <2>4 DEF After
<1>5. Numbers'
  BY <1>1, <1>2, <1>3, <1>4, Sizes DEF StepInv, Numbers
<1>6. InCall' /\ Recording'
  BY <1>2, <1>3 DEF StepInv, InCall, Recording, Pending, Live
<1>7. Following'
  BY <1>2, <1>3, <1>4 DEF StepInv, Following, Origin, Ahead, Pending
<1>8. InStep'
  BY <1>2 DEF StepInv, InStep, Behind, Live
<1>9. QED
  BY <1>5, <1>6, <1>7, <1>8 DEF StepInv

\* isight_dropped_samples() finds what was lost.
LEMMA LostCount ==
  ASSUME StepInv
  PROVE  (After(isight.total, device.gap) - isight.total) % Total = device.gap
<1>1. /\ isight.total \in Int /\ 0 <= isight.total /\ isight.total < Total
      /\ device.gap \in Int /\ 0 <= device.gap /\ device.gap < Total
  BY Sizes DEF StepInv, Numbers
<1>2. QED
  BY <1>1, Later

LEMMA PacketStepInv == IInv /\ StepInv /\ Packet => StepInv'
<1> SUFFICES ASSUME IInv, StepInv, Packet PROVE StepInv'
  OBVIOUS
<1>1. PICK n \in 0 .. MaxFrames :
        /\ packet' = [count |-> n, total |-> device.total]
        /\ device' = [device EXCEPT !.total = (@ + n) % Total, !.gap = 0, !.heard = TRUE]
  BY DEF Packet
<1> DEFINE fills == isight.running /\ device.total # isight.total /\ ~isight.first
<1>2. /\ pc["callback"] = "idle" /\ isight.context /\ UNCHANGED pcm
      /\ pc' = [pc EXCEPT !["callback"] = IF fills THEN "fill" ELSE "check"]
  BY DEF Packet, Ready, Goto
<1>3. /\ pc'["callback"] = IF fills THEN "fill" ELSE "check"
      /\ pc'["user"] = pc["user"] /\ pc'["remove"] = pc["remove"]
  BY <1>2 DEF IInv, Types, Places
<1>4. /\ past'.want = IF isight.running THEN (past.want + device.gap) % BufferSize ELSE past.want
      /\ past'.equal <=> (past.equal \/ (isight.first /\ device.total = isight.total))
      /\ past'.torn = past.torn
  BY DEF Packet, IInv, Types
<1>5. /\ isight'.pointer = isight.pointer /\ isight'.context = isight.context
      /\ isight'.running = isight.running
      /\ isight'.total = IF fills THEN isight.total ELSE device.total
      /\ isight'.first <=> (isight.first /\ (fills \/ device.total = isight.total))
  <2>1. isight' = IF device.total = isight.total \/ fills THEN isight
                  ELSE [isight EXCEPT !.first = FALSE, !.total = device.total]
    BY <1>3 DEF Packet
  <2>2. QED BY <2>1 DEF IInv, Types, Fields
<1>6. device'.total = (device.total + n) % Total /\ device'.gap = 0 /\ device'.heard
  BY <1>1 DEF IInv, Types
<1>7. /\ packet'.count = n /\ packet'.total = device.total
      /\ n \in Int /\ 0 <= n /\ n <= MaxFrames
  BY <1>1, Sizes
<1>8. /\ device.heard => device.total = (isight.total + device.gap) % Total
      /\ ~device.heard => isight.first /\ device.gap = 0
      /\ device.heard /\ isight.first => past.equal
  BY <1>2 DEF StepInv, Following, Origin, Ahead, Pending
<1>9. /\ (device.total + n) % Total \in Int /\ 0 <= (device.total + n) % Total
      /\ (device.total + n) % Total < Total
  BY <1>7, Counting, Sizes DEF StepInv, Numbers
<1>10. /\ (past.want + device.gap) % BufferSize \in Int
       /\ 0 <= (past.want + device.gap) % BufferSize
       /\ (past.want + device.gap) % BufferSize < BufferSize
       /\ device.gap = 0 => (past.want + device.gap) % BufferSize = past.want
  BY Counting, Sizes DEF StepInv, Numbers
<1>11. Numbers'
  <2>1. isight'.pointer \in Int /\ 0 <= isight'.pointer /\ isight'.pointer < BufferSize
    BY <1>5 DEF StepInv, Numbers
  <2>2. past'.want \in Int /\ 0 <= past'.want /\ past'.want < BufferSize
    BY <1>4, <1>10 DEF StepInv, Numbers
  <2>3. isight'.total \in Int /\ 0 <= isight'.total /\ isight'.total < Total
    BY <1>5 DEF StepInv, Numbers
  <2>4. QED
    BY <2>1, <2>2, <2>3, <1>6, <1>7, <1>9, Sizes DEF StepInv, Numbers
<1>12. InCall'
  BY <1>2, <1>3, <1>5, <1>6 DEF StepInv, InCall, Pending
<1>13. Recording'
  BY <1>2, <1>3, <1>5 DEF StepInv, Recording, Live
<1>14. Following'
  <2>1. Origin' = device.total /\ Ahead' = n
    BY <1>3, <1>5, <1>7 DEF Origin, Ahead, Pending
  <2>2. isight'.first => past'.equal
    BY <1>4, <1>5
  <2>3. QED
    BY <1>6, <2>1, <2>2 DEF Following
<1>15. InStep'
  <2> SUFFICES ASSUME Live', ~past'.equal, ~past'.torn
               PROVE  past'.want = (isight'.pointer + Behind') % BufferSize
    BY DEF InStep
  <2>1. Live
    BY <1>2, <1>3 DEF Live
  <2>2. past.want = (isight.pointer + 0) % BufferSize
    BY <1>2, <1>4, <2>1 DEF StepInv, InStep, Behind
  <2>3. past.want = isight.pointer
    BY <2>2, Counting, Sizes DEF StepInv, Numbers
  <2>4. CASE fills
    <3>1. Dropped' = device.gap
      <4>1. Dropped' = (device.total - isight.total) % Total
        BY <1>5, <1>7, <2>4 DEF Dropped
      <4>2. device.total = (isight.total + device.gap) % Total
        BY <1>8, <2>4
      <4>3. (((isight.total + device.gap) % Total) - isight.total) % Total = device.gap
        BY LostCount DEF After
      <4>4. QED
        BY <4>1, <4>2, <4>3
    <3>2. QED
      BY <1>3, <1>4, <1>5, <2>3, <2>4, <3>1 DEF Behind
  <2>5. CASE ~fills
    <3>1. isight.running => device.gap = 0
      <4> SUFFICES ASSUME isight.running, device.heard PROVE device.gap = 0
        BY <1>8
      <4>1. device.total = isight.total
        BY <1>4, <1>8, <2>5
      <4>2. ((isight.total + device.gap) % Total) - isight.total = 0
        BY <4>1, <1>8 DEF StepInv, Numbers
      <4>3. (((isight.total + device.gap) % Total) - isight.total) % Total = device.gap
        BY LostCount DEF After
      <4>4. (0 + 0) % Total = 0
        BY Counting, Sizes
      <4>5. QED
        BY <4>2, <4>3, <4>4
    <3>2. past'.want = isight.pointer
      BY <1>4, <1>10, <2>3, <3>1
    <3>3. QED
      BY <1>3, <1>5, <2>2, <2>3, <2>5, <3>2 DEF Behind
  <2>6. QED
    BY <2>4, <2>5
<1>16. QED
  BY <1>11, <1>12, <1>13, <1>14, <1>15 DEF StepInv

\* What isight_update_pointers() makes of the pointer
LEMMA AdvancedBy ==
  ASSUME Types, Numbers, NEW n \in Int, 0 <= n, n < BufferSize
  PROVE  LET a == Advanced(n) IN
         /\ a.pointer = (isight.pointer + n) % BufferSize
         /\ a.pointer \in Int /\ 0 <= a.pointer /\ a.pointer < BufferSize
         /\ DOMAIN a = Fields /\ a.total = isight.total /\ a.first = isight.first
         /\ a.context = isight.context /\ a.running = isight.running
<1>1. Advanced(n).pointer =
        IF isight.pointer + n >= BufferSize THEN isight.pointer + n - BufferSize
        ELSE isight.pointer + n
  <2> DEFINE p == isight.pointer + n
             c == isight.counter + n
             d == IF c >= PeriodSize THEN c - PeriodSize ELSE c
  <2>1. Advanced(n) = [isight EXCEPT !.pointer = IF p >= BufferSize THEN p - BufferSize ELSE p,
                                     !.counter = d]
    BY DEF Advanced
  <2> HIDE DEF d
  <2>2. QED
    BY <2>1, Sizes DEF Types, Fields, Numbers
<1>2. Advanced(n).pointer = (isight.pointer + n) % BufferSize
  BY <1>1, Wraps, Sizes DEF Numbers
<1>3. /\ (isight.pointer + n) % BufferSize \in Int
      /\ 0 <= (isight.pointer + n) % BufferSize
      /\ (isight.pointer + n) % BufferSize < BufferSize
  BY Counting, Sizes DEF Numbers
<1>4. QED
  BY <1>2, <1>3 DEF Advanced, Types, Fields

LEMMA FillStepInv == IInv /\ StepInv /\ Fill => StepInv'
<1> SUFFICES ASSUME IInv, StepInv, Fill PROVE StepInv'
  OBVIOUS
<1>1. /\ pc["callback"] = "fill" /\ pc' = [pc EXCEPT !["callback"] = "check"]
      /\ UNCHANGED <<packet, device>>
  BY DEF Fill, Goto
<1>2. /\ pc'["callback"] = "check" /\ pc'["user"] = pc["user"]
      /\ pc'["remove"] = pc["remove"]
  BY <1>1 DEF IInv, Types, Places
<1>3. Dropped \in Int /\ 0 <= Dropped
  BY Sizes DEF StepInv, Numbers, Dropped
<1>4. \* what both branches have in common
      ASSUME isight'.total = packet.total, isight'.context = isight.context,
             isight'.first = isight.first, isight'.running => isight.running,
             pcm' # pcm => ~isight'.running, Live' => Live,
             isight'.pointer \in Int, 0 <= isight'.pointer, isight'.pointer < BufferSize,
             past'.want = past.want, past'.equal = past.equal,
             past'.torn = past.torn,
             Live' /\ ~past.equal /\ ~past.torn => isight'.pointer = past.want
      PROVE  StepInv'
  <2>1. Numbers'
    BY <1>1, <1>4 DEF StepInv, Numbers
  <2>2. InCall'
    BY <1>1, <1>2, <1>4 DEF StepInv, InCall, Pending
  <2>3. Recording'
    BY <1>2, <1>4 DEF StepInv, Recording
  <2>4. Following'
    <3>1. Origin' = Origin /\ Ahead' = Ahead
      BY <1>1, <1>2, <1>4 DEF Origin, Ahead, Pending
    <3>2. QED
      BY <1>1, <1>4, <3>1 DEF StepInv, Following
  <2>5. InStep'
    <3>1. Behind' = 0
      BY <1>2 DEF Behind
    <3>2. (isight'.pointer + 0) % BufferSize = isight'.pointer
      BY <1>4, Counting, Sizes
    <3>3. QED
      BY <1>4, <3>1, <3>2 DEF InStep
  <2>6. QED
    BY <2>1, <2>2, <2>3, <2>4, <2>5 DEF StepInv
<1>5. CASE Dropped < BufferSize
  <2>1. isight' = [Advanced(Dropped) EXCEPT !.total = packet.total] /\ UNCHANGED <<pcm, past>>
    BY <1>5 DEF Fill
  <2>2. /\ isight'.pointer = (isight.pointer + Dropped) % BufferSize
        /\ isight'.pointer \in Int /\ 0 <= isight'.pointer /\ isight'.pointer < BufferSize
        /\ isight'.total = packet.total /\ isight'.first = isight.first
        /\ isight'.context = isight.context /\ isight'.running = isight.running
    BY <1>3, <1>5, <2>1, AdvancedBy DEF IInv, StepInv, Fields
  <2>3. Live' => Live
    BY <1>2, <2>1 DEF Live
  <2>4. Live /\ ~past.equal /\ ~past.torn => isight'.pointer = past.want
    BY <1>1, <2>2 DEF StepInv, InStep, Behind
  <2>5. QED
    BY <1>4, <2>1, <2>2, <2>3, <2>4
<1>6. CASE ~(Dropped < BufferSize)
  <2> DEFINE next == [isight EXCEPT !.total = packet.total]
  <2>1. isight_pcm_abort(next)
    BY <1>6 DEF Fill
  <2>2. /\ DOMAIN next = Fields /\ next.running = isight.running
        /\ next.total = packet.total /\ next.first = isight.first
        /\ next.context = isight.context /\ next.pointer = isight.pointer
    BY DEF IInv, Types, Fields
  <2> HIDE DEF next
  <2>3. /\ \A f \in Fields \ {"running"} : isight'[f] = next[f]
        /\ past'.want = past.want /\ past'.equal = past.equal /\ past'.torn = past.torn
        /\ pcm = "running" => pcm' = "setup" /\ ~isight'.running /\ ~Live'
        /\ pcm # "running" => pcm' = pcm /\ isight'.running = isight.running
        /\ Live' => Live
    BY <1>2, <2>1, <2>2, AbortStep
  <2>4. Live' => past.torn
    BY <1>1, <2>3 DEF StepInv, Recording
  <2>5. /\ isight'.total = packet.total /\ isight'.first = isight.first
        /\ isight'.context = isight.context /\ isight'.pointer = isight.pointer
    BY <2>2, <2>3 DEF Fields
  <2>6. QED
    BY <1>4, <2>3, <2>4, <2>5 DEF StepInv, Numbers
<1>7. QED
  BY <1>5, <1>6

LEMMA CheckStepInv == IInv /\ StepInv /\ Check => StepInv'
<1> SUFFICES ASSUME IInv, StepInv, Check PROVE StepInv'
  OBVIOUS
<1>1. /\ pc["callback"] = "check" /\ UNCHANGED <<pcm, packet, device>>
      /\ pc' = [pc EXCEPT !["callback"] = IF isight.running THEN "copy" ELSE "queue"]
  BY DEF Check, Goto
<1>2. /\ pc'["callback"] = IF isight.running THEN "copy" ELSE "queue"
      /\ pc'["user"] = pc["user"] /\ pc'["remove"] = pc["remove"]
  BY <1>1 DEF IInv, Types, Places
<1>3. /\ isight'.total = IF isight.running THEN isight.total
                         ELSE (isight.total + packet.count) % Total
      /\ isight'.pointer = isight.pointer /\ isight'.context = isight.context
      /\ isight'.first = isight.first /\ isight'.running = isight.running
  BY DEF Check, IInv, Types, Fields
<1>4. /\ past'.want = IF isight.running THEN (past.want + packet.count) % BufferSize
                      ELSE past.want
      /\ past'.equal = past.equal /\ past'.torn = past.torn
  BY DEF Check, IInv, Types
<1>5. /\ device.heard /\ device.gap = 0
      /\ device.total = (isight.total + packet.count) % Total
  BY <1>1 DEF StepInv, InCall, Following, Origin, Ahead, Pending
<1>6. Numbers'
  <2>1. /\ (past.want + packet.count) % BufferSize \in Int
        /\ 0 <= (past.want + packet.count) % BufferSize
        /\ (past.want + packet.count) % BufferSize < BufferSize
    BY Counting, Sizes DEF StepInv, Numbers
  <2>2. past'.want \in Int /\ 0 <= past'.want /\ past'.want < BufferSize
    BY <1>4, <2>1 DEF StepInv, Numbers
  <2>3. QED
    BY <1>1, <1>3, <1>5, <2>2 DEF StepInv, Numbers
<1>7. InCall' /\ Recording'
  BY <1>1, <1>2, <1>3, <1>5 DEF StepInv, InCall, Recording, Pending, Live
<1>8. Following'
  <2>1. (device.total + 0) % Total = device.total
    BY Counting, Sizes DEF StepInv, Numbers
  <2>2. device'.total = (Origin' + Ahead') % Total
    BY <1>1, <1>2, <1>3, <1>5, <2>1 DEF Origin, Ahead, Pending
  <2>3. QED
    BY <1>1, <1>3, <1>4, <1>5, <2>2 DEF StepInv, Following
<1>9. InStep'
  <2> SUFFICES ASSUME Live', ~past'.equal, ~past'.torn
               PROVE  past'.want = (isight'.pointer + Behind') % BufferSize
    BY DEF InStep
  <2>1. past.want = (isight.pointer + 0) % BufferSize
    BY <1>1, <1>2, <1>4 DEF StepInv, InStep, Behind, Live
  <2>2. past.want = isight.pointer
    BY <2>1, Counting, Sizes DEF StepInv, Numbers
  <2>3. QED
    BY <1>1, <1>2, <1>3, <1>4, <2>1, <2>2 DEF Behind
<1>10. QED
  BY <1>6, <1>7, <1>8, <1>9 DEF StepInv

LEMMA CopyStepInv == IInv /\ StepInv /\ Copy => StepInv'
<1> SUFFICES ASSUME IInv, StepInv, Copy PROVE StepInv'
  OBVIOUS
<1>1. /\ pc["callback"] = "copy" /\ pc' = [pc EXCEPT !["callback"] = "queue"]
      /\ isight' = [Advanced(packet.count) EXCEPT !.total = (@ + packet.count) % Total]
      /\ UNCHANGED <<pcm, packet, device, past>>
  BY DEF Copy, Goto
<1>2. /\ pc'["callback"] = "queue" /\ pc'["user"] = pc["user"]
      /\ pc'["remove"] = pc["remove"]
  BY <1>1 DEF IInv, Types, Places
<1>3. /\ isight'.pointer = (isight.pointer + packet.count) % BufferSize
      /\ isight'.pointer \in Int /\ 0 <= isight'.pointer /\ isight'.pointer < BufferSize
      /\ isight'.total = (isight.total + packet.count) % Total
      /\ isight'.context = isight.context
      /\ isight'.first = isight.first /\ isight'.running = isight.running
  <2>1. packet.count \in Int /\ 0 <= packet.count /\ packet.count < BufferSize
    BY Sizes DEF StepInv, Numbers
  <2>2. QED
    BY <1>1, <2>1, AdvancedBy DEF IInv, StepInv, Fields
<1>4. /\ device.heard /\ device.gap = 0
      /\ device.total = (isight.total + packet.count) % Total
  BY <1>1 DEF StepInv, InCall, Following, Origin, Ahead, Pending
<1>5. Numbers'
  BY <1>1, <1>3, <1>4 DEF StepInv, Numbers
<1>6. InCall' /\ Recording'
  BY <1>1, <1>2, <1>3 DEF StepInv, InCall, Recording, Pending, Live
<1>7. Following'
  <2>1. (device.total + 0) % Total = device.total
    BY Counting, Sizes DEF StepInv, Numbers
  <2>2. device'.total = (Origin' + Ahead') % Total
    BY <1>1, <1>2, <1>3, <1>4, <2>1 DEF Origin, Ahead, Pending
  <2>3. QED
    BY <1>1, <1>3, <1>4, <2>2 DEF StepInv, Following
<1>8. InStep'
  <2>1. Behind' = 0
    BY <1>2 DEF Behind
  <2>2. (isight'.pointer + 0) % BufferSize = isight'.pointer
    BY <1>3, Counting, Sizes
  <2>3. QED
    BY <1>1, <1>2, <1>3, <2>1, <2>2 DEF StepInv, InStep, Behind, Live
<1>9. QED
  BY <1>5, <1>6, <1>7, <1>8 DEF StepInv

\* Before a packet, after one, and with one that is not looked at, the same holds.
LEMMA QuietStepInv ==
  IInv /\ StepInv /\ (PacketIsBad \/ Queue \/ QueueFailed) => StepInv'
<1> SUFFICES ASSUME IInv, StepInv, PacketIsBad \/ Queue \/ QueueFailed PROVE StepInv'
  OBVIOUS
<1> DEFINE Resting == {"idle", "queue", "failed"}
<1>1. /\ pc["callback"] \in Resting /\ pc'["callback"] \in Resting
      /\ pc'["user"] = pc["user"] /\ pc'["remove"] = pc["remove"]
      /\ UNCHANGED device /\ isight.context
      /\ packet' = packet \/ packet' = NoPacket
  <2>1. PICK l \in Resting : pc' = [pc EXCEPT !["callback"] = l]
    BY DEF PacketIsBad, Queue, QueueFailed, Goto
  <2>2. /\ pc["callback"] \in Resting /\ isight.context /\ UNCHANGED device
        /\ packet' = packet \/ packet' = NoPacket
    BY DEF PacketIsBad, Queue, QueueFailed, Ready, StepInv, InCall
  <2>3. QED
    BY <2>1, <2>2 DEF IInv, Types, Places
<1>2. /\ isight'.pointer = isight.pointer /\ isight'.total = isight.total
      /\ isight'.first = isight.first /\ isight'.context = isight.context
      /\ isight'.running => isight.running
      /\ past'.want = past.want /\ past'.equal = past.equal /\ past'.torn = past.torn
      /\ Live' => Live
      /\ pcm' = pcm \/ ~isight'.running
  <2>1. CASE isight_pcm_abort(isight)
    <3>1. DOMAIN isight = Fields
      BY DEF IInv, Types
    <3>2. /\ \A f \in Fields \ {"running"} : isight'[f] = isight[f]
          /\ past'.want = past.want /\ past'.equal = past.equal /\ past'.torn = past.torn
          /\ pcm = "running" => pcm' = "setup" /\ ~isight'.running /\ ~Live'
          /\ pcm # "running" => pcm' = pcm /\ isight'.running = isight.running
          /\ Live' => Live
      BY <1>1, <2>1, <3>1, AbortStep
    <3>3. QED
      BY <3>2 DEF Fields
  <2>2. CASE /\ UNCHANGED <<pcm, past>>
             /\ \/ UNCHANGED isight
                \/ isight' = [isight EXCEPT !.index = (@ + 1) % QueueLength]
                \/ isight' = [isight EXCEPT !.index = -1]
    BY <1>1, <2>2 DEF IInv, Types, Fields, Live
  <2>3. QED
    BY <2>1, <2>2 DEF PacketIsBad, Queue, QueueFailed
<1>3. Numbers'
  BY <1>1, <1>2, Sizes DEF StepInv, Numbers, NoPacket
<1>4. InCall' /\ Recording'
  BY <1>1, <1>2 DEF StepInv, InCall, Recording, Pending
<1>5. Following' /\ InStep'
  <2>1. Origin' = Origin /\ Ahead' = Ahead /\ Behind' = Behind
    BY <1>1, <1>2 DEF Origin, Ahead, Behind, Pending
  <2>2. QED
    BY <1>1, <1>2, <2>1 DEF StepInv, Following, InStep
<1>6. QED
  BY <1>3, <1>4, <1>5 DEF StepInv

----------------------------------------------------------------------------
\* A substream that records stays in step with the device, whatever packets are lost and
\* whenever it is stopped, prepared and started: isight_packet(), isight_samples(),
\* isight_update_pointers().
THEOREM InStepWithDevice == Spec => []PointerInStep
<1>1. Init => StepInv
  <2> SUFFICES ASSUME Init PROVE StepInv
    OBVIOUS
  <2>1. Numbers
    BY Sizes DEF Init, Numbers, NoPacket
  <2>2. InCall /\ Recording
    BY DEF Init, InCall, Recording, Pending
  <2>3. Following /\ InStep
    BY DEF Init, Following, InStep, Live
  <2>4. QED
    BY <2>1, <2>2, <2>3 DEF StepInv
<1>2. IInv /\ StepInv /\ [Next]_vars => StepInv'
  <2>1. CASE UNCHANGED vars
    <3>1. IInv /\ StepInv /\ Kept => Numbers' /\ Following' /\ InStep'
      BY KeptInv
    <3>2. Kept
      BY <2>1 DEF vars, Kept, Live
    <3>3. StepInv => InCall' /\ Recording'
      BY <2>1 DEF vars, StepInv, InCall, Recording, Pending, Live
    <3>4. QED
      BY <3>1, <3>2, <3>3 DEF StepInv
  <2>2. QED
    BY <2>1, LoseStepInv, PcmStepInv, StreamingStepInv, RestStepInv, PacketStepInv,
      FillStepInv, CheckStepInv, CopyStepInv, QuietStepInv
    DEF Next, CallbackStep
<1>3. StepInv => PointerInStep
  <2> SUFFICES ASSUME StepInv, pcm = "running", pc["callback"] = "idle",
                      ~past.equal, ~past.torn
               PROVE  isight.pointer = past.want
    BY DEF PointerInStep
  <2>1. past.want = (isight.pointer + 0) % BufferSize
    BY DEF StepInv, InStep, Live, Behind
  <2>2. QED
    BY <2>1, Counting, Sizes DEF StepInv, Numbers
<1>4. QED
  BY <1>1, <1>2, <1>3, Invariance, PTL DEF Spec

----------------------------------------------------------------------------
(* Scs1x *)

\* What is needed of the types
ScsTypes ==
  /\ DOMAIN scs = {"stream", "idle", "running", "status", "bytes", "escaped", "high", "half"}
  /\ DOMAIN tasklet = {"scheduled", "at"}
  /\ DOMAIN scsPast = {"escaped", "crossed", "late"}

\* Who sets output_idle is the tasklet, when it has nothing to send and nobody schedules
\* it again; without an output, and only a late trigger sets one once scs_remove() has
\* cleared it, a tasklet that starts has nothing to do.
ScsIdle ==
  /\ tasklet.at # "off" => ~scs.running
  /\ scs.idle /\ (scs.running \/ tasklet.scheduled \/ tasklet.at # "off") => scsPast.crossed
  /\ remove # "no" /\ ~scsPast.late => ~scs.stream
  /\ remove = "kill" /\ (scs.running \/ tasklet.at # "off") => scsPast.crossed \/ scsPast.late

ScsInv == ScsTypes /\ ScsIdle

LEMMA InitScs == ScsInit => ScsInv
BY DEF ScsInit, ScsInv, ScsTypes, ScsIdle

LEMMA TaskletScs == ScsInv /\ (TaskletStep \/ scs_write_callback) => ScsInv'
<1> SUFFICES ASSUME ScsInv, TaskletStep \/ scs_write_callback PROVE ScsInv'
  OBVIOUS
<1> USE DEF ScsInv, ScsTypes, ScsIdle
<1>1. CASE TaskletStarts
  BY <1>1 DEF TaskletStarts
<1>2. CASE TaskletByte
  <2>1. /\ tasklet.at = "loop" /\ UNCHANGED <<user, remove>>
        /\ DOMAIN scs' = DOMAIN scs /\ DOMAIN tasklet' = DOMAIN tasklet
        /\ DOMAIN scsPast' = DOMAIN scsPast
        /\ scs'.idle = scs.idle /\ scs'.stream = scs.stream
        /\ scsPast'.crossed = scsPast.crossed /\ scsPast'.late = scsPast.late
        /\ scs'.running => tasklet'.at = "off"
    BY <1>2 DEF TaskletByte
  <2>2. QED
    BY <2>1
<1>3. CASE TaskletFindsNothing
  BY <1>3 DEF TaskletFindsNothing
<1>4. CASE TaskletIsIdle
  BY <1>4 DEF TaskletIsIdle
<1>5. CASE scs_write_callback
  BY <1>5 DEF scs_write_callback
<1>6. QED
  BY <1>1, <1>2, <1>3, <1>4, <1>5 DEF TaskletStep

LEMMA UserScs == ScsInv /\ (UserStep \/ ScsRemoveStep) => ScsInv'
<1> SUFFICES ASSUME ScsInv, UserStep \/ ScsRemoveStep PROVE ScsInv'
  OBVIOUS
<1> USE DEF ScsInv, ScsTypes, ScsIdle
<1>1. CASE scs_output_open
  BY <1>1 DEF scs_output_open
<1>2. CASE Write
  BY <1>2 DEF Write
<1>3. CASE TriggerSets \/ TriggerUp
  BY <1>3 DEF TriggerSets, TriggerUp
<1>4. CASE TriggerDown
  BY <1>4 DEF TriggerDown
<1>5. CASE Drain
  BY <1>5 DEF Drain
<1>6. CASE scs_output_drain
  BY <1>6 DEF scs_output_drain
<1>7. CASE ScsRemoveStep
  BY <1>7 DEF ScsRemoveStep, scs_remove, RemoveWaits, RemoveKills
<1>8. QED
  BY <1>1, <1>2, <1>3, <1>4, <1>5, <1>6, <1>7 DEF UserStep

\* output_idle, the transaction and the tasklet fit each other in every reachable state.
THEOREM ScsInvariance == ScsSpec => []ScsInv
<1>1. ScsInit => ScsInv
  BY InitScs
<1>2. ScsInv /\ [ScsNext]_scsVars => ScsInv'
  <2>1. CASE UNCHANGED scsVars
    BY <2>1 DEF scsVars, ScsInv, ScsTypes, ScsIdle
  <2>2. QED
    BY <2>1, TaskletScs, UserScs DEF ScsNext
<1>3. QED
  BY <1>1, <1>2, PTL DEF ScsSpec

\* scs_output_drain() and scs_remove() only return with no transaction left, unless a
\* trigger crossed the tasklet, or scs_remove() was overtaken by one that set the output
\* again.
THEOREM WaitSent == ScsSpec => WaitMeansSent
<1>1. ScsInv /\ [ScsNext]_scsVars =>
        [/\ user = "drain" /\ user' # "drain" => ~scs.running \/ scsPast.crossed
         /\ remove # "gone" /\ remove' = "gone"
              => ~scs.running \/ scsPast.crossed \/ scsPast.late]_scsVars
  <2> SUFFICES ASSUME ScsInv, ScsNext
               PROVE  /\ user = "drain" /\ user' # "drain" => ~scs.running \/ scsPast.crossed
                      /\ remove # "gone" /\ remove' = "gone"
                           => ~scs.running \/ scsPast.crossed \/ scsPast.late
    OBVIOUS
  <2> USE DEF ScsNext, TaskletStep, UserStep, ScsRemoveStep, TaskletStarts, TaskletByte,
      TaskletFindsNothing, TaskletIsIdle, scs_write_callback, scs_output_open, Write,
      TriggerSets, TriggerUp, TriggerDown, Drain, scs_output_drain, scs_remove, RemoveWaits,
      RemoveKills
  <2>1. user = "drain" /\ user' # "drain" => scs.idle
    OBVIOUS
  <2>2. remove # "gone" /\ remove' = "gone" => remove = "kill"
    OBVIOUS
  <2>3. QED
    BY <2>1, <2>2 DEF ScsInv, ScsIdle
<1>2. QED
  BY <1>1, ScsInvariance, PTL DEF ScsSpec, WaitMeansSent

----------------------------------------------------------------------------
(* Induction and recursion over the naturals.  The theorems of the library  *)
(* have a predicate for a parameter; these have a set, or a function.       *)

LEMMA Least ==
  ASSUME NEW T \in SUBSET Nat, T # {}
  PROVE  \E x \in T : \A y \in T : x <= y
<1> DEFINE Less == {ss \in Nat \X Nat : ss[1] < ss[2]}
<1>1. IsWellFoundedOn(Less, Nat)
  BY NatLessThanWellFounded DEF OpToRel
<1>2. PICK x \in T : \A y \in T : <<y, x>> \notin Less
  BY <1>1, WFMin
<1>3. ASSUME NEW y \in T PROVE x <= y
  <2>1. x \in Nat /\ y \in Nat
    OBVIOUS
  <2>2. ~(y < x)
    BY <1>2, <2>1
  <2>3. QED
    BY <2>1, <2>2
<1>4. QED
  BY <1>3

LEMMA Induction ==
  ASSUME NEW T, 0 \in T, \A n \in Nat : n \in T => n + 1 \in T
  PROVE  \A n \in Nat : n \in T
<1> SUFFICES ASSUME NEW k \in Nat \ T PROVE FALSE
  OBVIOUS
<1>1. PICK x \in Nat \ T : \A y \in Nat \ T : x <= y
  <2>1. Nat \ T \in SUBSET Nat /\ Nat \ T # {}
    OBVIOUS
  <2>2. QED
    BY <2>1, Least
<1>2. x # 0
  OBVIOUS
<1>3. x - 1 \in Nat /\ x - 1 \in T
  BY <1>1, <1>2
<1>4. QED
  BY <1>1, <1>3

\* f is defined up to n by primitive recursion, from c with D.
PrimRec(f, S, c, D, n) ==
  /\ f \in [0 .. n -> S]
  /\ \A i \in 0 .. n : f[i] = IF i = 0 THEN c ELSE D[<<f[i - 1], i>>]

\* What is defined by primitive recursion exists.
LEMMA Recursion ==
  \A S : \A c \in S : \A D \in [S \X Nat -> S] : \A n \in Nat :
    \E f : PrimRec(f, S, c, D, n)
<1> SUFFICES ASSUME NEW S, NEW c \in S, NEW D \in [S \X Nat -> S], NEW n \in Nat
             PROVE  \E f : PrimRec(f, S, c, D, n)
  OBVIOUS
<1> DEFINE Is(f, m) == \A i \in 0 .. m : f[i] = IF i = 0 THEN c ELSE D[<<f[i - 1], i>>]
           T == {m \in Nat : \E f \in [0 .. m -> S] : Is(f, m)}
<1>1. 0 \in T
  <2>1. [i \in 0 .. 0 |-> c] \in [0 .. 0 -> S] /\ Is([i \in 0 .. 0 |-> c], 0)
    OBVIOUS
  <2>2. QED
    BY <2>1
<1>2. ASSUME NEW m \in Nat, m \in T PROVE m + 1 \in T
  <2>1. PICK f \in [0 .. m -> S] : Is(f, m)
    BY <1>2
  <2> DEFINE g == [i \in 0 .. m + 1 |-> IF i = m + 1 THEN D[<<f[m], m + 1>>] ELSE f[i]]
  <2>2. f[m] \in S /\ D[<<f[m], m + 1>>] \in S
    OBVIOUS
  <2>3. g \in [0 .. m + 1 -> S]
    BY <2>2
  <2>4. ASSUME NEW i \in 0 .. m + 1
        PROVE  g[i] = IF i = 0 THEN c ELSE D[<<g[i - 1], i>>]
    <3>1. CASE i = m + 1
      <4>1. i # 0 /\ i - 1 = m /\ m \in 0 .. m + 1 /\ m # m + 1
        BY <3>1
      <4>2. g[i - 1] = f[m]
        BY <4>1
      <4>3. QED
        BY <3>1, <4>1, <4>2
    <3>2. CASE i # m + 1
      <4>1. i \in 0 .. m /\ g[i] = f[i]
        BY <3>2
      <4>2. i # 0 => i - 1 \in 0 .. m + 1 /\ i - 1 # m + 1 /\ g[i - 1] = f[i - 1]
        BY <4>1
      <4>3. QED
        BY <2>1, <4>1, <4>2
    <3>3. QED
      BY <3>1, <3>2
  <2>5. Is(g, m + 1)
    BY <2>4
  <2> HIDE DEF g, Is
  <2>6. QED
    BY <2>3, <2>5
<1>3. n \in T
  <2> HIDE DEF T
  <2>1. QED
    BY <1>1, <1>2, Induction
<1>4. QED
  BY <1>3 DEF PrimRec


----------------------------------------------------------------------------
(* One command per packet *)

PacketState == [cells : Seq(Int), status : Int, escaped : BOOLEAN, high : BOOLEAN,
                half : Int, send : BOOLEAN]

\* The first part of a command.
Partial(c, status) ==
  /\ Len(c) > 1 /\ c[1] = TAG /\ c[2] = status
  /\ \A i \in 3 .. Len(c) : c[i] < 128
  /\ \/ is_two_bytes_cmd(status) /\ Len(c) = 2
     \/ is_three_bytes_cmd(status) /\ Len(c) \in {2, 3}
     \/ status = 240 /\ ~IsPrefix(Prefix, Tail(c))

\* What the tasklet may be in the middle of; with one cell it is nothing.
Parsed(c, status, escaped) == escaped \/ Len(c) = 1 \/ Partial(c, status)

\* What is sent
Whole(c, escaped) == IF escaped THEN Len(c) > 0 /\ Head(c) # ADDR ELSE IsCommand(c)

LEMMA PrefixIs ==
  /\ Prefix \in Seq(Int) /\ Len(Prefix) \in Nat /\ Len(Prefix) > 1 /\ Len(Prefix) < MaxPacket
  /\ MaxPacket \in Nat /\ MaxPacket > 4
  /\ Prefix[1] = 240 /\ \A i \in 2 .. Len(Prefix) : Prefix[i] < 128
<1>1. MidiBytes \subseteq Int
  BY ScsAssumption
<1>2. Prefix \in Seq(Int)
  <2>1. Prefix \in Seq(MidiBytes)
    BY ScsAssumption
  <2>2. QED
    BY <1>1, <2>1, SeqMonotonic
<1>3. QED
  BY <1>2, ScsAssumption

LEMMA IsPrefixIs ==
  ASSUME NEW s \in Seq(Int)
  PROVE  IsPrefix(Prefix, s) <=> /\ Len(Prefix) <= Len(s)
                                 /\ \A i \in 1 .. Len(Prefix) : Prefix[i] = s[i]
<1>1. Len(s) \in Nat
  OBVIOUS
<1>2. CASE Len(Prefix) <= Len(s)
  <2> DEFINE a == SubSeq(Prefix, 1, Len(Prefix))
             b == SubSeq(s, 1, Len(Prefix))
  <2>1. /\ a \in Seq(Int) /\ Len(a) = Len(Prefix)
        /\ \A i \in 1 .. Len(Prefix) : a[i] = Prefix[i]
    BY PrefixIs
  <2>2. /\ b \in Seq(Int) /\ Len(b) = Len(Prefix)
        /\ \A i \in 1 .. Len(Prefix) : b[i] = s[i]
    BY PrefixIs, <1>1, <1>2
  <2> HIDE DEF a, b
  <2>3. a = b <=> \A i \in 1 .. Len(Prefix) : a[i] = b[i]
    BY <2>1, <2>2, SeqEqual
  <2>4. IsPrefix(Prefix, s) <=> a = b
    BY <1>2 DEF IsPrefix, a, b
  <2>5. QED
    BY <1>2, <2>1, <2>2, <2>3, <2>4
<1>3. CASE ~(Len(Prefix) <= Len(s))
  BY <1>3 DEF IsPrefix
<1>4. QED
  BY <1>2, <1>3

LEMMA DataWithin ==
  ASSUME NEW s \in Seq(Int), NEW m \in Int, NEW n \in Int, 1 <= m, n <= Len(s),
         \A i \in m .. n : s[i] < 128
  PROVE  Data(SubSeq(s, m, n))
<1> DEFINE t == SubSeq(s, m, n)
<1>1. \A i \in m .. n : s[i] \in Int
  OBVIOUS
<1>2. /\ t \in Seq(Int)
      /\ Len(t) = IF m <= n THEN n - m + 1 ELSE 0
      /\ \A i \in 1 .. n - m + 1 : t[i] = s[m + i - 1]
  BY <1>1, SubSeqProperties, SMTT(60)
<1>3. ASSUME NEW i \in DOMAIN t PROVE t[i] < 128
  <2> HIDE DEF t
  <2>1. DOMAIN t = 1 .. Len(t)
    BY <1>2
  <2>2. m + i - 1 \in m .. n /\ i \in 1 .. n - m + 1
    <3>1. i \in Int /\ 1 <= i /\ i <= Len(t) /\ Len(t) \in Nat
      BY <2>1, <1>2
    <3>2. m <= n /\ Len(t) = n - m + 1
      BY <3>1, <1>2
    <3>3. QED
      BY <3>1, <3>2
  <2>3. QED
    BY <2>2, <1>2
<1>4. QED
  BY <1>3 DEF Data

\* A byte more and still not the prefix
LEMMA NotThePrefix ==
  ASSUME NEW c \in Seq(Int), Len(c) > 1, NEW b \in Int, ~IsPrefix(Prefix, Tail(c)),
         ~(Len(Append(c, b)) = 1 + Len(Prefix) /\ Tail(Append(c, b)) = Prefix)
  PROVE  ~IsPrefix(Prefix, Tail(Append(c, b)))
<1> SUFFICES ASSUME IsPrefix(Prefix, Tail(Append(c, b))) PROVE FALSE
  OBVIOUS
<1> DEFINE t == Tail(c)
           u == Tail(Append(c, b))
<1>1. Len(c) \in Nat /\ t \in Seq(Int) /\ Len(t) = Len(c) - 1
  OBVIOUS
<1>2. u \in Seq(Int) /\ Len(u) = Len(c) /\ Len(Append(c, b)) = Len(c) + 1
  OBVIOUS
<1>3. \A i \in 1 .. Len(t) : u[i] = t[i]
  BY <1>1
<1> HIDE DEF t, u
<1>4. Len(Prefix) <= Len(u) /\ \A i \in 1 .. Len(Prefix) : Prefix[i] = u[i]
  BY <1>2, IsPrefixIs DEF u
<1>5. CASE Len(Prefix) = Len(u)
  <2>1. u = Prefix
    BY <1>2, <1>4, <1>5, PrefixIs, SeqEqual
  <2>2. QED
    BY <2>1, <1>2, <1>5, SMTT(30) DEF u
<1>6. CASE Len(Prefix) < Len(u)
  <2>1. Len(Prefix) <= Len(t)
    BY <1>1, <1>2, <1>6, PrefixIs
  <2>2. ASSUME NEW i \in 1 .. Len(Prefix) PROVE Prefix[i] = t[i]
    <3>1. i \in 1 .. Len(t)
      BY <2>1, <1>1, PrefixIs
    <3>2. QED
      BY <3>1, <1>3, <1>4
  <2>3. QED
    BY <2>1, <2>2, <1>1, IsPrefixIs DEF t
<1>7. QED
  BY <1>4, <1>5, <1>6, <1>2, PrefixIs

LEMMA DataByteParsed ==
  ASSUME NEW p \in PacketState, ~p.send, ~p.escaped, Parsed(p.cells, p.status, FALSE),
         NEW byte \in 0 .. 127
  PROVE  LET q == DataByte(p, byte)
         IN  /\ q \in PacketState
             /\ IF q.send THEN Whole(q.cells, q.escaped)
                ELSE Parsed(q.cells, q.status, q.escaped)
<1> DEFINE q == DataByte(p, byte)
           b == IF Len(p.cells) = 1 THEN <<TAG, p.status>> ELSE p.cells
           c == Append(b, byte)
           prefix == Len(c) = 1 + Len(Prefix) /\ Tail(c) = Prefix
<1>1. /\ p.cells \in Seq(Int) /\ p.status \in Int /\ p.escaped = FALSE /\ p.send = FALSE
      /\ p.high \in BOOLEAN /\ p.half \in Int
      /\ p = [cells |-> p.cells, status |-> p.status, escaped |-> p.escaped,
              high |-> p.high, half |-> p.half, send |-> p.send]
  BY DEF PacketState
<1>2. CASE Len(p.cells) = 1 /\ ~is_valid_running_status(p.status)
  <2>1. q = p
    BY <1>2 DEF DataByte
  <2>2. QED
    BY <2>1, <1>1
<1>3. CASE ~(Len(p.cells) = 1 /\ ~is_valid_running_status(p.status))
  <2>1. /\ b \in Seq(Int) /\ Partial(b, p.status)
    <3>1. CASE Len(p.cells) = 1
      <4>1. b = <<TAG, p.status>> /\ Len(b) = 2 /\ b[1] = TAG /\ b[2] = p.status
        BY <3>1
      <4>2. is_two_bytes_cmd(p.status) \/ is_three_bytes_cmd(p.status)
        BY <3>1, <1>1, <1>3 DEF is_valid_running_status, is_two_bytes_cmd, is_three_bytes_cmd
      <4>3. b \in Seq(Int)
        BY <4>1, <1>1 DEF TAG
      <4>4. Partial(b, p.status)
        <5> HIDE DEF b
        <5>1. QED
          BY <4>1, <4>2 DEF Partial
      <4>5. QED
        BY <4>3, <4>4
    <3>2. CASE Len(p.cells) # 1
      BY <3>2, <1>1 DEF Parsed
    <3>3. QED
      BY <3>1, <3>2
  <2> HIDE DEF b
  <2>2. /\ c \in Seq(Int) /\ Len(c) = Len(b) + 1 /\ Len(b) \in Nat /\ c[Len(c)] = byte
        /\ \A i \in 1 .. Len(b) : c[i] = b[i]
    BY <2>1
  <2>3. /\ Len(c) > 2 /\ c[1] = TAG /\ c[2] = p.status
        /\ \A i \in 3 .. Len(c) : c[i] < 128
    <3> HIDE DEF c
    <3>1. Len(b) > 1 /\ b[1] = TAG /\ b[2] = p.status /\ \A i \in 3 .. Len(b) : b[i] < 128
      BY <2>1 DEF Partial
    <3>2. ASSUME NEW i \in 3 .. Len(c) PROVE c[i] < 128
      <4>1. CASE i = Len(c)
        BY <4>1, <2>2
      <4>2. CASE i # Len(c)
        BY <4>2, <3>1, <2>2, SMTT(30)
      <4>3. QED
        BY <4>1, <4>2
    <3>3. QED
      BY <3>1, <3>2, <2>2
  <2>4. CASE (Len(c) = 3 /\ is_two_bytes_cmd(p.status)) \/ (Len(c) = 4 /\ is_three_bytes_cmd(p.status))
    <3>1. q = [p EXCEPT !.cells = c, !.send = TRUE]
      BY <1>3, <2>4 DEF DataByte, b
    <3>2. q.cells = c /\ q.send = TRUE /\ q.escaped = FALSE /\ q \in PacketState
      <4> HIDE DEF c
      <4>1. QED
        BY <3>1, <1>1, <2>2 DEF PacketState
    <3>3. IsCommand(c)
      <4> HIDE DEF c
      <4>1. CASE Len(c) = 3 /\ is_two_bytes_cmd(p.status)
        BY <4>1, <2>2, <2>3 DEF IsCommand
      <4>2. CASE Len(c) = 4 /\ is_three_bytes_cmd(p.status)
        <5>1. c[3] < 128 /\ c[4] < 128
          BY <4>2, <2>3
        <5>2. Data(<<c[3], c[4]>>)
          BY <5>1 DEF Data
        <5>3. QED
          BY <4>2, <5>2, <2>2, <2>3 DEF IsCommand
      <4>3. QED
        BY <2>4, <4>1, <4>2
    <3> HIDE DEF q, c
    <3>4. QED
      BY <3>2, <3>3 DEF Whole, q
  <2>5. CASE ~((Len(c) = 3 /\ is_two_bytes_cmd(p.status)) \/ (Len(c) = 4 /\ is_three_bytes_cmd(p.status)))
    <3>1. CASE prefix
      <4>1. q = [p EXCEPT !.cells = <<>>, !.escaped = TRUE, !.high = TRUE]
        BY <1>3, <2>5, <3>1 DEF DataByte, b
      <4>2. q.escaped = TRUE /\ q.send = FALSE /\ q \in PacketState
        <5>1. <<>> \in Seq(Int)
          OBVIOUS
        <5>2. q = [cells |-> <<>>, status |-> p.status, escaped |-> TRUE,
                   high |-> TRUE, half |-> p.half, send |-> FALSE]
          BY <4>1, <1>1
        <5>3. QED
          BY <5>1, <5>2, <1>1 DEF PacketState
      <4> HIDE DEF q
      <4>3. QED
        BY <4>2 DEF Parsed, q
    <3>2. CASE ~prefix
      <4>1. q = [p EXCEPT !.cells = IF Len(c) >= MaxPacket THEN Fresh ELSE c]
        BY <1>3, <2>5, <3>2 DEF DataByte, b
      <4>2. /\ q.cells = IF Len(c) >= MaxPacket THEN Fresh ELSE c
            /\ q.send = FALSE /\ q.escaped = FALSE /\ q.status = p.status
            /\ q \in PacketState
        <5>1. Fresh \in Seq(Int)
          BY DEF Fresh, ANY
        <5> HIDE DEF c
        <5>2. QED
          BY <4>1, <5>1, <1>1, <2>2 DEF PacketState
      <4>3. Partial(c, p.status)
        <5>1. CASE p.status = 240 /\ ~IsPrefix(Prefix, Tail(b))
          <6>1. ~IsPrefix(Prefix, Tail(c))
            BY <5>1, <3>2, <2>1, <2>3, NotThePrefix, SMTT(30) DEF Partial
          <6> HIDE DEF c
          <6>2. QED
            BY <5>1, <6>1, <2>3 DEF Partial
        <5>2. CASE is_three_bytes_cmd(p.status) /\ Len(b) \in {2, 3}
          <6> HIDE DEF c
          <6>1. Len(c) # 4
            BY <5>2, <2>5, Zenon
          <6>2. Len(c) = 3
            <7>1. Len(c) = Len(b) + 1 /\ (Len(b) = 2 \/ Len(b) = 3)
              BY <5>2, <2>2, Zenon
            <7>2. Len(b) = 2 => Len(c) = 3
              BY <7>1
            <7>3. Len(b) = 3 => Len(c) = 4
              BY <7>1
            <7>4. QED
              BY <6>1, <7>1, <7>2, <7>3, Zenon
          <6>3. QED
            BY <5>2, <6>2, <2>3 DEF Partial
        <5>3. CASE is_two_bytes_cmd(p.status) /\ Len(b) = 2
          <6> HIDE DEF c
          <6>1. QED
            BY <5>3, <2>2, <2>5
        <5>4. QED
          BY <5>1, <5>2, <5>3, <2>1 DEF Partial
      <4>4. Len(Fresh) = 1
        BY DEF Fresh
      <4> HIDE DEF q, c
      <4>5. QED
        BY <4>2, <4>3, <4>4 DEF Parsed, q
    <3>3. QED
      BY <3>1, <3>2
  <2>6. QED
    BY <2>4, <2>5
<1>4. QED
  BY <1>2, <1>3

LEMMA EndByteParsed ==
  ASSUME NEW p \in PacketState, ~p.send, Parsed(p.cells, p.status, p.escaped)
  PROVE  LET q == EndByte(p)
         IN  /\ q \in PacketState
             /\ IF q.send THEN Whole(q.cells, q.escaped)
                ELSE Parsed(q.cells, q.status, q.escaped)
<1> DEFINE q == EndByte(p)
           c == Append(p.cells, 247)
<1>1. /\ p.cells \in Seq(Int) /\ p.status \in Int /\ p.escaped \in BOOLEAN /\ p.send = FALSE
      /\ p.high \in BOOLEAN /\ p.half \in Int
      /\ p = [cells |-> p.cells, status |-> p.status, escaped |-> p.escaped,
              high |-> p.high, half |-> p.half, send |-> p.send]
  BY DEF PacketState
<1>2. CASE p.escaped /\ Len(p.cells) >= 1 /\ p.high /\ Head(p.cells) # ADDR
  <2>1. q = [p EXCEPT !.send = TRUE]
    BY <1>2 DEF EndByte
  <2>2. q.send = TRUE /\ q.escaped = TRUE /\ q.cells = p.cells /\ q \in PacketState
    BY <2>1, <1>1, <1>2 DEF PacketState
  <2>3. QED
    BY <2>2, <1>1, <1>2 DEF Whole
<1>3. CASE ~p.escaped /\ Len(p.cells) > 1 /\ p.status = 240
  <2>1. q = [p EXCEPT !.cells = c, !.send = TRUE]
    BY <1>3 DEF EndByte
  <2>2. /\ c \in Seq(Int) /\ Len(c) = Len(p.cells) + 1 /\ Len(p.cells) \in Nat
        /\ c[Len(c)] = 247 /\ \A i \in 1 .. Len(p.cells) : c[i] = p.cells[i]
    BY <1>1
  <2>3. q.send = TRUE /\ q.escaped = FALSE /\ q.cells = c /\ q \in PacketState
    <3> HIDE DEF c
    <3>1. QED
      <4>1. q = [cells |-> c, status |-> p.status, escaped |-> p.escaped,
                 high |-> p.high, half |-> p.half, send |-> TRUE]
        BY <2>1, <1>1
      <4>2. QED
        BY <4>1, <2>2, <1>1, <1>3 DEF PacketState
  <2>4. Partial(p.cells, 240) /\ ~IsPrefix(Prefix, Tail(p.cells))
    BY <1>1, <1>3 DEF Parsed, Partial, is_two_bytes_cmd, is_three_bytes_cmd
  <2>5. ~IsPrefix(Prefix, Tail(c))
    <3>1. ~(Len(c) = 1 + Len(Prefix) /\ Tail(c) = Prefix)
      <4> SUFFICES ASSUME Len(c) = 1 + Len(Prefix), Tail(c) = Prefix PROVE FALSE
        OBVIOUS
      <4>1. Tail(c)[Len(p.cells)] = 247
        BY <1>1, <1>3
      <4> HIDE DEF c
      <4>2. Len(p.cells) = Len(Prefix)
        BY <2>2, PrefixIs, SMTT(30)
      <4>3. Prefix[Len(Prefix)] = 247 /\ Len(Prefix) \in 2 .. Len(Prefix)
        BY <4>1, <4>2, PrefixIs, SMTT(30)
      <4>4. QED
        BY <4>3, PrefixIs
    <3>2. QED
      BY <3>1, <2>4, <1>1, <1>3, NotThePrefix
  <2>6. Data(SubSeq(c, 3, Len(c) - 1))
    <3> HIDE DEF c
    <3>1. ASSUME NEW i \in 3 .. Len(c) - 1 PROVE c[i] < 128
      <4>1. i \in 3 .. Len(p.cells) /\ i \in 1 .. Len(p.cells)
        BY <2>2
      <4>2. QED
        BY <4>1, <2>2, <2>4 DEF Partial
    <3> DEFINE n == Len(c) - 1
    <3>2. n \in Int /\ n <= Len(c) /\ \A i \in 3 .. n : c[i] < 128
      BY <3>1, <2>2
    <3> HIDE DEF n
    <3>3. Data(SubSeq(c, 3, n))
      BY <3>2, <2>2, DataWithin
    <3>4. QED
      BY <3>3 DEF n
  <2>7. c[1] = TAG /\ c[2] = 240
    BY <2>2, <2>4, <1>3 DEF Partial
  <2> HIDE DEF q, c
  <2>8. IsCommand(c)
    BY <2>2, <2>5, <2>6, <2>7, <1>3 DEF IsCommand, Last
  <2>9. QED
    BY <2>3, <2>8 DEF Whole, q
<1>4. CASE /\ ~(p.escaped /\ Len(p.cells) >= 1 /\ p.high /\ Head(p.cells) # ADDR)
           /\ ~(~p.escaped /\ Len(p.cells) > 1 /\ p.status = 240)
  <2>1. q = [p EXCEPT !.cells = Fresh, !.escaped = FALSE, !.half = 0]
    BY <1>4 DEF EndByte
  <2>2. q.cells = Fresh /\ q.send = FALSE /\ q \in PacketState
    <3>1. Fresh \in Seq(Int)
      BY DEF Fresh, ANY
    <3>2. q = [cells |-> Fresh, status |-> p.status, escaped |-> FALSE,
               high |-> p.high, half |-> 0, send |-> FALSE]
      BY <2>1, <1>1
    <3>3. QED
      BY <3>1, <3>2, <1>1 DEF PacketState
  <2>3. QED
    BY <2>2 DEF Parsed, Fresh
<1>5. QED
  BY <1>2, <1>3, <1>4

LEMMA OutputByteParsed ==
  ASSUME NEW p \in PacketState, ~p.send, Parsed(p.cells, p.status, p.escaped),
         NEW byte \in 0 .. 255
  PROVE  LET q == OutputByte(p, byte)
         IN  /\ q \in PacketState
             /\ IF q.send THEN Whole(q.cells, q.escaped)
                ELSE Parsed(q.cells, q.status, q.escaped)
<1> DEFINE q == OutputByte(p, byte)
<1>1. /\ p.cells \in Seq(Int) /\ p.status \in Int /\ p.escaped \in BOOLEAN /\ p.send = FALSE
      /\ p.high \in BOOLEAN /\ p.half \in Int
      /\ p = [cells |-> p.cells, status |-> p.status, escaped |-> p.escaped,
              high |-> p.high, half |-> p.half, send |-> p.send]
  BY DEF PacketState
<1>2. CASE byte < 128 /\ p.escaped
  <2>1. q = EscapedByte(p, byte)
    BY <1>2 DEF OutputByte
  <2>2. q \in PacketState /\ q.send = FALSE /\ q.escaped = TRUE
    <3>1. CASE p.high /\ Len(p.cells) < MaxPacket
      <4> DEFINE h == (byte * 16) % 256
      <4>1. q = [p EXCEPT !.half = h, !.high = FALSE]
        BY <3>1, <2>1 DEF EscapedByte
      <4>2. h \in Int
        OBVIOUS
      <4> HIDE DEF h, q
      <4>3. q = [cells |-> p.cells, status |-> p.status, escaped |-> p.escaped,
                 high |-> FALSE, half |-> h, send |-> p.send]
        BY <4>1, <1>1
      <4>4. QED
        BY <4>3, <4>2, <1>1, <1>2 DEF PacketState
    <3>2. CASE p.high /\ ~(Len(p.cells) < MaxPacket)
      <4>1. q = p
        BY <3>2, <2>1 DEF EscapedByte
      <4>2. QED
        BY <4>1, <1>1, <1>2
    <3>3. CASE ~p.high
      <4> DEFINE n == p.half + (byte % 16)
                 c == Append(p.cells, n)
      <4>1. q = [p EXCEPT !.cells = c, !.half = 0, !.high = TRUE]
        BY <3>3, <2>1 DEF EscapedByte
      <4>2. n \in Int
        <5>1. p.half \in Int
          BY <1>1, Zenon
        <5>2. byte % 16 \in Int
          OBVIOUS
        <5>3. QED
          BY <5>1, <5>2
      <4> HIDE DEF n
      <4>3. c \in Seq(Int)
        BY <4>2, <1>1
      <4> HIDE DEF c
      <4>4. q = [cells |-> c, status |-> p.status, escaped |-> p.escaped,
                 high |-> TRUE, half |-> 0, send |-> p.send]
        BY <4>1, <1>1
      <4>5. QED
        BY <4>3, <4>4, <1>1, <1>2 DEF PacketState
    <3>4. QED
      BY <3>1, <3>2, <3>3
  <2> HIDE DEF q
  <2>3. QED
    BY <2>2 DEF Parsed, q
<1>3. CASE byte < 128 /\ ~p.escaped
  <2>1. q = DataByte(p, byte) /\ byte \in 0 .. 127
    BY <1>3 DEF OutputByte
  <2>2. p.escaped = FALSE
    BY <1>1, <1>3
  <2>3. QED
    BY <2>1, <2>2, DataByteParsed
<1>4. CASE byte = 247
  <2>1. q = EndByte(p)
    BY <1>4 DEF OutputByte
  <2>2. QED
    BY <2>1, EndByteParsed
<1>5. CASE byte \in 128 .. 246 /\ ~is_invalid_cmd(byte)
  <2>1. q = StatusByte(p, byte)
    BY <1>5 DEF OutputByte
  <2> DEFINE c == <<TAG, byte>>
  <2>2. c \in Seq(Int) /\ Len(c) = 2 /\ c[1] = TAG /\ c[2] = byte
    BY DEF TAG
  <2> HIDE DEF c
  <2>3. is_one_byte_cmd(byte) \in BOOLEAN
    BY DEF is_one_byte_cmd
  <2>4. /\ q.cells = c /\ q.status = byte /\ q.escaped = FALSE
        /\ q.send = is_one_byte_cmd(byte) /\ q \in PacketState
    <3>1. q = [p EXCEPT !.cells = c, !.status = byte, !.escaped = FALSE, !.half = 0,
                        !.send = is_one_byte_cmd(byte)]
      BY <2>1 DEF StatusByte, c
    <3>2. q = [cells |-> c, status |-> byte, escaped |-> FALSE,
               high |-> p.high, half |-> 0, send |-> is_one_byte_cmd(byte)]
      BY <3>1, <1>1
    <3>3. QED
      BY <3>2, <2>2, <2>3, <1>1 DEF PacketState
  <2> HIDE DEF q
  <2>5. CASE is_one_byte_cmd(byte)
    <3>1. IsCommand(c)
      BY <2>2, <2>5 DEF IsCommand
    <3>2. QED
      BY <3>1, <2>4, <2>5 DEF Whole, q
  <2>6. CASE ~is_one_byte_cmd(byte)
    <3>1. is_two_bytes_cmd(byte) \/ is_three_bytes_cmd(byte) \/ byte = 240
      BY <1>5, <2>6 DEF is_one_byte_cmd, is_two_bytes_cmd, is_three_bytes_cmd, is_invalid_cmd
    <3>2. ~IsPrefix(Prefix, Tail(c))
      <4>1. Tail(c) \in Seq(Int) /\ Len(Tail(c)) = 1
        <5>1. c # <<>>
          <6>1. Len(c) # 0 /\ Len(<<>>) = 0
            BY <2>2
          <6>2. QED
            BY <6>1, Zenon
        <5>2. QED
          BY <2>2, <5>1, HeadTailProperties
      <4> DEFINE t == Tail(c)
      <4> HIDE DEF t
      <4>2. t \in Seq(Int) /\ Len(t) = 1
        BY <4>1 DEF t
      <4>3. ~IsPrefix(Prefix, t)
        BY <4>2, IsPrefixIs, PrefixIs
      <4>4. QED
        BY <4>3 DEF t
    <3>3. Partial(c, byte)
      BY <3>1, <3>2, <2>2 DEF Partial
    <3>4. QED
      BY <3>3, <2>4, <2>6 DEF Parsed, q
  <2>7. QED
    BY <2>5, <2>6
<1>6. CASE /\ ~(byte < 128) /\ byte # 247
           /\ ~(byte \in 128 .. 246 /\ ~is_invalid_cmd(byte))
  <2>1. q = p
    BY <1>6 DEF OutputByte
  <2>2. QED
    BY <2>1, <1>1
<1>7. QED
  BY <1>2, <1>3, <1>4, <1>5, <1>6

ScsRecord ==
  [stream : BOOLEAN, idle : BOOLEAN, running : BOOLEAN, status : Int,
   bytes : Int, escaped : BOOLEAN, high : BOOLEAN, half : Int]

\* The fields, and what the output has of a command.
ScsFields ==
  /\ scs \in ScsRecord
  /\ cells \in Seq(Int)
  /\ DOMAIN tasklet = {"scheduled", "at"}
  /\ DOMAIN scsPast = {"escaped", "crossed", "late"}
  /\ queued \in Nat

Unopened ==
  user = "closed" /\ ~scs.stream /\ ~scs.running /\ tasklet.at = "off"

Making ==
  /\ scs.running => tasklet.at = "off" /\ scs.bytes = 1 /\ Whole(cells, scsPast.escaped)
  /\ tasklet.at # "off" => Parsed(cells, scs.status, scs.escaped)
  /\ tasklet.at = "off" =>
       /\ scs.bytes \in 0 .. Len(cells)
       /\ Parsed(SubSeq(cells, 1, scs.bytes), scs.status, scs.escaped)
  /\ tasklet.at = "empty" => scs.bytes = Len(cells)

CommandInv == ScsFields /\ (Unopened \/ Making)

LEMMA OneCell ==
  \A c \in Seq(Int) : \A status, escaped :
    Len(c) > 0 => Parsed(SubSeq(c, 1, 1), status, escaped)
<1> SUFFICES ASSUME NEW c \in Seq(Int), NEW status, NEW escaped, Len(c) > 0
             PROVE  Parsed(SubSeq(c, 1, 1), status, escaped)
  OBVIOUS
<1>1. Len(SubSeq(c, 1, 1)) = 1
  OBVIOUS
<1>2. QED
  BY <1>1 DEF Parsed

LEMMA AllCells ==
  \A c \in Seq(Int) : SubSeq(c, 1, Len(c)) = c /\ Len(c) \in Nat
BY SubSeqFull

LEMMA WholeHasCells ==
  ASSUME NEW c \in Seq(Int), NEW escaped, Whole(c, escaped)
  PROVE  Len(c) > 0
BY DEF Whole, IsCommand

LEMMA TaskletStartsMaking ==
  ASSUME CommandInv, TaskletStarts
  PROVE  CommandInv'
<1>1. CASE ~scs.running /\ scs.stream
  <2>1. Making
    BY <1>1 DEF CommandInv, Unopened
  <2>2. /\ tasklet' = [scheduled |-> FALSE, at |-> "loop"] /\ tasklet.at = "off"
        /\ cells' = SubSeq(cells, 1, scs.bytes)
        /\ scs' = [scs EXCEPT !.idle = @ \/ (~scs.running /\ ~scs.stream)]
        /\ UNCHANGED <<queued, user, remove, scsPast>>
    BY <1>1 DEF TaskletStarts
  <2>3. /\ scs.bytes \in 0 .. Len(cells)
        /\ Parsed(SubSeq(cells, 1, scs.bytes), scs.status, scs.escaped)
    BY <2>1, <2>2 DEF Making
  <2>4. /\ scs'.running = FALSE /\ scs'.status = scs.status /\ scs'.escaped = scs.escaped
        /\ scs' \in ScsRecord
    BY <1>1, <2>2 DEF CommandInv, ScsFields, ScsRecord
  <2>5. cells' \in Seq(Int)
    <3>1. cells \in Seq(Int)
      BY DEF CommandInv, ScsFields, ScsRecord
    <3>2. QED
      BY <3>1, <2>2, <2>3
  <2>6. tasklet'.at = "loop" /\ DOMAIN tasklet' = {"scheduled", "at"}
    BY <2>2
  <2>7. ScsFields'
    BY <2>2, <2>4, <2>5, <2>6 DEF CommandInv, ScsFields, ScsRecord
  <2>8. Making'
    BY <2>2, <2>3, <2>4, <2>6 DEF Making
  <2>9. QED
    BY <2>7, <2>8 DEF CommandInv
<1>2. CASE ~(~scs.running /\ scs.stream)
  <2>1. /\ tasklet' = [scheduled |-> FALSE, at |-> "off"] /\ tasklet.at = "off"
        /\ cells' = cells
        /\ scs' = [scs EXCEPT !.idle = @ \/ (~scs.running /\ ~scs.stream)]
        /\ UNCHANGED <<queued, user, remove, scsPast>>
    BY <1>2 DEF TaskletStarts
  <2>2. /\ scs'.running = scs.running /\ scs'.status = scs.status /\ scs'.escaped = scs.escaped
        /\ scs'.bytes = scs.bytes /\ scs'.stream = scs.stream
        /\ scs' \in ScsRecord
    BY <2>1 DEF CommandInv, ScsFields, ScsRecord
  <2>3. tasklet'.at = tasklet.at /\ DOMAIN tasklet' = {"scheduled", "at"}
    BY <2>1
  <2>4. ScsFields' /\ (Unopened => Unopened') /\ (Making => Making')
    BY <2>1, <2>2, <2>3 DEF CommandInv, ScsFields, ScsRecord, Unopened, Making
  <2>5. QED
    BY <2>4 DEF CommandInv
<1>3. QED
  BY <1>1, <1>2

LEMMA TaskletByteMaking ==
  ASSUME CommandInv, TaskletByte
  PROVE  CommandInv'
<1>1. /\ Making /\ tasklet.at = "loop" /\ ~scs.running
      /\ Parsed(cells, scs.status, scs.escaped)
  BY DEF CommandInv, Unopened, Making, TaskletByte
<1> DEFINE q == [cells |-> cells, status |-> scs.status, escaped |-> scs.escaped,
                 high |-> scs.high, half |-> scs.half, send |-> FALSE]
<1>2. q \in PacketState /\ ~q.send /\ Parsed(q.cells, q.status, q.escaped)
  BY <1>1 DEF CommandInv, ScsFields, ScsRecord, PacketState
<1>3. PICK byte \in MidiBytes :
        LET p == OutputByte(q, byte)
        IN  /\ cells' = p.cells
            /\ scs' = [scs EXCEPT !.status = p.status, !.high = p.high, !.half = p.half,
                         !.escaped = p.escaped /\ ~p.send, !.running = p.send,
                         !.bytes = IF p.send THEN 1 ELSE @]
            /\ tasklet' = [tasklet EXCEPT !.at = IF p.send THEN "off" ELSE "loop"]
            /\ scsPast' = [scsPast EXCEPT !.escaped = p.send /\ p.escaped]
  BY DEF TaskletByte
<1> DEFINE p == OutputByte(q, byte)
<1>4. byte \in 0 .. 255
  BY ScsAssumption
<1> HIDE DEF q
<1>5. /\ p \in PacketState
      /\ IF p.send THEN Whole(p.cells, p.escaped) ELSE Parsed(p.cells, p.status, p.escaped)
  BY <1>2, <1>4, OutputByteParsed
<1>6. /\ cells' = p.cells
      /\ scs' = [scs EXCEPT !.status = p.status, !.high = p.high, !.half = p.half,
                   !.escaped = p.escaped /\ ~p.send, !.running = p.send,
                   !.bytes = IF p.send THEN 1 ELSE @]
      /\ tasklet' = [tasklet EXCEPT !.at = IF p.send THEN "off" ELSE "loop"]
      /\ scsPast' = [scsPast EXCEPT !.escaped = p.send /\ p.escaped]
  BY <1>3
<1> HIDE DEF p
<1>7. /\ p.cells \in Seq(Int) /\ p.status \in Int /\ p.escaped \in BOOLEAN
      /\ p.high \in BOOLEAN /\ p.half \in Int /\ p.send \in BOOLEAN
  BY <1>5 DEF PacketState
<1>8. queued' \in Nat
  BY DEF TaskletByte, CommandInv, ScsFields, ScsRecord
<1>9. DOMAIN tasklet' = {"scheduled", "at"} /\ DOMAIN scsPast' = {"escaped", "crossed", "late"}
  BY <1>6 DEF CommandInv, ScsFields, ScsRecord
<1>10. CASE p.send
  <2>1. /\ scs' = [scs EXCEPT !.status = p.status, !.high = p.high, !.half = p.half,
                     !.escaped = FALSE, !.running = TRUE, !.bytes = 1]
        /\ tasklet' = [tasklet EXCEPT !.at = "off"]
        /\ scsPast' = [scsPast EXCEPT !.escaped = p.escaped]
    BY <1>6, <1>7, <1>10
  <2>2. /\ scs'.running = TRUE /\ scs'.bytes = 1
        /\ scs' \in ScsRecord
    <3>1. scs' = [stream |-> scs.stream, idle |-> scs.idle, running |-> TRUE,
                  status |-> p.status, bytes |-> 1, escaped |-> FALSE,
                  high |-> p.high, half |-> p.half]
      BY <2>1 DEF CommandInv, ScsFields, ScsRecord
    <3>2. scs.stream \in BOOLEAN /\ scs.idle \in BOOLEAN
      BY DEF CommandInv, ScsFields, ScsRecord
    <3>3. QED
      BY <3>1, <3>2, <1>7 DEF ScsRecord
  <2>3. tasklet'.at = "off" /\ scsPast'.escaped = p.escaped
    BY <2>1 DEF CommandInv, ScsFields, ScsRecord
  <2>4. Whole(p.cells, p.escaped) /\ Len(p.cells) > 0 /\ Len(p.cells) \in Nat
    BY <1>5, <1>7, <1>10, WholeHasCells
  <2>5. Parsed(SubSeq(p.cells, 1, 1), scs'.status, scs'.escaped)
    BY <2>4, <1>7, OneCell
  <2>6. ScsFields'
    BY <1>6, <1>7, <1>8, <1>9, <2>2 DEF ScsFields, ScsRecord
  <2>7. Making'
    BY <1>6, <2>2, <2>3, <2>4, <2>5 DEF Making
  <2>8. QED
    BY <2>6, <2>7 DEF CommandInv
<1>11. CASE ~p.send
  <2>1. /\ scs' = [scs EXCEPT !.status = p.status, !.high = p.high, !.half = p.half,
                     !.escaped = p.escaped, !.running = FALSE, !.bytes = @]
        /\ tasklet' = [tasklet EXCEPT !.at = "loop"]
    BY <1>6, <1>7, <1>11
  <2>2. /\ scs'.running = FALSE /\ scs'.status = p.status /\ scs'.escaped = p.escaped
        /\ scs' \in ScsRecord
    BY <2>1, <1>7 DEF CommandInv, ScsFields, ScsRecord
  <2>3. tasklet'.at = "loop"
    BY <2>1 DEF CommandInv, ScsFields, ScsRecord
  <2>4. ScsFields'
    BY <1>6, <1>7, <1>8, <1>9, <2>2 DEF ScsFields, ScsRecord
  <2>5. Making'
    BY <1>5, <1>6, <1>11, <2>2, <2>3 DEF Making
  <2>6. QED
    BY <2>4, <2>5 DEF CommandInv
<1>12. QED
  BY <1>7, <1>10, <1>11

LEMMA OpenMaking ==
  ASSUME CommandInv, scs_output_open
  PROVE  CommandInv'
<1>1. /\ scs' = [scs EXCEPT !.status = 0, !.bytes = 1, !.escaped = FALSE]
      /\ cells' = (IF scs.running THEN cells ELSE Fresh)
      /\ UNCHANGED <<tasklet, queued, remove, scsPast>>
  BY DEF scs_output_open
<1>2. /\ scs'.status = 0 /\ scs'.bytes = 1 /\ scs'.escaped = FALSE
      /\ scs'.running = scs.running
      /\ scs' \in ScsRecord
  <2>1. scs' = [stream |-> scs.stream, idle |-> scs.idle, running |-> scs.running,
                status |-> 0, bytes |-> 1, escaped |-> FALSE,
                high |-> scs.high, half |-> scs.half]
    BY <1>1 DEF CommandInv, ScsFields, ScsRecord
  <2>2. /\ scs.stream \in BOOLEAN /\ scs.idle \in BOOLEAN /\ scs.running \in BOOLEAN
        /\ scs.high \in BOOLEAN /\ scs.half \in Int
    BY DEF CommandInv, ScsFields, ScsRecord
  <2>3. QED
    BY <2>1, <2>2 DEF ScsRecord
<1>3. Fresh \in Seq(Int) /\ Len(Fresh) = 1
  BY DEF Fresh, ANY
<1>4. ScsFields'
  BY <1>1, <1>2, <1>3 DEF CommandInv, ScsFields, ScsRecord
<1>5. CASE scs.running
  <2>1. Making /\ cells' = cells /\ cells \in Seq(Int)
    BY <1>1, <1>5 DEF CommandInv, Unopened, ScsFields
  <2>2. tasklet'.at = "off" /\ Whole(cells, scsPast.escaped) /\ scsPast' = scsPast
    BY <1>1, <1>5, <2>1 DEF Making
  <2>3. Len(cells) > 0 /\ Len(cells) \in Nat
    BY <2>1, <2>2, WholeHasCells
  <2>4. Parsed(SubSeq(cells, 1, 1), 0, FALSE)
    BY <2>1, <2>3, OneCell
  <2>5. scs'.bytes \in 0 .. Len(cells)
    BY <1>2, <2>3
  <2>6. /\ scs'.running => tasklet'.at = "off" /\ scs'.bytes = 1 /\ Whole(cells', scsPast'.escaped)
        /\ Parsed(SubSeq(cells', 1, scs'.bytes), scs'.status, scs'.escaped)
    BY <1>2, <2>1, <2>2, <2>4
  <2>7. Making'
    BY <2>1, <2>2, <2>5, <2>6 DEF Making
  <2>8. QED
    BY <1>4, <2>7 DEF CommandInv
<1>6. CASE ~scs.running
  <2>1. cells' = Fresh
    BY <1>1, <1>6
  <2>2. Parsed(SubSeq(Fresh, 1, 1), 0, FALSE)
    <3>1. Len(Fresh) > 0
      BY <1>3
    <3>2. QED
      BY <1>3, <3>1, OneCell, Zenon
  <2>3. Parsed(Fresh, 0, FALSE)
    BY <1>3 DEF Parsed
  <2>4. /\ Parsed(cells', scs'.status, scs'.escaped) /\ ~scs'.running
        /\ Parsed(SubSeq(cells', 1, scs'.bytes), scs'.status, scs'.escaped)
        /\ scs'.bytes = 1 /\ Len(cells') = 1
    BY <1>2, <1>3, <1>6, <2>1, <2>2, <2>3
  <2>5. scs'.bytes \in 0 .. Len(cells')
    BY <2>4
  <2>6. Making'
    BY <2>4, <2>5 DEF Making
  <2>7. QED
    BY <1>4, <2>6 DEF CommandInv
<1>7. QED
  BY <1>5, <1>6

LEMMA CommandNext == CommandInv /\ [ScsNext]_scsVars => CommandInv'
<1> SUFFICES ASSUME CommandInv, [ScsNext]_scsVars PROVE CommandInv'
  OBVIOUS
<1>1. CASE TaskletStarts
  BY <1>1, TaskletStartsMaking
<1>2. CASE TaskletByte
  BY <1>2, TaskletByteMaking
<1>3. CASE TaskletFindsNothing
  <2>1. /\ scs' = [scs EXCEPT !.bytes = Len(cells)] /\ tasklet' = [tasklet EXCEPT !.at = "empty"]
        /\ UNCHANGED <<cells, queued, user, remove, scsPast>> /\ tasklet.at = "loop"
    BY <1>3 DEF TaskletFindsNothing
  <2>2. cells \in Seq(Int) /\ Len(cells) \in Nat
    BY AllCells DEF CommandInv, ScsFields, ScsRecord
  <2>3. /\ scs'.running = scs.running /\ scs'.status = scs.status /\ scs'.escaped = scs.escaped
        /\ scs'.bytes = Len(cells) /\ tasklet'.at = "empty"
    BY <2>1 DEF CommandInv, ScsFields, ScsRecord
  <2>4. ScsFields'
    BY <2>1, <2>2 DEF CommandInv, ScsFields, ScsRecord
  <2>5. Making
    BY <2>1 DEF CommandInv, Unopened
  <2>6. Making'
    BY <2>1, <2>3, <2>5 DEF Making
  <2>7. QED
    BY <2>4, <2>6 DEF CommandInv
<1>4. CASE TaskletIsIdle
  <2>1. /\ scs' = [scs EXCEPT !.idle = TRUE] /\ tasklet' = [tasklet EXCEPT !.at = "off"]
        /\ scsPast' = [scsPast EXCEPT !.crossed = tasklet.scheduled]
        /\ UNCHANGED <<cells, queued, user, remove>> /\ tasklet.at = "empty"
    BY <1>4 DEF TaskletIsIdle
  <2>2. cells \in Seq(Int) /\ Len(cells) \in Nat /\ SubSeq(cells, 1, Len(cells)) = cells
    BY AllCells DEF CommandInv, ScsFields, ScsRecord
  <2>3. /\ scs'.running = scs.running /\ scs'.status = scs.status /\ scs'.escaped = scs.escaped
        /\ scs'.bytes = scs.bytes /\ tasklet'.at = "off"
    BY <2>1 DEF CommandInv, ScsFields, ScsRecord
  <2>4. ScsFields'
    BY <2>1, <2>2 DEF CommandInv, ScsFields, ScsRecord
  <2>5. Making
    BY <2>1 DEF CommandInv, Unopened
  <2>6. scs.bytes = Len(cells) /\ Parsed(cells, scs.status, scs.escaped) /\ ~scs.running
    BY <2>1, <2>5 DEF Making
  <2>7. /\ scs'.bytes = Len(cells') /\ ~scs'.running
        /\ Parsed(SubSeq(cells', 1, scs'.bytes), scs'.status, scs'.escaped)
    BY <2>1, <2>2, <2>3, <2>6
  <2>8. scs'.bytes \in 0 .. Len(cells')
    BY <2>1, <2>2, <2>7
  <2>9. Making'
    BY <2>3, <2>7, <2>8 DEF Making
  <2>10. QED
    BY <2>4, <2>9 DEF CommandInv
<1>5. CASE scs_write_callback
  <2>1. /\ scs' = [scs EXCEPT !.running = FALSE]
        /\ tasklet' = [tasklet EXCEPT !.scheduled = TRUE]
        /\ scsPast' = [scsPast EXCEPT !.escaped = FALSE]
        /\ UNCHANGED <<cells, queued, user, remove>> /\ scs.running
    BY <1>5 DEF scs_write_callback
  <2>2. Making
    BY <2>1 DEF CommandInv, Unopened
  <2>3. /\ scs'.running = FALSE /\ scs'.status = scs.status /\ scs'.escaped = scs.escaped
        /\ scs'.bytes = scs.bytes /\ tasklet'.at = tasklet.at
    BY <2>1 DEF CommandInv, ScsFields, ScsRecord
  <2>4. ScsFields'
    BY <2>1 DEF CommandInv, ScsFields, ScsRecord
  <2>5. Making'
    BY <2>1, <2>2, <2>3 DEF Making
  <2>6. QED
    BY <2>4, <2>5 DEF CommandInv
<1>6. CASE scs_output_open
  BY <1>6, OpenMaking
<1>7. ASSUME \/ Write \/ TriggerSets \/ TriggerUp \/ TriggerDown \/ Drain \/ scs_output_drain
             \/ ScsRemoveStep \/ UNCHANGED scsVars
      PROVE  CommandInv'
  <2>1. /\ cells' = cells /\ queued' \in Nat
        /\ scs'.running = scs.running /\ scs'.status = scs.status
        /\ scs'.escaped = scs.escaped /\ scs'.bytes = scs.bytes
        /\ tasklet'.at = tasklet.at /\ DOMAIN tasklet' = DOMAIN tasklet
        /\ DOMAIN scsPast' = DOMAIN scsPast /\ scsPast'.escaped = scsPast.escaped
        /\ scs' \in ScsRecord
        /\ user = "closed" => user' = "closed" /\ (~scs.stream => ~scs'.stream)
    <3> USE DEF CommandInv, ScsFields, ScsRecord
    <3>9. More => queued' \in Nat
      <4>1. SUFFICES ASSUME NEW n \in 1 .. MaxQueued - queued, queued' = queued + n
                     PROVE  queued' \in Nat
        BY DEF More
      <4>2. queued \in Nat /\ MaxQueued \in Nat
        BY ScsAssumption
      <4>3. QED
        BY <4>1, <4>2
    <3>1. CASE Write
      BY <3>1, <3>9 DEF Write
    <3>2. CASE TriggerSets \/ TriggerUp
      BY <3>2, <3>9 DEF TriggerSets, TriggerUp
    <3>3. CASE TriggerDown
      BY <3>3 DEF TriggerDown
    <3>4. CASE Drain
      BY <3>4 DEF Drain
    <3>5. CASE scs_output_drain
      BY <3>5 DEF scs_output_drain
    <3>6. CASE ScsRemoveStep
      BY <3>6 DEF ScsRemoveStep, scs_remove, RemoveWaits, RemoveKills
    <3>7. CASE UNCHANGED scsVars
      BY <3>7 DEF scsVars
    <3>8. QED
      BY <1>7, <3>1, <3>2, <3>3, <3>4, <3>5, <3>6, <3>7
  <2>2. ScsFields'
    BY <2>1 DEF CommandInv, ScsFields, ScsRecord
  <2>3. (Unopened => Unopened') /\ (Making => Making')
    BY <2>1 DEF Unopened, Making
  <2>4. QED
    BY <2>2, <2>3 DEF CommandInv
<1>8. QED
  BY <1>1, <1>2, <1>3, <1>4, <1>5, <1>6, <1>7 DEF ScsNext, TaskletStep, UserStep

\* What the output makes of any bytes is a command, and what it is in the middle of is
\* the first part of one.
THEOREM CommandInvariance == ScsSpec => []CommandInv
<1>1. ScsInit => CommandInv
  <2> SUFFICES ASSUME ScsInit PROVE CommandInv
    OBVIOUS
  <2>1. cells \in Seq(Int)
    BY DEF ScsInit
  <2>2. ScsFields
    BY <2>1 DEF ScsInit, ScsFields, ScsRecord
  <2>3. Unopened
    BY DEF ScsInit, Unopened
  <2>4. QED
    BY <2>2, <2>3 DEF CommandInv
<1>2. QED
  BY <1>1, CommandNext, PTL DEF ScsSpec

\* One command per packet, no running status, unescaped SysEx messages.
THEOREM OneCommand == ScsSpec => []OneCommandPerPacket
<1>1. CommandInv => OneCommandPerPacket
  BY DEF CommandInv, Unopened, Making, OneCommandPerPacket, Whole
<1>2. QED
  BY <1>1, CommandInvariance, PTL

----------------------------------------------------------------------------
(* What the device sent comes back as it was *)

LEMMA OutputByteTyped ==
  ASSUME NEW p \in PacketState, NEW byte \in Int
  PROVE  OutputByte(p, byte) \in PacketState
<1>1. /\ p.cells \in Seq(Int) /\ p.status \in Int /\ p.escaped \in BOOLEAN /\ p.send \in BOOLEAN
      /\ p.high \in BOOLEAN /\ p.half \in Int
      /\ p = [cells |-> p.cells, status |-> p.status, escaped |-> p.escaped,
              high |-> p.high, half |-> p.half, send |-> p.send]
  BY DEF PacketState
<1>2. Fresh \in Seq(Int) /\ <<>> \in Seq(Int)
  BY DEF Fresh, ANY
<1>3. EscapedByte(p, byte) \in PacketState
  <2> DEFINE h == (byte * 16) % 256
             c == Append(p.cells, p.half + (byte % 16))
  <2>1. h \in Int /\ c \in Seq(Int)
    BY <1>1
  <2>2. EscapedByte(p, byte) =
          IF p.high THEN IF Len(p.cells) < MaxPacket THEN [p EXCEPT !.half = h, !.high = FALSE] ELSE p
          ELSE [p EXCEPT !.cells = c, !.half = 0, !.high = TRUE]
    BY DEF EscapedByte
  <2> HIDE DEF h, c
  <2>3. [p EXCEPT !.half = h, !.high = FALSE] \in PacketState
    <3>1. PICK q : q = [p EXCEPT !.half = h, !.high = FALSE]
      OBVIOUS
    <3>2. q = [cells |-> p.cells, status |-> p.status, escaped |-> p.escaped,
              high |-> FALSE, half |-> h, send |-> p.send]
      BY <3>1, <1>1
    <3>3. q \in PacketState
      BY <3>2, <1>1, <2>1 DEF PacketState
    <3>4. QED
      BY <3>1, <3>3
  <2>4. [p EXCEPT !.cells = c, !.half = 0, !.high = TRUE] \in PacketState
    <3>1. PICK q : q = [p EXCEPT !.cells = c, !.half = 0, !.high = TRUE]
      OBVIOUS
    <3>2. q = [cells |-> c, status |-> p.status, escaped |-> p.escaped,
              high |-> TRUE, half |-> 0, send |-> p.send]
      BY <3>1, <1>1
    <3>3. q \in PacketState
      BY <3>2, <1>1, <1>2, <2>1 DEF PacketState
    <3>4. QED
      BY <3>1, <3>3
  <2>5. QED
    BY <2>1, <2>2, <2>3, <2>4, <1>1 DEF PacketState
<1>4. DataByte(p, byte) \in PacketState
  <2> DEFINE c == Append(IF Len(p.cells) = 1 THEN <<TAG, p.status>> ELSE p.cells, byte)
             e == IF Len(c) >= MaxPacket THEN Fresh ELSE c
  <2>1. c \in Seq(Int) /\ e \in Seq(Int)
    BY <1>1, <1>2 DEF TAG
  <2>2. \/ DataByte(p, byte) = p
        \/ DataByte(p, byte) = [p EXCEPT !.cells = c, !.send = TRUE]
        \/ DataByte(p, byte) = [p EXCEPT !.cells = <<>>, !.escaped = TRUE, !.high = TRUE]
        \/ DataByte(p, byte) = [p EXCEPT !.cells = e]
    BY Zenon DEF DataByte
  <2> HIDE DEF c, e
  <2>3. [p EXCEPT !.cells = c, !.send = TRUE] \in PacketState
    <3>1. PICK q : q = [p EXCEPT !.cells = c, !.send = TRUE]
      OBVIOUS
    <3>2. q = [cells |-> c, status |-> p.status, escaped |-> p.escaped,
              high |-> p.high, half |-> p.half, send |-> TRUE]
      BY <3>1, <1>1
    <3>3. q \in PacketState
      BY <3>2, <1>1, <1>2, <2>1 DEF PacketState
    <3>4. QED
      BY <3>1, <3>3
  <2>4. [p EXCEPT !.cells = <<>>, !.escaped = TRUE, !.high = TRUE] \in PacketState
    <3>1. PICK q : q = [p EXCEPT !.cells = <<>>, !.escaped = TRUE, !.high = TRUE]
      OBVIOUS
    <3>2. q = [cells |-> <<>>, status |-> p.status, escaped |-> TRUE,
              high |-> TRUE, half |-> p.half, send |-> p.send]
      BY <3>1, <1>1
    <3>3. q \in PacketState
      BY <3>2, <1>1, <1>2 DEF PacketState
    <3>4. QED
      BY <3>1, <3>3
  <2>5. [p EXCEPT !.cells = e] \in PacketState
    <3>1. PICK q : q = [p EXCEPT !.cells = e]
      OBVIOUS
    <3>2. q = [cells |-> e, status |-> p.status, escaped |-> p.escaped,
              high |-> p.high, half |-> p.half, send |-> p.send]
      BY <3>1, <1>1
    <3>3. q \in PacketState
      BY <3>2, <1>1, <1>2, <2>1 DEF PacketState
    <3>4. QED
      BY <3>1, <3>3
  <2>6. QED
    BY <2>1, <2>2, <2>3, <2>4, <2>5, <1>1, <1>2 DEF PacketState
<1>5. EndByte(p) \in PacketState
  <2> DEFINE c == Append(p.cells, 247)
  <2>1. c \in Seq(Int)
    BY <1>1
  <2>2. \/ EndByte(p) = [p EXCEPT !.send = TRUE]
        \/ EndByte(p) = [p EXCEPT !.cells = c, !.send = TRUE]
        \/ EndByte(p) = [p EXCEPT !.cells = Fresh, !.escaped = FALSE, !.half = 0]
    BY Zenon DEF EndByte
  <2> HIDE DEF c
  <2>3. [p EXCEPT !.send = TRUE] \in PacketState
    <3>1. PICK q : q = [p EXCEPT !.send = TRUE]
      OBVIOUS
    <3>2. q = [cells |-> p.cells, status |-> p.status, escaped |-> p.escaped,
              high |-> p.high, half |-> p.half, send |-> TRUE]
      BY <3>1, <1>1
    <3>3. q \in PacketState
      BY <3>2, <1>1, <1>2, <2>1 DEF PacketState
    <3>4. QED
      BY <3>1, <3>3
  <2>4. [p EXCEPT !.cells = c, !.send = TRUE] \in PacketState
    <3>1. PICK q : q = [p EXCEPT !.cells = c, !.send = TRUE]
      OBVIOUS
    <3>2. q = [cells |-> c, status |-> p.status, escaped |-> p.escaped,
              high |-> p.high, half |-> p.half, send |-> TRUE]
      BY <3>1, <1>1
    <3>3. q \in PacketState
      BY <3>2, <1>1, <1>2, <2>1 DEF PacketState
    <3>4. QED
      BY <3>1, <3>3
  <2>5. [p EXCEPT !.cells = Fresh, !.escaped = FALSE, !.half = 0] \in PacketState
    <3>1. PICK q : q = [p EXCEPT !.cells = Fresh, !.escaped = FALSE, !.half = 0]
      OBVIOUS
    <3>2. q = [cells |-> Fresh, status |-> p.status, escaped |-> FALSE,
              high |-> p.high, half |-> 0, send |-> p.send]
      BY <3>1, <1>1
    <3>3. q \in PacketState
      BY <3>2, <1>1, <1>2, <2>1 DEF PacketState
    <3>4. QED
      BY <3>1, <3>3
  <2>6. QED
    BY <2>1, <2>2, <2>3, <2>4, <2>5, <1>1, <1>2 DEF PacketState
<1>6. StatusByte(p, byte) \in PacketState
  <2> DEFINE c == <<TAG, byte>>
             one == is_one_byte_cmd(byte)
  <2>1. c \in Seq(Int) /\ one \in BOOLEAN
    BY DEF TAG, is_one_byte_cmd
  <2>2. StatusByte(p, byte) = [p EXCEPT !.cells = c, !.status = byte, !.escaped = FALSE,
                                         !.half = 0, !.send = one]
    BY Zenon DEF StatusByte
  <2> HIDE DEF c, one
  <2>3. StatusByte(p, byte) = [cells |-> c, status |-> byte, escaped |-> FALSE,
                               high |-> p.high, half |-> 0, send |-> one]
    BY <2>2, <1>1
  <2>4. QED
    BY <2>1, <2>3, <1>1 DEF PacketState
<1>7. QED
  BY <1>3, <1>4, <1>5, <1>6 DEF OutputByte

\* f tells what is in the making after each of the bytes.
Makes(f, p, bytes) ==
  /\ f[0] = p
  /\ \A i \in 1 .. Len(bytes) : f[i] = OutputByte(f[i - 1], bytes[i])

LEMMA OutputMakes ==
  ASSUME NEW p \in PacketState, NEW bytes \in Seq(Int)
  PROVE  \E f : Makes(f, p, bytes) /\ OutputBytes(p, bytes) = f[Len(bytes)]
<1> DEFINE n == Len(bytes)
           Is(f) == f = [i \in 0 .. n |-> IF i = 0 THEN p ELSE OutputByte(f[i - 1], bytes[i])]
           g == CHOOSE f : Is(f)
           D == [x \in PacketState \X Nat |->
                   IF x[2] \in 1 .. n THEN OutputByte(x[1], bytes[x[2]]) ELSE x[1]]
<1>1. n \in Nat /\ \A i \in 1 .. n : bytes[i] \in Int
  OBVIOUS
<1>2. D \in [PacketState \X Nat -> PacketState]
  <2>1. ASSUME NEW q \in PacketState, NEW i \in Nat
        PROVE  (IF i \in 1 .. n THEN OutputByte(q, bytes[i]) ELSE q) \in PacketState
    BY <1>1, OutputByteTyped
  <2>2. QED
    BY <2>1
<1>3. PICK f : PrimRec(f, PacketState, p, D, n)
  <2> HIDE DEF D, n
  <2>1. QED
    BY <1>1, <1>2, Recursion
<1>4. f \in [0 .. n -> PacketState]
  BY <1>3 DEF PrimRec
<1>5. ASSUME NEW i \in 0 .. n
      PROVE  f[i] = IF i = 0 THEN p ELSE OutputByte(f[i - 1], bytes[i])
  <2>1. f[i] = IF i = 0 THEN p ELSE D[<<f[i - 1], i>>]
    BY <1>3 DEF PrimRec
  <2>2. CASE i # 0
    <3>1. i \in 1 .. n /\ i - 1 \in 0 .. n /\ i \in Nat
      BY <1>1, <2>2
    <3>2. f[i - 1] \in PacketState
      BY <3>1, <1>4
    <3>3. D[<<f[i - 1], i>>] = OutputByte(f[i - 1], bytes[i])
      <4> HIDE DEF n
      <4>1. QED
        BY <3>1, <3>2
    <3>4. QED
      BY <2>1, <2>2, <3>3
  <2>3. QED
    BY <2>1, <2>2
<1>6. Is(f)
  <2> HIDE DEF D, n
  <2>1. QED
    BY <1>4, <1>5
<1>7. Is(g)
  <2> HIDE DEF Is
  <2>1. QED
    BY <1>6
<1>8. OutputBytes(p, bytes) = g[n]
  BY Zenon DEF OutputBytes
<1> HIDE DEF g
<1>9. \A i \in 0 .. n : g[i] = IF i = 0 THEN p ELSE OutputByte(g[i - 1], bytes[i])
  BY <1>7
<1>10. Makes(g, p, bytes)
  <2>1. g[0] = p
    BY <1>1, <1>9
  <2>2. ASSUME NEW i \in 1 .. n PROVE g[i] = OutputByte(g[i - 1], bytes[i])
    <3>1. i \in 0 .. n /\ i # 0
      BY <1>1
    <3>2. QED
      BY <3>1, <1>9
  <2>3. QED
    BY <2>1, <2>2 DEF Makes
<1>11. QED
  BY <1>8, <1>10

State(c, s, e, h, l, x) ==
  [cells |-> c, status |-> s, escaped |-> e, high |-> h, half |-> l, send |-> x]

LEMMA LowByte ==
  ASSUME NEW p \in PacketState, NEW byte \in 0 .. 127
  PROVE  OutputByte(p, byte) = IF p.escaped THEN EscapedByte(p, byte) ELSE DataByte(p, byte)
<1>1. p.escaped \in BOOLEAN /\ byte < 128
  BY DEF PacketState
<1>2. CASE p.escaped
  BY <1>1, <1>2 DEF OutputByte
<1>3. CASE ~p.escaped
  BY <1>1, <1>3 DEF OutputByte
<1>4. QED
  BY <1>2, <1>3

LEMMA StatusGoes ==
  ASSUME NEW p \in PacketState, NEW byte \in 128 .. 246, ~is_invalid_cmd(byte)
  PROVE  /\ byte < 246 =>
              OutputByte(p, byte) = State(<<TAG, byte>>, byte, FALSE, p.high, 0, FALSE)
         /\ byte > 245 =>
              OutputByte(p, byte) = State(<<TAG, byte>>, byte, FALSE, p.high, 0, TRUE)
<1> DEFINE c == <<TAG, byte>>
           one == is_one_byte_cmd(byte)
<1>1. (byte < 246 => one = FALSE) /\ (byte > 245 => one = TRUE)
  BY DEF is_one_byte_cmd
<1>2. OutputByte(p, byte) = StatusByte(p, byte)
  BY DEF OutputByte
<1>3. PICK q : q = StatusByte(p, byte)
  OBVIOUS
<1>4. q = [p EXCEPT !.cells = c, !.status = byte, !.escaped = FALSE, !.half = 0, !.send = one]
  BY <1>3 DEF StatusByte
<1> HIDE DEF c, one
<1>5. q = [cells |-> c, status |-> byte, escaped |-> FALSE, high |-> p.high, half |-> 0, send |-> one]
  BY <1>4 DEF PacketState
<1>6. QED
  BY <1>1, <1>2, <1>3, <1>5 DEF State, c

\* What a byte of data does when the command has begun; d are the cells with it.
DataDoes(c, s, h, l, byte, d) ==
  OutputByte(State(c, s, FALSE, h, l, FALSE), byte) =
    IF (Len(d) = 3 /\ is_two_bytes_cmd(s)) \/ (Len(d) = 4 /\ is_three_bytes_cmd(s))
    THEN State(d, s, FALSE, h, l, TRUE)
    ELSE IF Len(d) = 1 + Len(Prefix) /\ Tail(d) = Prefix
    THEN State(<<>>, s, TRUE, TRUE, l, FALSE)
    ELSE State(IF Len(d) >= MaxPacket THEN Fresh ELSE d, s, FALSE, h, l, FALSE)

LEMMA DataGoes ==
  \A c \in Seq(Int) : \A s, l \in Int : \A h \in BOOLEAN : \A byte \in 0 .. 127 :
    Len(c) > 1 => DataDoes(c, s, h, l, byte, Append(c, byte))
<1> SUFFICES ASSUME NEW c \in Seq(Int), NEW s \in Int, NEW l \in Int, NEW h \in BOOLEAN,
                    NEW byte \in 0 .. 127, Len(c) > 1
             PROVE  DataDoes(c, s, h, l, byte, Append(c, byte))
  OBVIOUS
<1> DEFINE d == Append(c, byte)
           p == State(c, s, FALSE, h, l, FALSE)
           e == IF Len(d) >= MaxPacket THEN Fresh ELSE d
           sent == (Len(d) = 3 /\ is_two_bytes_cmd(s)) \/ (Len(d) = 4 /\ is_three_bytes_cmd(s))
           prefix == Len(d) = 1 + Len(Prefix) /\ Tail(d) = Prefix
<1>1. /\ p.cells = c /\ p.status = s /\ ~p.escaped
      /\ Len(p.cells) # 1 /\ p \in PacketState
  <2> HIDE DEF e, sent, prefix, d
  <2>1. p.cells = c /\ p.status = s /\ ~p.escaped
    BY DEF State
  <2>2. p \in PacketState
    BY DEF State, PacketState
  <2>3. Len(p.cells) # 1
    <3>1. PICK n \in Nat : n = Len(c)
      OBVIOUS
    <3>2. n # 1
      BY <3>1
    <3> HIDE DEF p
    <3>3. QED
      BY <2>1, <3>1, <3>2
  <2>4. QED
    BY <2>1, <2>2, <2>3
<1>2. OutputByte(p, byte) = DataByte(p, byte)
  <2> HIDE DEF p
  <2>1. QED
    BY <1>1, LowByte
<1>3. DataByte(p, byte) =
        IF sent THEN [p EXCEPT !.cells = d, !.send = TRUE]
        ELSE IF prefix THEN [p EXCEPT !.cells = <<>>, !.escaped = TRUE, !.high = TRUE]
        ELSE [p EXCEPT !.cells = e]
  <2> HIDE DEF p
  <2>1. QED
    BY <1>1 DEF DataByte
<1> HIDE DEF e, sent, prefix, d
<1>4. [p EXCEPT !.cells = d, !.send = TRUE] = State(d, s, FALSE, h, l, TRUE)
  <2>1. PICK q : q = [p EXCEPT !.cells = d, !.send = TRUE]
    OBVIOUS
  <2>2. q = [cells |-> d, status |-> s, escaped |-> FALSE,
              high |-> h, half |-> l, send |-> TRUE]
    BY <2>1 DEF State
  <2>3. QED
    BY <2>1, <2>2 DEF State
<1>5. [p EXCEPT !.cells = <<>>, !.escaped = TRUE, !.high = TRUE] = State(<<>>, s, TRUE, TRUE, l, FALSE)
  <2>1. PICK q : q = [p EXCEPT !.cells = <<>>, !.escaped = TRUE, !.high = TRUE]
    OBVIOUS
  <2>2. q = [cells |-> <<>>, status |-> s, escaped |-> TRUE,
              high |-> TRUE, half |-> l, send |-> FALSE]
    BY <2>1 DEF State
  <2>3. QED
    BY <2>1, <2>2 DEF State
<1>6. [p EXCEPT !.cells = e] = State(e, s, FALSE, h, l, FALSE)
  <2>1. PICK q : q = [p EXCEPT !.cells = e]
    OBVIOUS
  <2>2. q = [cells |-> e, status |-> s, escaped |-> FALSE,
              high |-> h, half |-> l, send |-> FALSE]
    BY <2>1 DEF State
  <2>3. QED
    BY <2>1, <2>2 DEF State
<1>7. QED
  BY <1>2, <1>3, <1>4, <1>5, <1>6 DEF e, sent, prefix, d, DataDoes

LEMMA EndIs ==
  \A p : OutputByte(p, 247) = EndByte(p)
<1> SUFFICES ASSUME NEW p PROVE OutputByte(p, 247) = EndByte(p)
  OBVIOUS
<1>1. QED
  BY DEF OutputByte

\* What the end of a SysEx message does
SysExEnd(c, h) ==
  OutputByte(State(c, 240, FALSE, h, 0, FALSE), 247) = State(Append(c, 247), 240, FALSE, h, 0, TRUE)

LEMMA SysExEnds ==
  \A c \in Seq(Int) : \A h \in BOOLEAN :
    Len(c) > 1 => SysExEnd(c, h)
<1> SUFFICES ASSUME NEW c \in Seq(Int), NEW h \in BOOLEAN, Len(c) > 1
             PROVE  SysExEnd(c, h)
  OBVIOUS
<1> DEFINE p == State(c, 240, FALSE, h, 0, FALSE)
           d == Append(c, 247)
<1>1. p.cells = c /\ p.status = 240 /\ p.escaped = FALSE
  BY DEF State
<1>2. EndByte(p) = [p EXCEPT !.cells = d, !.send = TRUE]
  <2> HIDE DEF p
  <2>1. QED
    BY <1>1 DEF EndByte
<1> HIDE DEF d
<1>3. [p EXCEPT !.cells = d, !.send = TRUE] = State(d, 240, FALSE, h, 0, TRUE)
  <2>1. PICK q : q = [p EXCEPT !.cells = d, !.send = TRUE]
    OBVIOUS
  <2>2. q = [cells |-> d, status |-> 240, escaped |-> FALSE,
              high |-> h, half |-> 0, send |-> TRUE]
    BY <2>1 DEF State
  <2>3. QED
    BY <2>1, <2>2 DEF State
<1>4. OutputByte(p, 247) = EndByte(p)
  BY EndIs, Zenon
<1>5. QED
  BY <1>2, <1>3, <1>4, Zenon DEF d, SysExEnd

\* What the end of an escaped message does
EscapeEnd(c, s, l) ==
  OutputByte(State(c, s, TRUE, TRUE, l, FALSE), 247) = State(c, s, TRUE, TRUE, l, TRUE)

LEMMA EscapeEnds ==
  \A c \in Seq(Int) : \A s, l \in Int :
    Len(c) >= 1 /\ Head(c) # ADDR => EscapeEnd(c, s, l)
<1> SUFFICES ASSUME NEW c \in Seq(Int), NEW s \in Int, NEW l \in Int,
                    Len(c) >= 1, Head(c) # ADDR
             PROVE  EscapeEnd(c, s, l)
  OBVIOUS
<1> DEFINE p == State(c, s, TRUE, TRUE, l, FALSE)
<1>1. p.cells = c /\ p.high = TRUE /\ p.escaped = TRUE
  BY DEF State
<1>2. EndByte(p) = [p EXCEPT !.send = TRUE]
  <2> HIDE DEF p
  <2>1. QED
    BY <1>1 DEF EndByte
<1>3. [p EXCEPT !.send = TRUE] = State(c, s, TRUE, TRUE, l, TRUE)
  <2>1. PICK q : q = [p EXCEPT !.send = TRUE]
    OBVIOUS
  <2>2. q = [cells |-> c, status |-> s, escaped |-> TRUE,
              high |-> TRUE, half |-> l, send |-> TRUE]
    BY <2>1 DEF State
  <2>3. QED
    BY <2>1, <2>2 DEF State
<1>4. OutputByte(p, 247) = EndByte(p)
  BY EndIs, Zenon
<1>5. QED
  BY <1>2, <1>3, <1>4, Zenon DEF EscapeEnd

\* What the two nibbles of a byte do
HighNibble(c, s, l, byte) ==
  OutputByte(State(c, s, TRUE, TRUE, l, FALSE), byte)
    = State(c, s, TRUE, FALSE, (byte * 16) % 256, FALSE)
LowNibble(c, s, l, byte) ==
  OutputByte(State(c, s, TRUE, FALSE, l, FALSE), byte)
    = State(Append(c, l + (byte % 16)), s, TRUE, TRUE, 0, FALSE)

LEMMA NibbleGoes ==
  \A c \in Seq(Int) : \A s, l \in Int : \A byte \in 0 .. 127 :
    (Len(c) < MaxPacket => HighNibble(c, s, l, byte)) /\ LowNibble(c, s, l, byte)
<1> SUFFICES ASSUME NEW c \in Seq(Int), NEW s \in Int, NEW l \in Int, NEW byte \in 0 .. 127
             PROVE  (Len(c) < MaxPacket => HighNibble(c, s, l, byte)) /\ LowNibble(c, s, l, byte)
  OBVIOUS
<1>1. ASSUME NEW p \in PacketState, p.escaped
      PROVE  OutputByte(p, byte) = EscapedByte(p, byte)
  BY <1>1, LowByte
<1>2. ASSUME Len(c) < MaxPacket
      PROVE  HighNibble(c, s, l, byte)
  <2> DEFINE p == State(c, s, TRUE, TRUE, l, FALSE)
             m == (byte * 16) % 256
  <2>1. p.cells = c /\ p.high /\ p.escaped /\ p \in PacketState
    BY DEF State, PacketState
  <2>2. EscapedByte(p, byte) = [p EXCEPT !.half = m, !.high = FALSE]
    <3> HIDE DEF p
    <3>1. QED
      BY <2>1, <1>2 DEF EscapedByte
  <2> HIDE DEF m
  <2>3. [p EXCEPT !.half = m, !.high = FALSE] = State(c, s, TRUE, FALSE, m, FALSE)
    <3>1. PICK q : q = [p EXCEPT !.half = m, !.high = FALSE]
      OBVIOUS
    <3>2. q = [cells |-> c, status |-> s, escaped |-> TRUE,
              high |-> FALSE, half |-> m, send |-> FALSE]
      BY <3>1 DEF State
    <3>3. QED
      BY <3>1, <3>2 DEF State
  <2>4. OutputByte(p, byte) = EscapedByte(p, byte)
    <3> HIDE DEF p
    <3>1. QED
      BY <1>1, <2>1
  <2>5. QED
    BY <2>2, <2>3, <2>4, Zenon DEF m, HighNibble
<1>3. LowNibble(c, s, l, byte)
  <2> DEFINE p == State(c, s, TRUE, FALSE, l, FALSE)
             d == Append(c, l + (byte % 16))
  <2>1. p.cells = c /\ ~p.high /\ p.escaped /\ p.half = l /\ p \in PacketState
    BY DEF State, PacketState
  <2>2. EscapedByte(p, byte) = [p EXCEPT !.cells = d, !.half = 0, !.high = TRUE]
    <3> HIDE DEF p
    <3>1. QED
      BY <2>1 DEF EscapedByte
  <2> HIDE DEF d
  <2>3. [p EXCEPT !.cells = d, !.half = 0, !.high = TRUE] = State(d, s, TRUE, TRUE, 0, FALSE)
    <3>1. PICK q : q = [p EXCEPT !.cells = d, !.half = 0, !.high = TRUE]
      OBVIOUS
    <3>2. q = [cells |-> d, status |-> s, escaped |-> TRUE,
              high |-> TRUE, half |-> 0, send |-> FALSE]
      BY <3>1 DEF State
    <3>3. QED
      BY <3>1, <3>2 DEF State
  <2>4. OutputByte(p, byte) = EscapedByte(p, byte)
    <3> HIDE DEF p
    <3>1. QED
      BY <1>1, <2>1
  <2>5. QED
    BY <2>2, <2>3, <2>4, Zenon DEF d, LowNibble
<1>4. QED
  BY <1>2, <1>3

\* n bytes of a SysEx message that is not known to be an escaped one yet
Unescaped(bytes, n) ==
  /\ bytes[1] = 240 /\ \A i \in 2 .. n : bytes[i] \in 0 .. 127
  /\ ~(Len(Prefix) <= n /\ \A i \in 1 .. Len(Prefix) : Prefix[i] = bytes[i])

\* What they have made
SysExCells(bytes, n) == [j \in 1 .. n + 1 |-> IF j = 1 THEN TAG ELSE bytes[j - 1]]

MadeSysEx(f, p, bytes, n) == f[n] = State(SysExCells(bytes, n), 240, FALSE, p.high, 0, FALSE)

LEMMA SysExMade ==
  ASSUME NEW bytes \in Seq(Int), NEW p \in PacketState, NEW f, Makes(f, p, bytes),
         NEW n \in 1 .. Len(bytes), n + 1 < MaxPacket, Unescaped(bytes, n)
  PROVE  MadeSysEx(f, p, bytes, n)
<1> DEFINE C(m) == SysExCells(bytes, m)
           Made(m) == f[m] = State(C(m), 240, FALSE, p.high, 0, FALSE)
           T == {m \in Nat : m + 1 <= n => Made(m + 1)}
<1> HIDE DEF C, Made
<1>1. Len(bytes) \in Nat /\ n \in Nat /\ p.high \in BOOLEAN
  BY DEF PacketState
<1>2. ASSUME NEW k \in Nat, k <= Len(bytes) PROVE C(k) \in Seq(Int) /\ Len(C(k)) = k + 1
  <2>1. ASSUME NEW j \in 1 .. k + 1, j # 1 PROVE bytes[j - 1] \in Int
    <3>1. j - 1 \in 1 .. Len(bytes)
      BY <1>2, <1>1, <2>1
    <3>2. QED
      BY <3>1
  <2>2. \A j \in 1 .. k + 1 : (IF j = 1 THEN TAG ELSE bytes[j - 1]) \in Int
    BY <2>1 DEF TAG
  <2>3. k + 1 \in Nat
    OBVIOUS
  <2>4. QED
    BY <2>2, <2>3 DEF C, SysExCells
<1>3. 0 \in T
  <2>1. f[0] = p /\ f[1] = OutputByte(p, 240)
    <3>1. 1 \in 1 .. Len(bytes) /\ 1 - 1 = 0
      BY <1>1
    <3>2. QED
      BY <3>1 DEF Makes, Unescaped
  <2>2. ~is_invalid_cmd(240)
    BY DEF is_invalid_cmd
  <2>3. f[1] = State(<<TAG, 240>>, 240, FALSE, p.high, 0, FALSE)
    <3>1. PICK s \in 128 .. 246 : s = 240
      OBVIOUS
    <3>2. OutputByte(p, s) = State(<<TAG, s>>, s, FALSE, p.high, 0, FALSE)
      <4>1. s < 246 /\ ~is_invalid_cmd(s)
        BY <2>2, <3>1
      <4>2. QED
        BY <4>1, StatusGoes
    <3>3. QED
      BY <2>1, <3>1, <3>2
  <2>4. C(1) = <<TAG, 240>>
    <3>1. C(1) = [j \in 1 .. 2 |-> IF j = 1 THEN TAG ELSE bytes[j - 1]]
      BY DEF C, SysExCells
    <3>2. C(1)[1] = TAG /\ C(1)[2] = 240
      BY <3>1 DEF Unescaped
    <3>3. C(1) \in Seq(Int) /\ Len(C(1)) = 2
      <4>1. 1 \in Nat /\ 1 <= Len(bytes) /\ 1 + 1 = 2
        BY <1>1
      <4>2. QED
        BY <1>2, <4>1
    <3>4. <<TAG, 240>> \in Seq(Int) /\ Len(<<TAG, 240>>) = 2
      BY DEF TAG
    <3>5. ASSUME NEW j \in 1 .. 2 PROVE C(1)[j] = <<TAG, 240>>[j]
      BY <3>2
    <3>6. QED
      BY <3>3, <3>4, <3>5, SeqEqual
  <2>5. Made(1)
    BY <2>3, <2>4 DEF Made
  <2>6. 0 + 1 = 1
    OBVIOUS
  <2>7. QED
    BY <2>5, <2>6
<1>4. ASSUME NEW m \in Nat, m \in T PROVE m + 1 \in T
  <2> SUFFICES ASSUME (m + 1) + 1 <= n PROVE Made((m + 1) + 1)
    OBVIOUS
  <2> DEFINE c == C(m + 1)
             b == bytes[m + 2]
             d == C(m + 2)
  <2>1. f[m + 1] = State(c, 240, FALSE, p.high, 0, FALSE)
    <3>1. m + 1 <= n
      BY <1>1
    <3>2. QED
      BY <1>4, <3>1 DEF Made
  <2>2. m + 2 \in 2 .. n /\ m + 2 \in 1 .. Len(bytes) /\ (m + 2) - 1 = m + 1 /\ b \in 0 .. 127
    BY <1>1 DEF Unescaped
  <2>3. f[m + 2] = OutputByte(f[m + 1], b)
    BY <2>2 DEF Makes
  <2>4. /\ c \in Seq(Int) /\ Len(c) = m + 2
        /\ d \in Seq(Int) /\ Len(d) = m + 3 /\ d = Append(c, b)
    <3>1. c \in Seq(Int) /\ Len(c) = m + 2 /\ d \in Seq(Int) /\ Len(d) = m + 3
      <4>1. /\ m + 1 \in Nat /\ m + 1 <= Len(bytes) /\ (m + 1) + 1 = m + 2
            /\ m + 2 \in Nat /\ m + 2 <= Len(bytes) /\ (m + 2) + 1 = m + 3
        BY <1>1, <2>2
      <4>2. QED
        BY <1>2, <4>1
    <3>2. Append(c, b) \in Seq(Int) /\ Len(Append(c, b)) = m + 3
      <4>1. b \in Int
        BY <2>2
      <4> HIDE DEF b, c
      <4>2. QED
        BY <3>1, <4>1
    <3>3. ASSUME NEW j \in 1 .. m + 3 PROVE d[j] = Append(c, b)[j]
      <4>1. CASE j = m + 3
        <5>1. Append(c, b)[m + 3] = b
          BY <3>1
        <5>2. d[m + 3] = b
          <6>1. m + 3 \in 1 .. (m + 2) + 1 /\ m + 3 # 1 /\ (m + 3) - 1 = m + 2
            OBVIOUS
          <6>2. QED
            BY <6>1 DEF C, SysExCells
        <5>3. QED
          BY <4>1, <5>1, <5>2
      <4>2. CASE j # m + 3
        <5>1. j \in 1 .. m + 2 /\ j \in 1 .. (m + 1) + 1 /\ j \in 1 .. (m + 2) + 1
          BY <4>2
        <5>2. d[j] = c[j]
          BY <5>1 DEF C, SysExCells
        <5>3. Append(c, b)[j] = c[j]
          <6> HIDE DEF c
          <6>1. QED
            BY <3>1, <5>1
        <5>4. QED
          BY <5>2, <5>3
      <4>3. QED
        BY <4>1, <4>2
    <3>4. d = Append(c, b)
      <4> HIDE DEF c, d
      <4>1. QED
        BY <3>1, <3>2, <3>3, SeqEqual
    <3>5. QED
      BY <3>1, <3>4
  <2>5. ~(Len(d) = 1 + Len(Prefix) /\ Tail(d) = Prefix)
    <3> SUFFICES ASSUME Len(d) = 1 + Len(Prefix), Tail(d) = Prefix PROVE FALSE
      OBVIOUS
    <3>1. Len(Prefix) = m + 2 /\ Len(Prefix) <= n
      BY <2>2, <2>4, <1>1, PrefixIs
    <3>2. ASSUME NEW i \in 1 .. Len(Prefix) PROVE Prefix[i] = bytes[i]
      <4>1. i + 1 \in 1 .. (m + 2) + 1 /\ i + 1 # 1 /\ (i + 1) - 1 = i
        BY <3>1
      <4>2. d[i + 1] = bytes[i]
        BY <4>1 DEF C, SysExCells
      <4> HIDE DEF d
      <4>3. Tail(d)[i] = d[i + 1]
        <5>1. d \in Seq(Int) /\ Len(d) = Len(Prefix) + 1 /\ Len(Prefix) \in Nat
          BY <2>4, <3>1, PrefixIs
        <5>2. QED
          BY <5>1
      <4>4. QED
        BY <4>2, <4>3
    <3>3. QED
      BY <3>1, <3>2 DEF Unescaped
  <2>6. ~is_two_bytes_cmd(240) /\ ~is_three_bytes_cmd(240) /\ Len(d) < MaxPacket /\ Len(c) > 1
    <3>1. ~is_two_bytes_cmd(240) /\ ~is_three_bytes_cmd(240)
      BY DEF is_two_bytes_cmd, is_three_bytes_cmd
    <3> HIDE DEF c, d
    <3>2. QED
      BY <3>1, <2>2, <2>4, <1>1, PrefixIs
  <2> HIDE DEF c, d, b
  <2>7. /\ Len(d) \in Nat /\ ~(Len(d) >= MaxPacket)
        /\ c \in Seq(Int) /\ b \in 0 .. 127 /\ 240 \in Int /\ 0 \in Int
    BY <2>2, <2>4, <2>6, PrefixIs
  <2>8. f[m + 2] = State(d, 240, FALSE, p.high, 0, FALSE)
    <3>1. PICK s \in Int, l \in Int, h \in BOOLEAN : s = 240 /\ l = 0 /\ h = p.high
      BY <1>1
    <3>2. ~is_two_bytes_cmd(s) /\ ~is_three_bytes_cmd(s)
      BY <2>6, <3>1
    <3>3. OutputByte(State(c, s, FALSE, h, l, FALSE), b) = State(d, s, FALSE, h, l, FALSE)
      <4>1. d = Append(c, b) /\ Len(c) > 1
        BY <2>4, <2>6
      <4>2. DataDoes(c, s, h, l, b, d)
        <5>1. DataDoes(c, s, h, l, b, Append(c, b))
          <6>1. /\ c \in Seq(Int) /\ s \in Int /\ l \in Int /\ h \in BOOLEAN
                /\ b \in 0 .. 127 /\ Len(c) > 1
            BY <2>7, <3>1, <4>1
          <6>2. QED
            BY <6>1, DataGoes, Zenon
        <5>2. QED
          BY <4>1, <5>1
      <4>3. QED
        BY <2>5, <2>7, <3>2, <4>2, Zenon DEF DataDoes
    <3>4. f[m + 2] = OutputByte(State(c, s, FALSE, h, l, FALSE), b)
      BY <2>1, <2>3, <3>1
    <3>5. f[m + 2] = State(d, s, FALSE, h, l, FALSE)
      BY <3>3, <3>4
    <3>6. QED
      BY <3>1, <3>5
  <2>9. (m + 1) + 1 = m + 2
    OBVIOUS
  <2>10. QED
    BY <2>8, <2>9 DEF d, Made
<1>5. n - 1 \in Nat /\ (n - 1) + 1 = n
  OBVIOUS
<1>6. n - 1 \in T
  <2> HIDE DEF T
  <2>1. \A m \in Nat : m \in T
    BY <1>3, <1>4, Induction
  <2>2. QED
    BY <1>5, <2>1
<1>7. Made(n)
  BY <1>1, <1>5, <1>6
<1>8. QED
  BY <1>7 DEF C, Made, MadeSysEx

\* What the output makes of the bytes of the packet d
Sends(p, bytes, d) == OutputBytes(p, bytes).send /\ OutputBytes(p, bytes).cells = d

LEMMA Opens ==
  ASSUME NEW p \in PacketState, NEW bytes \in Seq(Int), NEW f, Makes(f, p, bytes),
         Len(bytes) >= 1, bytes[1] \in 128 .. 245, ~is_invalid_cmd(bytes[1])
  PROVE  f[1] = State(<<TAG, bytes[1]>>, bytes[1], FALSE, p.high, 0, FALSE)
<1> DEFINE s == bytes[1]
<1>1. f[0] = p /\ f[1] = OutputByte(p, s)
  <2>1. 1 \in 1 .. Len(bytes) /\ 1 - 1 = 0
    OBVIOUS
  <2>2. QED
    BY <2>1 DEF Makes
<1>2. s \in 128 .. 246 /\ s < 246 /\ ~is_invalid_cmd(s)
  <2>1. PICK t : t = s
    OBVIOUS
  <2>2. t \in 128 .. 245 /\ ~is_invalid_cmd(t)
    BY <2>1
  <2>3. t \in 128 .. 246 /\ t < 246
    BY <2>2
  <2>4. QED
    BY <2>1, <2>2, <2>3
<1> HIDE DEF s
<1>3. OutputByte(p, s) = State(<<TAG, s>>, s, FALSE, p.high, 0, FALSE)
  BY <1>2, StatusGoes
<1>4. QED
  BY <1>1, <1>3 DEF s

\* One more byte of a command of two or three bytes
LEMMA Continues ==
  ASSUME NEW p \in PacketState, NEW bytes \in Seq(Int), NEW f, Makes(f, p, bytes),
         NEW i \in 1 .. Len(bytes) - 1, NEW c \in Seq(Int), NEW s \in Int,
         f[i] = State(c, s, FALSE, p.high, 0, FALSE), Len(c) > 1, bytes[i + 1] \in 0 .. 127
  PROVE  /\ f[i + 1] = OutputByte(f[i], bytes[i + 1])
         /\ DataDoes(c, s, p.high, 0, bytes[i + 1], Append(c, bytes[i + 1]))
<1>1. f[i + 1] = OutputByte(f[i], bytes[i + 1])
  <2>1. i + 1 \in 1 .. Len(bytes) /\ (i + 1) - 1 = i
    OBVIOUS
  <2>2. QED
    BY <2>1 DEF Makes
<1>2. p.high \in BOOLEAN /\ 0 \in Int
  BY DEF PacketState
<1> DEFINE b == bytes[i + 1]
<1>3. DataDoes(c, s, p.high, 0, b, Append(c, b))
  BY <1>2, DataGoes, Zenon
<1>4. QED
  BY <1>1, <1>3

LEMMA OneByteSends ==
  ASSUME NEW p \in PacketState, NEW s \in 128 .. 246, s > 245
  PROVE  Sends(p, <<s>>, <<TAG, s>>)
<1> DEFINE bytes == <<s>>
           d == <<TAG, s>>
<1>1. bytes \in Seq(Int) /\ 1 \in 1 .. Len(bytes) /\ bytes[1] = s /\ bytes[Len(bytes)] = s
  OBVIOUS
<1>2. \A f : f[1] = f[Len(bytes)]
  OBVIOUS
<1> HIDE DEF bytes, d
<1>3. PICK f : Makes(f, p, bytes) /\ OutputBytes(p, bytes) = f[Len(bytes)]
  <2>1. bytes \in Seq(Int)
    BY <1>1
  <2>2. QED
    BY <2>1, OutputMakes
<1>4. f[1] = OutputByte(p, s)
  <2>1. 1 - 1 = 0
    OBVIOUS
  <2>2. f[1] = OutputByte(f[1 - 1], bytes[1]) /\ f[0] = p
    BY <1>1, <1>3 DEF Makes
  <2>3. QED
    BY <1>1, <2>1, <2>2
<1>5. ~is_invalid_cmd(s)
  BY DEF is_invalid_cmd
<1>6. OutputByte(p, s) = State(d, s, FALSE, p.high, 0, TRUE)
  BY <1>5, StatusGoes DEF d
<1>7. Sends(p, bytes, d)
  <2>1. PICK q : q = OutputBytes(p, bytes)
    OBVIOUS
  <2>2. q = State(d, s, FALSE, p.high, 0, TRUE)
    BY <1>2, <1>3, <1>4, <1>6, <2>1
  <2>3. q.send /\ q.cells = d
    BY <2>2 DEF State
  <2>4. QED
    BY <2>1, <2>3 DEF Sends
<1>8. QED
  BY <1>7 DEF bytes, d

LEMMA TwoBytesSend ==
  ASSUME NEW p \in PacketState, NEW s \in Int, is_two_bytes_cmd(s), NEW a \in 0 .. 127
  PROVE  Sends(p, <<s, a>>, <<TAG, s, a>>)
<1> DEFINE bytes == <<s, a>>
           c == <<TAG, s>>
           d == <<TAG, s, a>>
<1>1. bytes \in Seq(Int) /\ Len(bytes) = 2 /\ bytes[1] = s /\ bytes[2] = a
  OBVIOUS
<1>2. c \in Seq(Int) /\ Len(c) = 2 /\ d = Append(c, a) /\ Len(d) = 3
  BY DEF TAG
<1>3. s \in 128 .. 245 /\ ~is_invalid_cmd(s)
  BY DEF is_two_bytes_cmd, is_invalid_cmd
<1> HIDE DEF bytes, d, c
<1>4. PICK f : Makes(f, p, bytes) /\ OutputBytes(p, bytes) = f[Len(bytes)]
  <2>1. bytes \in Seq(Int)
    BY <1>1
  <2>2. QED
    BY <2>1, OutputMakes
<1>5. f[1] = State(c, s, FALSE, p.high, 0, FALSE)
  <2>1. /\ bytes \in Seq(Int) /\ Len(bytes) >= 1
        /\ bytes[1] \in 128 .. 245 /\ ~is_invalid_cmd(bytes[1])
    BY <1>1, <1>3
  <2>2. f[1] = State(<<TAG, bytes[1]>>, bytes[1], FALSE, p.high, 0, FALSE)
    BY <1>4, <2>1, Opens
  <2>3. QED
    BY <1>1, <2>2 DEF c
<1>6. f[2] = OutputByte(f[1], a) /\ DataDoes(c, s, p.high, 0, a, Append(c, a))
  <2>1. PICK i \in 1 .. Len(bytes) - 1 : i = 1
    BY <1>1
  <2>2. i + 1 = 2
    BY <2>1
  <2>3. f[i] = State(c, s, FALSE, p.high, 0, FALSE) /\ Len(c) > 1 /\ bytes[i + 1] \in 0 .. 127
    <3>1. f[i] = State(c, s, FALSE, p.high, 0, FALSE)
      BY <1>5, <2>1
    <3>2. Len(c) > 1
      BY <1>2
    <3>3. bytes[i + 1] = a
      BY <1>1, <2>2
    <3>4. QED
      BY <3>1, <3>2, <3>3
  <2>4. /\ f[i + 1] = OutputByte(f[i], bytes[i + 1])
        /\ DataDoes(c, s, p.high, 0, bytes[i + 1], Append(c, bytes[i + 1]))
    <3>1. /\ i \in 1 .. Len(bytes) - 1 /\ c \in Seq(Int) /\ bytes \in Seq(Int)
          /\ Makes(f, p, bytes)
      BY <1>1, <1>2, <1>4, <2>1
    <3>2. QED
      BY <2>3, <3>1, Continues
  <2>5. QED
    BY <1>1, <2>1, <2>2, <2>4
<1>7. f[2] = State(d, s, FALSE, p.high, 0, TRUE)
  BY <1>2, <1>5, <1>6 DEF DataDoes
<1>8. QED
  <2>1. OutputBytes(p, bytes) = State(d, s, FALSE, p.high, 0, TRUE)
    BY <1>1, <1>4, <1>7
  <2>2. PICK q : q = OutputBytes(p, bytes)
    OBVIOUS
  <2>3. q.send /\ q.cells = d
    BY <2>1, <2>2 DEF State
  <2>4. Sends(p, bytes, d)
    BY <2>2, <2>3 DEF Sends
  <2>5. QED
    BY <2>4 DEF bytes, d

\* What ends with a state in which the cells are d and are sent
LEMMA SendsState ==
  ASSUME NEW p, NEW bytes, NEW d, NEW s, NEW e, NEW h, NEW l,
         OutputBytes(p, bytes) = State(d, s, e, h, l, TRUE)
  PROVE  Sends(p, bytes, d)
<1>1. PICK q : q = OutputBytes(p, bytes)
  OBVIOUS
<1>2. q.send /\ q.cells = d
  BY <1>1 DEF State
<1>3. QED
  BY <1>1, <1>2 DEF Sends

LEMMA ThreeBytesSend ==
  ASSUME NEW p \in PacketState, NEW s \in Int, is_three_bytes_cmd(s),
         NEW a \in 0 .. 127, NEW b \in 0 .. 127
  PROVE  Sends(p, <<s, a, b>>, <<TAG, s, a, b>>)
<1> DEFINE bytes == <<s, a, b>>
           c == <<TAG, s>>
           e == <<TAG, s, a>>
           d == <<TAG, s, a, b>>
<1>1. /\ bytes \in Seq(Int) /\ Len(bytes) = 3
      /\ bytes[1] = s /\ bytes[2] = a /\ bytes[3] = b
  OBVIOUS
<1>2. /\ c \in Seq(Int) /\ Len(c) = 2 /\ e = Append(c, a) /\ e \in Seq(Int) /\ Len(e) = 3
      /\ d = Append(e, b) /\ Len(d) = 4
  BY DEF TAG
<1>3. s \in 128 .. 245 /\ ~is_invalid_cmd(s) /\ ~is_two_bytes_cmd(s)
  BY DEF is_two_bytes_cmd, is_three_bytes_cmd, is_invalid_cmd
<1>4. Tail(e) # Prefix
  <2>1. Tail(e)[1] = s /\ s # 240
    BY DEF is_three_bytes_cmd
  <2> HIDE DEF e
  <2>2. QED
    BY <2>1, PrefixIs
<1> HIDE DEF bytes, d, c, e
<1>5. PICK f : Makes(f, p, bytes) /\ OutputBytes(p, bytes) = f[Len(bytes)]
  <2>1. bytes \in Seq(Int)
    BY <1>1
  <2>2. QED
    BY <2>1, OutputMakes
<1>6. f[1] = State(c, s, FALSE, p.high, 0, FALSE)
  <2>1. /\ bytes \in Seq(Int) /\ Len(bytes) >= 1
        /\ bytes[1] \in 128 .. 245 /\ ~is_invalid_cmd(bytes[1])
    BY <1>1, <1>3
  <2>2. f[1] = State(<<TAG, bytes[1]>>, bytes[1], FALSE, p.high, 0, FALSE)
    BY <1>5, <2>1, Opens
  <2>3. QED
    BY <1>1, <2>2 DEF c
<1>7. f[2] = OutputByte(f[1], a) /\ DataDoes(c, s, p.high, 0, a, Append(c, a))
  <2>1. PICK i \in 1 .. Len(bytes) - 1 : i = 1
    BY <1>1
  <2>2. i + 1 = 2
    BY <2>1
  <2>3. f[i] = State(c, s, FALSE, p.high, 0, FALSE) /\ Len(c) > 1 /\ bytes[i + 1] \in 0 .. 127
    <3>1. f[i] = State(c, s, FALSE, p.high, 0, FALSE)
      BY <1>6, <2>1
    <3>2. Len(c) > 1
      BY <1>2
    <3>3. bytes[i + 1] = a
      BY <1>1, <2>2
    <3>4. QED
      BY <3>1, <3>2, <3>3
  <2>4. /\ f[i + 1] = OutputByte(f[i], bytes[i + 1])
        /\ DataDoes(c, s, p.high, 0, bytes[i + 1], Append(c, bytes[i + 1]))
    <3>1. /\ i \in 1 .. Len(bytes) - 1 /\ c \in Seq(Int) /\ bytes \in Seq(Int)
          /\ Makes(f, p, bytes)
      BY <1>1, <1>2, <1>5, <2>1
    <3>2. QED
      BY <2>3, <3>1, Continues
  <2>5. QED
    BY <1>1, <2>1, <2>2, <2>4
<1>8. f[2] = State(e, s, FALSE, p.high, 0, FALSE)
  <2>1. Len(e) # 4 /\ ~(Len(e) >= MaxPacket)
    BY <1>2, PrefixIs
  <2>2. DataDoes(c, s, p.high, 0, a, e)
    BY <1>2, <1>7
  <2>3. OutputByte(f[1], a) = State(e, s, FALSE, p.high, 0, FALSE)
    BY <1>3, <1>4, <1>6, <2>1, <2>2, Zenon DEF DataDoes
  <2>4. QED
    BY <1>7, <2>3
<1>9. f[3] = OutputByte(f[2], b) /\ DataDoes(e, s, p.high, 0, b, Append(e, b))
  <2>1. PICK i \in 1 .. Len(bytes) - 1 : i = 2
    BY <1>1
  <2>2. i + 1 = 3
    BY <2>1
  <2>3. f[i] = State(e, s, FALSE, p.high, 0, FALSE) /\ Len(e) > 1 /\ bytes[i + 1] \in 0 .. 127
    <3>1. f[i] = State(e, s, FALSE, p.high, 0, FALSE)
      BY <1>8, <2>1
    <3>2. Len(e) > 1
      BY <1>2
    <3>3. bytes[i + 1] = b
      BY <1>1, <2>2
    <3>4. QED
      BY <3>1, <3>2, <3>3
  <2>4. /\ f[i + 1] = OutputByte(f[i], bytes[i + 1])
        /\ DataDoes(e, s, p.high, 0, bytes[i + 1], Append(e, bytes[i + 1]))
    <3>1. /\ i \in 1 .. Len(bytes) - 1 /\ e \in Seq(Int) /\ bytes \in Seq(Int)
          /\ Makes(f, p, bytes)
      BY <1>1, <1>2, <1>5, <2>1
    <3>2. QED
      BY <2>3, <3>1, Continues
  <2>5. QED
    BY <1>1, <2>1, <2>2, <2>4
<1>10. f[3] = State(d, s, FALSE, p.high, 0, TRUE)
  BY <1>2, <1>8, <1>9 DEF DataDoes
<1>11. OutputBytes(p, bytes) = State(d, s, FALSE, p.high, 0, TRUE)
  BY <1>1, <1>5, <1>10
<1>12. Sends(p, bytes, d)
  BY <1>11, SendsState
<1>13. QED
  BY <1>12 DEF bytes, d

\* bytes are a SysEx message, and d is the packet of it.
SysEx(d, bytes) ==
  /\ Len(d) = Len(bytes) + 1 /\ Len(bytes) >= 2 /\ Len(d) <= MaxPacket
  /\ d[1] = TAG /\ \A i \in 1 .. Len(bytes) : d[i + 1] = bytes[i]
  /\ Unescaped(bytes, Len(bytes) - 1) /\ bytes[Len(bytes)] = 247

LEMMA SysExSends ==
  ASSUME NEW p \in PacketState, NEW d \in Seq(Int), NEW bytes \in Seq(Int), SysEx(d, bytes)
  PROVE  Sends(p, bytes, d)
<1> DEFINE n == Len(bytes) - 1
           C == SysExCells(bytes, n)
<1>1. Len(bytes) \in Nat /\ n \in 1 .. Len(bytes) /\ n + 1 = Len(bytes) /\ n + 1 < MaxPacket
  <2>1. PICK k \in Nat, m \in Nat : k = Len(bytes) /\ m = Len(d)
    OBVIOUS
  <2>2. m = k + 1 /\ k >= 2 /\ m <= MaxPacket
    BY <2>1 DEF SysEx
  <2>3. k - 1 \in 1 .. k /\ (k - 1) + 1 = k /\ (k - 1) + 1 < MaxPacket
    BY <2>2, PrefixIs
  <2>4. QED
    BY <2>1, <2>3
<1>2. PICK f : Makes(f, p, bytes) /\ OutputBytes(p, bytes) = f[Len(bytes)]
  BY OutputMakes
<1>3. f[n] = State(C, 240, FALSE, p.high, 0, FALSE)
  <2> HIDE DEF n
  <2>1. Unescaped(bytes, n)
    BY DEF n, SysEx
  <2>2. QED
    <3>1. n \in 1 .. Len(bytes) /\ n + 1 < MaxPacket /\ Makes(f, p, bytes)
      BY <1>1, <1>2
    <3>2. MadeSysEx(f, p, bytes, n)
      BY <2>1, <3>1, SysExMade, Zenon
    <3>3. QED
      BY <3>2 DEF MadeSysEx
<1>4. C \in Seq(Int) /\ Len(C) = n + 1
  <2>1. ASSUME NEW j \in 1 .. n + 1, j # 1 PROVE bytes[j - 1] \in Int
    <3>1. j - 1 \in 1 .. Len(bytes)
      BY <1>1, <2>1
    <3>2. QED
      BY <3>1
  <2>2. \A j \in 1 .. n + 1 : (IF j = 1 THEN TAG ELSE bytes[j - 1]) \in Int
    BY <2>1 DEF TAG
  <2>3. n + 1 \in Nat
    BY <1>1
  <2> HIDE DEF n
  <2>4. QED
    BY <2>2, <2>3, SMTT(30) DEF SysExCells
<1>5. d = Append(C, 247)
  <2>1. ASSUME NEW j \in 1 .. n + 2 PROVE d[j] = Append(C, 247)[j]
    <3>1. CASE j = n + 2
      <4>1. Append(C, 247)[n + 2] = 247
        <5> HIDE DEF C, n
        <5>1. n \in Int
          BY <1>1
        <5>2. QED
          BY <1>4, <5>1
      <4>2. d[n + 2] = bytes[n + 1]
        <5>1. n + 1 \in 1 .. Len(bytes) /\ (n + 1) + 1 = n + 2
          BY <1>1
        <5> HIDE DEF n
        <5>2. \A i \in 1 .. Len(bytes) : d[i + 1] = bytes[i]
          BY DEF SysEx
        <5>3. d[(n + 1) + 1] = bytes[n + 1]
          BY <5>1, <5>2, Zenon
        <5>4. QED
          BY <5>1, <5>3
      <4>3. bytes[n + 1] = 247
        BY <1>1 DEF SysEx
      <4>4. QED
        BY <3>1, <4>1, <4>2, <4>3, Zenon
    <3>2. CASE j # n + 2
      <4>1. j \in 1 .. n + 1
        BY <3>2, <1>1
      <4>2. Append(C, 247)[j] = C[j]
        <5> HIDE DEF C, n
        <5>1. QED
          BY <1>4, <4>1
      <4>3. d[j] = C[j]
        <5>1. CASE j = 1
          BY <5>1, <4>1 DEF SysEx, SysExCells
        <5>2. CASE j # 1
          <6>1. j - 1 \in 1 .. Len(bytes) /\ (j - 1) + 1 = j
            BY <5>2, <4>1, <1>1
          <6>2. d[j] = bytes[j - 1]
            <7>1. \A i \in 1 .. Len(bytes) : d[i + 1] = bytes[i]
              BY DEF SysEx
            <7>2. d[(j - 1) + 1] = bytes[j - 1]
              BY <6>1, <7>1, Zenon
            <7>3. QED
              BY <6>1, <7>2
          <6>3. QED
            BY <6>2, <5>2, <4>1 DEF SysExCells
        <5>3. QED
          BY <5>1, <5>2
      <4>4. QED
        BY <4>2, <4>3
    <3>3. QED
      BY <3>1, <3>2
  <2>2. Append(C, 247) \in Seq(Int) /\ Len(Append(C, 247)) = n + 2
    <3> HIDE DEF C, n
    <3>1. n \in Int
      BY <1>1
    <3>2. QED
      BY <1>4, <3>1
  <2>3. Len(d) = n + 2
    BY <1>1 DEF SysEx
  <2> HIDE DEF C, n
  <2>4. QED
    BY <2>1, <2>2, <2>3, SeqEqual
<1> HIDE DEF C
<1>6. f[n + 1] = OutputByte(f[n], 247)
  <2>1. n + 1 \in 1 .. Len(bytes) /\ (n + 1) - 1 = n
    BY <1>1
  <2> HIDE DEF n
  <2>2. f[n + 1] = OutputByte(f[n], bytes[n + 1])
    BY <1>2, <2>1 DEF Makes
  <2>3. QED
    BY <1>1, <2>2 DEF SysEx
<1>7. f[n + 1] = State(d, 240, FALSE, p.high, 0, TRUE)
  <2>1. p.high \in BOOLEAN
    BY DEF PacketState
  <2>2. Len(C) > 1
    BY <1>1, <1>4
  <2>3. SysExEnd(C, p.high)
    <3>1. C \in Seq(Int)
      BY <1>4
    <3>2. QED
      BY <3>1, <2>1, <2>2, SysExEnds, Zenon
  <2>4. QED
    BY <1>3, <1>5, <1>6, <2>3 DEF SysExEnd
<1>8. OutputBytes(p, bytes) = State(d, 240, FALSE, p.high, 0, TRUE)
  BY <1>1, <1>2, <1>7
<1>9. QED
  BY <1>8, SendsState

LEMMA NibblesBack ==
  ASSUME NEW x \in 0 .. 255
  PROVE  /\ x \div 16 \in 0 .. 127 /\ x % 16 \in 0 .. 127
         /\ (((x \div 16) * 16) % 256) + ((x % 16) % 16) = x
<1> DEFINE q == x \div 16
           r == x % 16
<1>1. q \in 0 .. 15 /\ r \in 0 .. 15 /\ x = 16 * q + r
  OBVIOUS
<1> HIDE DEF q, r
<1>2. (q * 16) % 256 = 16 * q
  <2>1. q * 16 \in 0 .. 255
    BY <1>1
  <2>2. QED
    BY <1>1, <2>1
<1>3. r % 16 = r
  BY <1>1
<1>4. q \in 0 .. 127 /\ r \in 0 .. 127 /\ ((q * 16) % 256) + (r % 16) = x
  BY <1>1, <1>2, <1>3
<1>5. QED
  BY <1>4 DEF q, r

LEMMA PacketBytes ==
  \A d \in Seq(0 .. 255) :
    d \in Seq(Int) /\ Len(d) \in Nat /\ \A j \in 1 .. Len(d) : d[j] \in 0 .. 255
<1> SUFFICES ASSUME NEW d \in Seq(0 .. 255)
             PROVE  d \in Seq(Int) /\ Len(d) \in Nat /\ \A j \in 1 .. Len(d) : d[j] \in 0 .. 255
  OBVIOUS
<1>1. d \in Seq(Int)
  <2>1. 0 .. 255 \subseteq Int
    OBVIOUS
  <2>2. QED
    BY <2>1, SeqMonotonic
<1>2. \A j \in 1 .. Len(d) : d[j] \in 0 .. 255
  BY ElementOfSeq
<1>3. QED
  BY <1>1, <1>2

\* bytes are the escaped message of the packet d.
Escape(d, bytes) ==
  /\ Len(bytes) = Len(Prefix) + 2 * Len(d) + 1
  /\ \A i \in 1 .. Len(Prefix) : bytes[i] = Prefix[i]
  /\ \A k \in 1 .. Len(d) : /\ bytes[Len(Prefix) + 2 * k - 1] = d[k] \div 16
                            /\ bytes[Len(Prefix) + 2 * k] = d[k] % 16
  /\ bytes[Len(bytes)] = 247

\* What is made after the first n bytes of d
MadeEscape(f, d, n) ==
  f[Len(Prefix) + 2 * n] = State(SubSeq(d, 1, n), 240, TRUE, TRUE, 0, FALSE)

LEMMA PrefixData ==
  \A i \in 2 .. Len(Prefix) : Prefix[i] \in 0 .. 127
<1> SUFFICES ASSUME NEW i \in 2 .. Len(Prefix) PROVE Prefix[i] \in 0 .. 127
  OBVIOUS
<1>1. MidiBytes \subseteq 0 .. 255 /\ Prefix \in Seq(MidiBytes)
  BY ScsAssumption
<1>2. i \in 1 .. Len(Prefix)
  BY PrefixIs
<1>3. Prefix[i] \in MidiBytes
  BY <1>1, <1>2
<1>4. PICK x : x = Prefix[i]
  OBVIOUS
<1>5. x \in 0 .. 255 /\ x < 128
  <2>1. x < 128
    BY <1>4, PrefixIs
  <2>2. MidiBytes \subseteq 0 .. 255
    BY <1>1
  <2>3. QED
    BY <1>3, <1>4, <2>1, <2>2
<1>6. x \in 0 .. 127
  BY <1>5
<1>7. QED
  BY <1>4, <1>6

LEMMA PrefixMade ==
  ASSUME NEW p \in PacketState, NEW d \in Seq(0 .. 255), NEW bytes \in Seq(Int),
         Escape(d, bytes), NEW f, Makes(f, p, bytes)
  PROVE  f[Len(Prefix)] = State(<<>>, 240, TRUE, TRUE, 0, FALSE)
<1> DEFINE L == Len(Prefix)
           n == L - 1
           c == SysExCells(bytes, n)
           b == Prefix[L]
           e == Append(c, b)
<1>1. /\ L \in Nat /\ n \in 1 .. Len(bytes) /\ n + 1 = L /\ L < MaxPacket /\ MaxPacket \in Nat
      /\ L \in 1 .. Len(bytes) /\ L \in 2 .. L
  <2>1. PICK k \in Nat, m \in Nat : k = L /\ m = Len(d)
    BY PrefixIs
  <2>2. Len(bytes) = k + 2 * m + 1 /\ k > 1
    BY <2>1, PrefixIs DEF Escape
  <2>3. k - 1 \in 1 .. Len(bytes) /\ k \in 1 .. Len(bytes) /\ k \in 2 .. k /\ (k - 1) + 1 = k
    BY <2>2
  <2>4. QED
    BY <2>1, <2>3, PrefixIs
<1>2. Unescaped(bytes, n)
  <2>1. bytes[1] = 240
    BY <1>1, PrefixIs DEF Escape
  <2>2. ASSUME NEW i \in 2 .. n PROVE bytes[i] \in 0 .. 127
    <3>1. i \in 1 .. L /\ i \in 2 .. L
      BY <1>1
    <3>2. bytes[i] = Prefix[i]
      BY <3>1 DEF Escape
    <3>3. QED
      BY <3>1, <3>2, PrefixData
  <2>3. ~(L <= n)
    BY <1>1
  <2>4. QED
    BY <2>1, <2>2, <2>3 DEF Unescaped
<1>3. f[n] = State(c, 240, FALSE, p.high, 0, FALSE)
  <2>1. n \in 1 .. Len(bytes) /\ n + 1 < MaxPacket
    BY <1>1
  <2> HIDE DEF n
  <2>2. MadeSysEx(f, p, bytes, n)
    BY <1>2, <2>1, SysExMade, Zenon
  <2>3. QED
    BY <2>2 DEF MadeSysEx
<1>4. b \in 0 .. 127 /\ bytes[L] = b
  <2>1. L \in 1 .. L
    BY <1>1
  <2>2. bytes[L] = b
    BY <2>1 DEF Escape
  <2>3. b \in 0 .. 127
    BY <1>1, PrefixData
  <2>4. QED
    BY <2>2, <2>3
<1>5. /\ c \in Seq(Int) /\ Len(c) = L /\ \A i \in 2 .. L : c[i] = Prefix[i - 1]
  <2>1. ASSUME NEW i \in 1 .. L, i # 1
        PROVE  i - 1 \in 1 .. L /\ bytes[i - 1] = Prefix[i - 1] /\ Prefix[i - 1] \in Int
    <3>1. i - 1 \in 1 .. L
      BY <1>1, <2>1
    <3>2. bytes[i - 1] = Prefix[i - 1]
      BY <3>1 DEF Escape
    <3>3. Prefix[i - 1] \in Int
      BY <3>1, PrefixIs
    <3>4. QED
      BY <3>1, <3>2, <3>3
  <2>2. \A i \in 1 .. L : (IF i = 1 THEN TAG ELSE bytes[i - 1]) \in Int
    BY <2>1 DEF TAG
  <2>3. c = [i \in 1 .. L |-> IF i = 1 THEN TAG ELSE bytes[i - 1]]
    BY <1>1 DEF SysExCells
  <2> HIDE DEF L, c
  <2>4. c \in Seq(Int) /\ Len(c) = L
    BY <1>1, <2>2, <2>3
  <2>5. ASSUME NEW i \in 2 .. L PROVE c[i] = Prefix[i - 1]
    <3>1. i \in 1 .. L /\ i # 1
      BY <1>1
    <3>2. QED
      BY <2>1, <2>3, <3>1
  <2>6. QED
    BY <2>4, <2>5
<1>6. Len(e) = 1 + L /\ Tail(e) = Prefix
  <2> HIDE DEF c, b, L
  <2>1. b \in Int
    BY <1>4
  <2>2. e \in Seq(Int) /\ Len(e) = L + 1 /\ Tail(e) \in Seq(Int) /\ Len(Tail(e)) = L
    <3>1. c \in Seq(Int) /\ Len(c) = L /\ L \in Nat
      BY <1>1, <1>5
    <3>2. e \in Seq(Int) /\ Len(e) = L + 1
      BY <2>1, <3>1
    <3> HIDE DEF e
    <3>3. QED
      BY <3>1, <3>2
  <2>3. ASSUME NEW i \in 1 .. L PROVE Tail(e)[i] = Prefix[i]
    <3>1. Tail(e)[i] = e[i + 1]
      <4> HIDE DEF e
      <4>1. QED
        BY <1>1, <2>2
    <3>2. CASE i = L
      <4>1. e[L + 1] = b
        BY <1>1, <1>5
      <4>2. QED
        BY <3>1, <3>2, <4>1 DEF b
    <3>3. CASE i # L
      <4>1. i + 1 \in 2 .. L /\ i + 1 \in 1 .. L /\ (i + 1) - 1 = i
        BY <3>3, <1>1
      <4>2. e[i + 1] = c[i + 1]
        BY <4>1, <1>5, <2>1
      <4>3. QED
        BY <3>1, <4>1, <4>2, <1>5
    <3>4. QED
      BY <3>2, <3>3
  <2>4. Prefix \in Seq(Int) /\ Len(Prefix) = L
    BY PrefixIs DEF L
  <2> HIDE DEF e
  <2>5. Tail(e) = Prefix
    BY <2>2, <2>3, <2>4, SeqEqual
  <2>6. QED
    BY <1>1, <2>2, <2>5
<1>7. f[L] = OutputByte(f[n], b)
  <2>1. L - 1 = n
    OBVIOUS
  <2>2. f[L] = OutputByte(f[L - 1], bytes[L])
    BY <1>1 DEF Makes
  <2>3. QED
    BY <1>4, <2>1, <2>2
<1>8. DataDoes(c, 240, p.high, 0, b, e)
  <2>1. c \in Seq(Int) /\ p.high \in BOOLEAN /\ b \in 0 .. 127
    BY <1>4, <1>5 DEF PacketState
  <2>2. Len(c) > 1
    BY <1>1, <1>5
  <2> HIDE DEF c, b
  <2>3. PICK s \in Int, l \in Int : s = 240 /\ l = 0
    OBVIOUS
  <2>4. DataDoes(c, s, p.high, l, b, Append(c, b))
    <3>1. s \in Int /\ l \in Int
      BY <2>3
    <3>2. QED
      BY <2>1, <2>2, <3>1, DataGoes, Zenon
  <2>5. QED
    BY <2>3, <2>4
<1>9. ~is_two_bytes_cmd(240) /\ ~is_three_bytes_cmd(240)
  BY DEF is_two_bytes_cmd, is_three_bytes_cmd
<1> HIDE DEF c, b, e
<1>10. OutputByte(State(c, 240, FALSE, p.high, 0, FALSE), b)
         = State(<<>>, 240, TRUE, TRUE, 0, FALSE)
  BY <1>6, <1>8, <1>9 DEF DataDoes
<1>11. QED
  BY <1>3, <1>7, <1>10

LEMMA EscapeMade ==
  ASSUME NEW p \in PacketState, NEW d \in Seq(0 .. 255), Len(d) <= MaxPacket,
         NEW bytes \in Seq(Int), Escape(d, bytes), NEW f, Makes(f, p, bytes)
  PROVE  \A n \in 0 .. Len(d) : MadeEscape(f, d, n)
<1> DEFINE L == Len(Prefix)
           T == {n \in Nat : n <= Len(d) => MadeEscape(f, d, n)}
<1>1. L \in Nat /\ Len(d) \in Nat /\ MaxPacket \in Nat /\ d \in Seq(Int)
  BY PacketBytes, PrefixIs
<1>2. 0 \in T
  <2>1. f[L] = State(<<>>, 240, TRUE, TRUE, 0, FALSE)
    BY PrefixMade
  <2>2. SubSeq(d, 1, 0) = <<>> /\ L + 2 * 0 = L
    BY <1>1
  <2>3. MadeEscape(f, d, 0)
    BY <2>1, <2>2 DEF MadeEscape
  <2>4. QED
    BY <2>3
<1>3. ASSUME NEW n \in Nat, n \in T PROVE n + 1 \in T
  <2> SUFFICES ASSUME n + 1 <= Len(d) PROVE MadeEscape(f, d, n + 1)
    OBVIOUS
  <2> DEFINE c == SubSeq(d, 1, n)
             x == d[n + 1]
             i == L + 2 * n
             h == x \div 16
             l == x % 16
  <2>1. n + 1 \in 1 .. Len(d) /\ x \in 0 .. 255
    <3>1. n + 1 \in 1 .. Len(d)
      BY <1>1
    <3>2. QED
      BY <3>1, PacketBytes
  <2>2. h \in 0 .. 127 /\ l \in 0 .. 127 /\ ((h * 16) % 256) + (l % 16) = x
    BY <2>1, NibblesBack
  <2>3. /\ i + 1 \in 1 .. Len(bytes) /\ i + 2 \in 1 .. Len(bytes)
        /\ (i + 1) - 1 = i /\ (i + 2) - 1 = i + 1
        /\ i + 1 = L + 2 * (n + 1) - 1 /\ i + 2 = L + 2 * (n + 1)
    <3>1. Len(bytes) = L + 2 * Len(d) + 1
      BY DEF Escape
    <3>2. PICK m \in Nat, k \in Nat : m = Len(d) /\ k = L
      BY <1>1
    <3>3. Len(bytes) = k + 2 * m + 1 /\ n + 1 <= m
      BY <3>1, <3>2
    <3>4. i = k + 2 * n
      BY <3>2
    <3> HIDE DEF i
    <3>5. /\ i + 1 \in 1 .. Len(bytes) /\ i + 2 \in 1 .. Len(bytes)
          /\ (i + 1) - 1 = i /\ (i + 2) - 1 = i + 1
          /\ i + 1 = k + 2 * (n + 1) - 1 /\ i + 2 = k + 2 * (n + 1)
      BY <3>3, <3>4
    <3>6. QED
      BY <3>2, <3>5
  <2>4. bytes[i + 1] = h /\ bytes[i + 2] = l
    <3>1. /\ bytes[L + 2 * (n + 1) - 1] = d[n + 1] \div 16
          /\ bytes[L + 2 * (n + 1)] = d[n + 1] % 16
      BY <2>1 DEF Escape
    <3> HIDE DEF i, L
    <3>2. QED
      BY <2>3, <3>1
  <2>5. f[i + 1] = OutputByte(f[i], h) /\ f[i + 2] = OutputByte(f[i + 1], l)
    <3> HIDE DEF i, h, l
    <3>1. /\ f[i + 1] = OutputByte(f[(i + 1) - 1], bytes[i + 1])
          /\ f[i + 2] = OutputByte(f[(i + 2) - 1], bytes[i + 2])
      BY <2>3 DEF Makes
    <3>2. QED
      BY <2>3, <2>4, <3>1
  <2>6. c \in Seq(Int) /\ Len(c) = n /\ Append(c, x) = SubSeq(d, 1, n + 1)
    <3>1. c \in Seq(Int) /\ Len(c) = n /\ \A j \in 1 .. n : c[j] = d[j]
      BY <1>1, <2>1
    <3> DEFINE e == SubSeq(d, 1, n + 1)
    <3>2. e \in Seq(Int) /\ Len(e) = n + 1 /\ \A j \in 1 .. n + 1 : e[j] = d[j]
      BY <1>1, <2>1
    <3>3. Append(c, x) \in Seq(Int) /\ Len(Append(c, x)) = n + 1
      <4> HIDE DEF c, x
      <4>1. QED
        BY <2>1, <3>1
    <3>4. ASSUME NEW j \in 1 .. n + 1 PROVE Append(c, x)[j] = e[j]
      <4>1. CASE j = n + 1
        <5>1. Append(c, x)[n + 1] = x
          <6>1. x \in Int
            <7> HIDE DEF x
            <7>1. QED
              BY <2>1
          <6> HIDE DEF c, x
          <6>2. Append(c, x)[Len(c) + 1] = x
            BY <3>1, <6>1, AppendProperties
          <6>3. QED
            BY <3>1, <6>2
        <5>2. QED
          BY <4>1, <5>1, <3>2
      <4>2. CASE j # n + 1
        <5>1. j \in 1 .. n
          BY <4>2
        <5>2. Append(c, x)[j] = c[j]
          <6> HIDE DEF c, x
          <6>1. QED
            BY <3>1, <5>1
        <5>3. QED
          BY <3>1, <3>2, <5>1, <5>2
      <4>3. QED
        BY <4>1, <4>2
    <3> HIDE DEF c, e, x
    <3>5. Append(c, x) = e
      BY <3>2, <3>3, <3>4, SeqEqual
    <3>6. QED
      BY <3>1, <3>5 DEF e
  <2>7. f[i] = State(c, 240, TRUE, TRUE, 0, FALSE)
    <3>1. n <= Len(d)
      BY <1>1
    <3>2. MadeEscape(f, d, n)
      BY <1>3, <3>1
    <3>3. QED
      BY <3>2 DEF MadeEscape
  <2> DEFINE m == (h * 16) % 256
  <2>8. m \in Int
    <3>1. h \in Int
      <4> HIDE DEF h, l, x
      <4>1. QED
        BY <2>2
    <3> HIDE DEF h
    <3>2. QED
      BY <3>1
  <2> HIDE DEF c, x, h, l
  <2>9. HighNibble(c, 240, 0, h) /\ LowNibble(c, 240, m, l)
    <3>1. PICK s \in Int, z \in Int : s = 240 /\ z = 0
      OBVIOUS
    <3>2. s \in Int /\ z \in Int
      BY <3>1
    <3>3. c \in Seq(Int) /\ h \in 0 .. 127 /\ l \in 0 .. 127
      BY <2>2, <2>6
    <3>4. Len(c) < MaxPacket
      BY <1>1, <2>6
    <3> HIDE DEF m
    <3>5. HighNibble(c, s, z, h) /\ LowNibble(c, s, m, l)
      BY <2>8, <3>2, <3>3, <3>4, NibbleGoes, Zenon
    <3>6. QED
      BY <3>1, <3>5
  <2>10. f[i + 1] = State(c, 240, TRUE, FALSE, m, FALSE)
    BY <2>5, <2>7, <2>9, Zenon DEF HighNibble
  <2>11. f[i + 2] = State(Append(c, m + (l % 16)), 240, TRUE, TRUE, 0, FALSE)
    <3> HIDE DEF m
    <3>1. QED
      BY <2>5, <2>9, <2>10, Zenon DEF LowNibble
  <2>12. f[i + 2] = State(SubSeq(d, 1, n + 1), 240, TRUE, TRUE, 0, FALSE)
    <3>1. m + (l % 16) = x
      BY <2>2
    <3> HIDE DEF m
    <3>2. QED
      BY <2>6, <2>11, <3>1
  <2>13. QED
    BY <2>3, <2>12 DEF MadeEscape
<1>4. ASSUME NEW n \in 0 .. Len(d) PROVE MadeEscape(f, d, n)
  <2>1. n \in Nat /\ n <= Len(d)
    BY <1>1
  <2>2. n \in T
    <3> HIDE DEF T
    <3>1. \A k \in Nat : k \in T
      BY <1>2, <1>3, Induction
    <3>2. QED
      BY <2>1, <3>1
  <2>3. QED
    BY <2>1, <2>2
<1>5. QED
  BY <1>4

LEMMA EscapeSends ==
  ASSUME NEW p \in PacketState, NEW d \in Seq(0 .. 255), Len(d) \in 1 .. MaxPacket,
         d[1] # ADDR, NEW bytes \in Seq(Int), Escape(d, bytes)
  PROVE  Sends(p, bytes, d)
<1> DEFINE i == Len(Prefix) + 2 * Len(d)
<1>1. PICK f : Makes(f, p, bytes) /\ OutputBytes(p, bytes) = f[Len(bytes)]
  BY OutputMakes
<1>2. Len(d) \in Nat /\ Len(d) <= MaxPacket /\ Len(d) >= 1 /\ d \in Seq(Int)
  BY PacketBytes
<1>3. f[i] = State(d, 240, TRUE, TRUE, 0, FALSE)
  <2>1. Len(d) \in 0 .. Len(d)
    BY <1>2
  <2>2. \A n \in 0 .. Len(d) : MadeEscape(f, d, n)
    BY <1>1, <1>2, EscapeMade
  <2>3. MadeEscape(f, d, Len(d))
    BY <2>1, <2>2
  <2>4. SubSeq(d, 1, Len(d)) = d
    BY <1>2, AllCells
  <2>5. QED
    BY <2>3, <2>4 DEF MadeEscape
<1>4. i + 1 = Len(bytes) /\ i + 1 \in 1 .. Len(bytes) /\ (i + 1) - 1 = i /\ bytes[i + 1] = 247
  <2>1. PICK k \in Nat, m \in Nat : k = Len(Prefix) /\ m = Len(d)
    BY <1>2, PrefixIs
  <2>2. Len(bytes) = k + 2 * m + 1 /\ i = k + 2 * m
    BY <2>1 DEF Escape
  <2>3. bytes[Len(bytes)] = 247
    BY DEF Escape
  <2> HIDE DEF i
  <2>4. QED
    BY <2>2, <2>3
<1> HIDE DEF i
<1>5. f[i + 1] = OutputByte(f[i], 247)
  <2>1. f[i + 1] = OutputByte(f[(i + 1) - 1], bytes[i + 1])
    BY <1>1, <1>4 DEF Makes
  <2>2. QED
    BY <1>4, <2>1
<1>6. EscapeEnd(d, 240, 0)
  <2>1. PICK s \in Int, l \in Int : s = 240 /\ l = 0
    OBVIOUS
  <2>2. s \in Int /\ l \in Int
    BY <2>1
  <2>3. Head(d) # ADDR /\ Len(d) >= 1 /\ d \in Seq(Int)
    BY <1>2
  <2>4. EscapeEnd(d, s, l)
    BY <2>2, <2>3, EscapeEnds, Zenon
  <2>5. QED
    BY <2>1, <2>4
<1>7. OutputBytes(p, bytes) = State(d, 240, TRUE, TRUE, 0, TRUE)
  <2>1. OutputBytes(p, bytes) = f[i + 1]
    BY <1>1, <1>4
  <2>2. OutputByte(State(d, 240, TRUE, TRUE, 0, FALSE), 247) = State(d, 240, TRUE, TRUE, 0, TRUE)
    BY <1>6 DEF EscapeEnd
  <2>3. QED
    BY <1>3, <1>5, <2>1, <2>2
<1>8. QED
  BY <1>7, SendsState

\* s begins the escaped message of d, and has the nibbles of its first n bytes.
Escaping(d, s, n) ==
  /\ s \in Seq(Int) /\ Len(s) = Len(Prefix) + 2 * n
  /\ \A i \in 1 .. Len(Prefix) : s[i] = Prefix[i]
  /\ \A k \in 1 .. n : /\ s[Len(Prefix) + 2 * k - 1] = d[k] \div 16
                       /\ s[Len(Prefix) + 2 * k] = d[k] % 16

LEMMA NibblesAre ==
  \A x \in 0 .. 255 : /\ Nibbles(x) \in Seq(Int) /\ Len(Nibbles(x)) = 2
                      /\ Nibbles(x)[1] = x \div 16 /\ Nibbles(x)[2] = x % 16
<1> SUFFICES ASSUME NEW x \in 0 .. 255
             PROVE  /\ Nibbles(x) \in Seq(Int) /\ Len(Nibbles(x)) = 2
                    /\ Nibbles(x)[1] = x \div 16 /\ Nibbles(x)[2] = x % 16
  OBVIOUS
<1>1. x \div 16 \in Int /\ x % 16 \in Int
  OBVIOUS
<1>2. QED
  BY <1>1 DEF Nibbles

LEMMA EscapingBegins ==
  ASSUME NEW d
  PROVE  Escaping(d, Prefix, 0)
<1>1. Len(Prefix) + 2 * 0 = Len(Prefix) /\ 1 .. 0 = {}
  BY PrefixIs
<1>2. QED
  BY <1>1, PrefixIs DEF Escaping

LEMMA EscapingGoes ==
  ASSUME NEW d \in Seq(0 .. 255), NEW s, NEW n \in Nat, n < Len(d), Escaping(d, s, n)
  PROVE  Escaping(d, s \o Nibbles(d[n + 1]), n + 1)
<1> DEFINE x == d[n + 1]
           w == Nibbles(x)
           u == s \o w
<1>1. PICK L \in Nat : L = Len(Prefix)
  BY PrefixIs
<1>2. x \in 0 .. 255
  <2>1. n + 1 \in 1 .. Len(d)
    BY PacketBytes
  <2>2. QED
    BY <2>1, PacketBytes
<1>3. w \in Seq(Int) /\ Len(w) = 2 /\ w[1] = x \div 16 /\ w[2] = x % 16
  BY <1>2, NibblesAre
<1>4. s \in Seq(Int) /\ Len(s) = L + 2 * n
  BY <1>1 DEF Escaping
<1> HIDE DEF w
<1>5. /\ u \in Seq(Int) /\ Len(u) = L + 2 * n + 2
      /\ \A i \in 1 .. L + 2 * n : u[i] = s[i]
      /\ u[L + 2 * n + 1] = w[1] /\ u[L + 2 * n + 2] = w[2]
  <2>1. u \in Seq(Int) /\ Len(u) = Len(s) + Len(w)
    BY <1>3, <1>4, ConcatProperties
  <2>2. \A i \in 1 .. Len(s) + Len(w) : u[i] = IF i <= Len(s) THEN s[i] ELSE w[i - Len(s)]
    BY <1>3, <1>4, ConcatProperties
  <2> HIDE DEF u
  <2>3. PICK m \in Nat : m = L + 2 * n
    OBVIOUS
  <2>4. \A i \in 1 .. m : u[i] = s[i]
    <3>1. \A i \in 1 .. m : i \in 1 .. Len(s) + Len(w) /\ i <= Len(s)
      BY <1>3, <1>4, <2>3
    <3>2. QED
      BY <2>2, <3>1
  <2>5. u[m + 1] = w[1] /\ u[m + 2] = w[2]
    <3>1. /\ m + 1 \in 1 .. Len(s) + Len(w) /\ ~(m + 1 <= Len(s)) /\ (m + 1) - Len(s) = 1
          /\ m + 2 \in 1 .. Len(s) + Len(w) /\ ~(m + 2 <= Len(s)) /\ (m + 2) - Len(s) = 2
      BY <1>3, <1>4, <2>3
    <3>2. u[m + 1] = w[(m + 1) - Len(s)] /\ u[m + 2] = w[(m + 2) - Len(s)]
      BY <2>2, <3>1
    <3>3. QED
      BY <3>1, <3>2
  <2>6. Len(u) = m + 2
    BY <1>3, <1>4, <2>1, <2>3
  <2>7. QED
    BY <2>1, <2>3, <2>4, <2>5, <2>6
<1> HIDE DEF u
<1>6. L + 2 * (n + 1) = L + 2 * n + 2
  OBVIOUS
<1>7. \A i \in 1 .. L : u[i] = Prefix[i]
  <2>1. \A i \in 1 .. L : s[i] = Prefix[i]
    BY <1>1 DEF Escaping
  <2>2. \A i \in 1 .. L : i \in 1 .. L + 2 * n
    OBVIOUS
  <2>3. QED
    BY <2>1, <2>2, <1>5
<1>8. ASSUME NEW k \in 1 .. n + 1
      PROVE  u[L + 2 * k - 1] = d[k] \div 16 /\ u[L + 2 * k] = d[k] % 16
  <2>1. CASE k = n + 1
    <3>1. L + 2 * k - 1 = L + 2 * n + 1 /\ L + 2 * k = L + 2 * n + 2
      BY <2>1
    <3>2. u[L + 2 * k - 1] = w[1] /\ u[L + 2 * k] = w[2] /\ d[k] = x
      BY <2>1, <3>1, <1>5
    <3> HIDE DEF x
    <3>3. QED
      BY <3>2, <1>3
  <2>2. CASE k # n + 1
    <3>1. k \in 1 .. n /\ L + 2 * k - 1 \in 1 .. L + 2 * n /\ L + 2 * k \in 1 .. L + 2 * n
      BY <2>2
    <3>2. s[L + 2 * k - 1] = d[k] \div 16 /\ s[L + 2 * k] = d[k] % 16
      BY <3>1, <1>1 DEF Escaping
    <3>3. u[L + 2 * k - 1] = s[L + 2 * k - 1] /\ u[L + 2 * k] = s[L + 2 * k]
      BY <3>1, <1>5
    <3>4. QED
      BY <3>2, <3>3
  <2>3. QED
    BY <2>1, <2>2
<1>9. Escaping(d, u, n + 1)
  BY <1>1, <1>5, <1>6, <1>7, <1>8 DEF Escaping
<1>10. QED
  BY <1>9 DEF u, w

LEMMA EscapingEnds ==
  ASSUME NEW d \in Seq(0 .. 255), NEW s, Escaping(d, s, Len(d))
  PROVE  s \o <<247>> \in Seq(Int) /\ Escape(d, s \o <<247>>)
<1> DEFINE u == s \o <<247>>
<1>1. PICK L \in Nat, m \in Nat : L = Len(Prefix) /\ m = Len(d)
  BY PrefixIs, PacketBytes
<1>2. s \in Seq(Int) /\ Len(s) = L + 2 * m
  BY <1>1 DEF Escaping
<1>3. u = Append(s, 247)
  BY <1>2, AppendIsConcat
<1>4. /\ u \in Seq(Int) /\ Len(u) = L + 2 * m + 1 /\ \A i \in 1 .. L + 2 * m : u[i] = s[i]
      /\ u[L + 2 * m + 1] = 247
  <2>1. PICK q : q = u
    OBVIOUS
  <2>2. q = Append(s, 247)
    BY <2>1, <1>3
  <2>3. /\ q \in Seq(Int) /\ Len(q) = Len(s) + 1 /\ \A i \in 1 .. Len(s) : q[i] = s[i]
        /\ q[Len(s) + 1] = 247
    BY <2>2, <1>2, AppendProperties
  <2>4. QED
    BY <2>1, <2>3, <1>2
<1> HIDE DEF u
<1>5. \A i \in 1 .. L : u[i] = Prefix[i]
  <2>1. \A i \in 1 .. L : s[i] = Prefix[i]
    BY <1>1 DEF Escaping
  <2>2. \A i \in 1 .. L : i \in 1 .. L + 2 * m
    OBVIOUS
  <2>3. QED
    BY <2>1, <2>2, <1>4
<1>6. ASSUME NEW k \in 1 .. m
      PROVE  u[L + 2 * k - 1] = d[k] \div 16 /\ u[L + 2 * k] = d[k] % 16
  <2>1. L + 2 * k - 1 \in 1 .. L + 2 * m /\ L + 2 * k \in 1 .. L + 2 * m
    OBVIOUS
  <2>2. s[L + 2 * k - 1] = d[k] \div 16 /\ s[L + 2 * k] = d[k] % 16
    BY <1>1 DEF Escaping
  <2>3. u[L + 2 * k - 1] = s[L + 2 * k - 1] /\ u[L + 2 * k] = s[L + 2 * k]
    BY <2>1, <1>4
  <2>4. QED
    BY <2>2, <2>3
<1>7. Escape(d, u) /\ u \in Seq(Int)
  BY <1>1, <1>4, <1>5, <1>6 DEF Escape
<1>8. QED
  BY <1>7 DEF u

\* What is not MIDI
LEMMA AllNibblesEscape ==
  ASSUME NEW d \in Seq(0 .. 255)
  PROVE  Escaping(d, Prefix \o AllNibbles(d), Len(d))
<1> DEFINE w == AllNibbles(d)
           u == Prefix \o w
<1>1. PICK L \in Nat, m \in Nat : L = Len(Prefix) /\ m = Len(d)
  BY PrefixIs, PacketBytes
<1>2. w \in Seq(Int) /\ Len(w) = 2 * m
  <2>1. ASSUME NEW i \in 1 .. 2 * m
        PROVE  (IF i % 2 = 1 THEN d[(i + 1) \div 2] \div 16 ELSE d[i \div 2] % 16) \in Int
    <3>1. CASE i % 2 = 1
      <4>1. (i + 1) \div 2 \in 1 .. m
        BY <3>1
      <4>2. d[(i + 1) \div 2] \in 0 .. 255
        BY <4>1, <1>1, PacketBytes
      <4>3. PICK x \in 0 .. 255 : x = d[(i + 1) \div 2]
        BY <4>2
      <4>4. x \div 16 \in Int
        OBVIOUS
      <4>5. QED
        BY <3>1, <4>3, <4>4
    <3>2. CASE i % 2 # 1
      <4>1. i \div 2 \in 1 .. m
        BY <3>2
      <4>2. d[i \div 2] \in 0 .. 255
        BY <4>1, <1>1, PacketBytes
      <4>3. PICK x \in 0 .. 255 : x = d[i \div 2]
        BY <4>2
      <4>4. x % 16 \in Int
        OBVIOUS
      <4>5. QED
        BY <3>2, <4>3, <4>4
    <3>3. QED
      BY <3>1, <3>2
  <2>2. w = [i \in 1 .. 2 * m |-> IF i % 2 = 1 THEN d[(i + 1) \div 2] \div 16 ELSE d[i \div 2] % 16]
    BY <1>1 DEF AllNibbles
  <2>3. 2 * m \in Nat
    OBVIOUS
  <2> HIDE DEF w
  <2>4. QED
    BY <2>1, <2>2, <2>3
<1>3. ASSUME NEW k \in 1 .. m
      PROVE  w[2 * k - 1] = d[k] \div 16 /\ w[2 * k] = d[k] % 16
  <2>1. /\ 2 * k - 1 \in 1 .. 2 * m /\ (2 * k - 1) % 2 = 1 /\ ((2 * k - 1) + 1) \div 2 = k
        /\ 2 * k \in 1 .. 2 * m /\ (2 * k) % 2 # 1 /\ (2 * k) \div 2 = k
    OBVIOUS
  <2>2. w = [i \in 1 .. 2 * m |-> IF i % 2 = 1 THEN d[(i + 1) \div 2] \div 16 ELSE d[i \div 2] % 16]
    BY <1>1 DEF AllNibbles
  <2> HIDE DEF w
  <2>3. w[2 * k - 1] = d[((2 * k - 1) + 1) \div 2] \div 16
    BY <2>1, <2>2
  <2>4. w[2 * k] = d[(2 * k) \div 2] % 16
    BY <2>1, <2>2
  <2>5. QED
    BY <2>1, <2>3, <2>4
<1> HIDE DEF w
<1>4. Prefix \in Seq(Int)
  BY PrefixIs
<1>5. /\ u \in Seq(Int) /\ Len(u) = L + 2 * m
      /\ \A i \in 1 .. L + 2 * m : u[i] = IF i <= L THEN Prefix[i] ELSE w[i - L]
  <2>1. /\ u \in Seq(Int) /\ Len(u) = Len(Prefix) + Len(w)
        /\ \A i \in 1 .. Len(Prefix) + Len(w) :
             u[i] = IF i <= Len(Prefix) THEN Prefix[i] ELSE w[i - Len(Prefix)]
    BY <1>2, <1>4, ConcatProperties
  <2>2. Len(Prefix) + Len(w) = L + 2 * m
    BY <1>1, <1>2
  <2>3. QED
    BY <2>1, <2>2, <1>1
<1> HIDE DEF u
<1>6. \A i \in 1 .. L : u[i] = Prefix[i]
  <2>1. \A i \in 1 .. L : i \in 1 .. L + 2 * m /\ i <= L
    OBVIOUS
  <2>2. QED
    BY <2>1, <1>5
<1>7. ASSUME NEW k \in 1 .. m
      PROVE  u[L + 2 * k - 1] = d[k] \div 16 /\ u[L + 2 * k] = d[k] % 16
  <2>1. /\ L + 2 * k - 1 \in 1 .. L + 2 * m /\ ~(L + 2 * k - 1 <= L)
        /\ (L + 2 * k - 1) - L = 2 * k - 1
        /\ L + 2 * k \in 1 .. L + 2 * m /\ ~(L + 2 * k <= L) /\ (L + 2 * k) - L = 2 * k
    OBVIOUS
  <2>2. u[L + 2 * k - 1] = w[(L + 2 * k - 1) - L] /\ u[L + 2 * k] = w[(L + 2 * k) - L]
    BY <2>1, <1>5
  <2>3. QED
    BY <2>1, <2>2, <1>3
<1>8. Escaping(d, u, m)
  BY <1>1, <1>5, <1>6, <1>7 DEF Escaping
<1>9. QED
  BY <1>1, <1>8 DEF u, w

InputState == [count : Int, midi : Seq(Int)]

LEMMA InputTyped ==
  ASSUME NEW in \in InputState, NEW byte \in 0 .. 255
  PROVE  scs_input_midi_byte(in, byte) \in InputState
<1>1. in.count \in Int /\ in.midi \in Seq(Int) /\ byte \in Int
  BY DEF InputState
<1>2. Nibbles(byte) \in Seq(Int) /\ Nibbles(TAG) \in Seq(Int) /\ Nibbles(249) \in Seq(Int)
  <2>1. PICK x \in 0 .. 255, y \in 0 .. 255 : x = TAG /\ y = 249
    BY DEF TAG
  <2>2. Nibbles(x) \in Seq(Int) /\ Nibbles(y) \in Seq(Int) /\ Nibbles(byte) \in Seq(Int)
    BY NibblesAre
  <2>3. QED
    BY <2>1, <2>2
<1>3. CASE in.count > 0
  <2> DEFINE e == IF in.count = 1 THEN <<247>> ELSE <<>>
             w == in.midi \o Nibbles(byte) \o e
  <2>1. e \in Seq(Int)
    OBVIOUS
  <2> HIDE DEF e
  <2>2. w \in Seq(Int)
    BY <1>1, <1>2, <2>1, ConcatProperties
  <2>3. scs_input_midi_byte(in, byte) = [count |-> in.count - 1, midi |-> w]
    BY <1>3 DEF scs_input_midi_byte, e
  <2> HIDE DEF w
  <2>4. QED
    BY <1>1, <2>2, <2>3 DEF InputState
<1>4. CASE ~(in.count > 0) /\ byte = 249
  <2> DEFINE w == in.midi \o Prefix \o Nibbles(TAG) \o Nibbles(249)
  <2>1. w \in Seq(Int)
    BY <1>1, <1>2, PrefixIs, ConcatProperties
  <2>2. scs_input_midi_byte(in, byte) = [count |-> 3, midi |-> w]
    BY <1>4 DEF scs_input_midi_byte
  <2> HIDE DEF w
  <2>3. QED
    BY <2>1, <2>2 DEF InputState
<1>5. CASE ~(in.count > 0) /\ byte # 249
  <2> DEFINE w == Append(in.midi, byte)
  <2>1. w \in Seq(Int)
    BY <1>1
  <2>2. scs_input_midi_byte(in, byte) = [in EXCEPT !.midi = w]
    BY <1>5 DEF scs_input_midi_byte
  <2> HIDE DEF w
  <2>3. [in EXCEPT !.midi = w] = [count |-> in.count, midi |-> w]
    BY DEF InputState
  <2>4. QED
    BY <1>1, <2>1, <2>2, <2>3 DEF InputState
<1>6. QED
  BY <1>3, <1>4, <1>5

\* g tells what the bytes of the packet have become.
Comes(g, d) ==
  /\ g[1] = [count |-> 0, midi |-> <<>>]
  /\ \A i \in 2 .. Len(d) : g[i] = scs_input_midi_byte(g[i - 1], d[i])

LEMMA InputComes ==
  ASSUME NEW d \in Seq(0 .. 255), Len(d) >= 1, d[1] = TAG
  PROVE  \E g : Comes(g, d) /\ scs_input_packet(0, d) = g[Len(d)]
<1> DEFINE m == Len(d)
           none == [count |-> 0, midi |-> <<>>]
           Is(h) == h = [i \in 1 .. m |-> IF i = 1 THEN none ELSE scs_input_midi_byte(h[i - 1], d[i])]
           g == CHOOSE h : Is(h)
           D == [x \in InputState \X Nat |->
                   IF x[2] \in 1 .. m - 1 THEN scs_input_midi_byte(x[1], d[x[2] + 1]) ELSE x[1]]
<1>1. m \in Nat /\ m - 1 \in Nat /\ m >= 1 /\ \A i \in 1 .. m : d[i] \in 0 .. 255
  BY PacketBytes
<1>2. D \in [InputState \X Nat -> InputState]
  <2>1. ASSUME NEW q \in InputState, NEW i \in Nat
        PROVE  (IF i \in 1 .. m - 1 THEN scs_input_midi_byte(q, d[i + 1]) ELSE q) \in InputState
    <3>1. CASE i \in 1 .. m - 1
      <4>1. i + 1 \in 1 .. m
        BY <1>1, <3>1
      <4>2. d[i + 1] \in 0 .. 255
        BY <1>1, <4>1
      <4>3. QED
        BY <3>1, <4>2, InputTyped
    <3>2. QED
      BY <3>1
  <2>2. QED
    BY <2>1
<1>3. none \in InputState
  BY DEF InputState
<1>4. PICK f : PrimRec(f, InputState, none, D, m - 1)
  <2> HIDE DEF D, m, none
  <2>1. QED
    BY <1>1, <1>2, <1>3, Recursion
<1>5. f \in [0 .. m - 1 -> InputState]
  BY <1>4 DEF PrimRec
<1> DEFINE h == [i \in 1 .. m |-> f[i - 1]]
<1>6. ASSUME NEW i \in 1 .. m
      PROVE  h[i] = IF i = 1 THEN none ELSE scs_input_midi_byte(h[i - 1], d[i])
  <2>1. i - 1 \in 0 .. m - 1
    BY <1>1
  <2>2. f[i - 1] = IF i - 1 = 0 THEN none ELSE D[<<f[(i - 1) - 1], i - 1>>]
    BY <1>4, <2>1 DEF PrimRec
  <2>3. h[i] = f[i - 1]
    OBVIOUS
  <2>4. CASE i # 1
    <3>1. /\ (i - 1) - 1 \in 0 .. m - 1 /\ i - 1 \in 1 .. m - 1 /\ i - 1 \in Nat
          /\ (i - 1) + 1 = i /\ i - 1 # 0 /\ i - 1 \in 1 .. m
      BY <1>1, <2>4
    <3>2. f[(i - 1) - 1] \in InputState
      BY <3>1, <1>5
    <3>3. D[<<f[(i - 1) - 1], i - 1>>] = scs_input_midi_byte(f[(i - 1) - 1], d[(i - 1) + 1])
      <4> HIDE DEF m
      <4>1. QED
        BY <3>1, <3>2
    <3>4. h[i - 1] = f[(i - 1) - 1]
      BY <3>1
    <3> HIDE DEF h, D, none, m
    <3>5. QED
      BY <2>2, <2>3, <2>4, <3>1, <3>3, <3>4
  <2>5. CASE i = 1
    BY <2>2, <2>3, <2>5
  <2>6. QED
    BY <2>4, <2>5
<1>7. Is(h)
  <2> DEFINE B(i) == IF i = 1 THEN none ELSE scs_input_midi_byte(h[i - 1], d[i])
  <2>1. h = [i \in 1 .. m |-> h[i]]
    OBVIOUS
  <2>2. \A i \in 1 .. m : h[i] = B(i)
    BY <1>6
  <2>3. h = [i \in 1 .. m |-> B(i)]
    <3> HIDE DEF h, B, m
    <3>1. QED
      BY <2>1, <2>2
  <2>4. QED
    BY <2>3
<1>8. Is(g)
  <2> HIDE DEF Is, h
  <2>1. QED
    BY <1>7
<1>9. scs_input_packet(0, d) = g[m]
  BY Zenon DEF scs_input_packet
<1> HIDE DEF g
<1>10. \A i \in 1 .. m : g[i] = IF i = 1 THEN none ELSE scs_input_midi_byte(g[i - 1], d[i])
  <2> HIDE DEF none
  <2>1. QED
    BY <1>8
<1>11. Comes(g, d)
  <2>1. g[1] = none
    BY <1>1, <1>10
  <2>2. ASSUME NEW i \in 2 .. m PROVE g[i] = scs_input_midi_byte(g[i - 1], d[i])
    <3>1. i \in 1 .. m /\ i # 1
      BY <1>1
    <3> HIDE DEF none, m
    <3>2. QED
      BY <3>1, <1>10
  <2>3. QED
    BY <2>1, <2>2 DEF Comes
<1>12. QED
  BY <1>9, <1>11

\* Bytes other than 0xf9 come as they are.
LEMMA PlainComes ==
  ASSUME NEW d \in Seq(0 .. 255), Len(d) >= 1, d[1] = TAG,
         \A i \in 2 .. Len(d) : d[i] # 249
  PROVE  scs_input_packet(0, d) = [count |-> 0, midi |-> SubSeq(d, 2, Len(d))]
<1> DEFINE m == Len(d)

<1>1. PICK g : Comes(g, d) /\ scs_input_packet(0, d) = g[Len(d)]
  BY InputComes
<1> DEFINE Heard(i) == g[i] = [count |-> 0, midi |-> SubSeq(d, 2, i)]
           U == {n \in Nat : n + 1 <= m => Heard(n + 1)}
<1>2. m \in Nat /\ m >= 1 /\ d \in Seq(Int)
  BY PacketBytes
<1>3. 0 \in U
  <2>1. SubSeq(d, 2, 1) = <<>>
    BY <1>2, SubSeqEmpty
  <2>2. Heard(1)
    BY <1>1, <2>1 DEF Comes
  <2>3. 0 + 1 = 1
    OBVIOUS
  <2> HIDE DEF Heard
  <2>4. QED
    BY <2>2, <2>3
<1>4. ASSUME NEW n \in Nat, n \in U PROVE n + 1 \in U
  <2> SUFFICES ASSUME (n + 1) + 1 <= m PROVE Heard((n + 1) + 1)
    OBVIOUS
  <2> DEFINE c == SubSeq(d, 2, n + 1)
             x == d[n + 2]
  <2>1. /\ n + 1 <= m /\ (n + 1) + 1 = n + 2 /\ (n + 2) - 1 = n + 1 /\ n + 2 \in 2 .. m
        /\ n + 2 \in 1 .. m
    BY <1>2
  <2>2. Heard(n + 1)
    <3> HIDE DEF Heard
    <3>1. QED
      BY <1>4, <2>1
  <2>3. g[n + 2] = scs_input_midi_byte(g[(n + 2) - 1], d[n + 2])
    BY <1>1, <2>1 DEF Comes
  <2>4. x # 249 /\ x \in Int
    <3>1. x \in 0 .. 255
      BY <2>1, PacketBytes
    <3>2. d[n + 2] # 249
      BY <2>1
    <3> HIDE DEF x
    <3>3. x \in Int
      BY <3>1
    <3>4. QED
      BY <3>2, <3>3 DEF x
  <2>5. c \in Seq(Int) /\ Append(c, x) = SubSeq(d, 2, n + 2)
    <3>1. c \in Seq(Int) /\ SubSeq(d, 2, n + 2) = SubSeq(d, 2, (n + 2) - 1) \o <<d[n + 2]>>
      <4>1. \A i \in 2 .. n + 2 : i \in 1 .. m /\ d[i] \in Int
        BY <1>2, <2>1
      <4>2. \A i \in 2 .. n + 1 : d[i] \in Int
        BY <4>1
      <4>3. c \in Seq(Int)
        BY <4>2, <1>2, SubSeqProperties
      <4>4. SubSeq(d, 2, n + 2) = SubSeq(d, 2, (n + 2) - 1) \o <<d[n + 2]>>
        <5>1. 2 \in 1 .. m /\ n + 2 \in 2 .. m /\ d \in Seq(Int)
          BY <2>1, <1>2
        <5> HIDE DEF m, x, c
        <5>2. 2 \in 1 .. Len(d) /\ n + 2 \in 2 .. Len(d)
          BY <5>1 DEF m
        <5>3. QED
          BY <5>1, <5>2, SubSeqRecursiveSecond
      <4>5. QED
        BY <4>3, <4>4
    <3>2. Append(c, x) = c \o <<x>>
      BY <3>1, <2>4, AppendIsConcat
    <3>3. QED
      BY <3>1, <3>2, <2>1
  <2> HIDE DEF x
  <2>6. scs_input_midi_byte([count |-> 0, midi |-> c], x) = [count |-> 0, midi |-> Append(c, x)]
    <3>1. PICK in : in = [count |-> 0, midi |-> c]
      OBVIOUS
    <3>2. in.count = 0 /\ in.midi = c
      BY <3>1
    <3>3. scs_input_midi_byte(in, x) = [in EXCEPT !.midi = Append(in.midi, x)]
      BY <2>4, <3>2 DEF scs_input_midi_byte
    <3>4. [in EXCEPT !.midi = Append(in.midi, x)] = [count |-> 0, midi |-> Append(c, x)]
      <4> DEFINE w == Append(in.midi, x)
      <4>1. w = Append(c, x)
        BY <3>2
      <4> HIDE DEF c, w
      <4>2. PICK q : q = [in EXCEPT !.midi = w]
        OBVIOUS
      <4>3. q = [count |-> 0, midi |-> w]
        BY <3>1, <4>2
      <4>4. QED
        BY <4>1, <4>2, <4>3 DEF w
    <3>5. QED
      BY <3>1, <3>3, <3>4
  <2>7. g[n + 2] = [count |-> 0, midi |-> SubSeq(d, 2, n + 2)]
    <3>1. g[n + 2] = scs_input_midi_byte(g[n + 1], x)
      BY <2>1, <2>3 DEF x
    <3>2. QED
      BY <2>2, <2>5, <2>6, <3>1
  <2>8. QED
    BY <2>1, <2>7
<1>5. \A n \in Nat : n \in U
  <2> HIDE DEF U
  <2>1. QED
    BY <1>3, <1>4, Induction
<1>6. Heard(m)
  <2>1. m - 1 \in Nat /\ (m - 1) + 1 = m /\ m <= m
    BY <1>2
  <2> HIDE DEF Heard
  <2>2. m - 1 \in U
    BY <2>1, <1>5
  <2>3. QED
    BY <2>1, <2>2
<1>7. QED
  BY <1>1, <1>6

\* 0xf9 and the three bytes after it come escaped.
LEMMA FiveComes ==
  ASSUME NEW d \in Seq(0 .. 255), Len(d) = 5, d[1] = TAG, d[2] = 249
  PROVE  \E s : Escaping(d, s, 5) /\ scs_input_packet(0, d) = [count |-> 0, midi |-> s \o <<247>>]
<1> DEFINE N(k) == Nibbles(d[k])
           s2 == (Prefix \o N(1)) \o N(2)
           s3 == s2 \o N(3)
           s4 == s3 \o N(4)
           s5 == s4 \o N(5)
<1>1. PICK g : Comes(g, d) /\ scs_input_packet(0, d) = g[Len(d)]
  <2>1. Len(d) >= 1
    OBVIOUS
  <2>2. QED
    BY <2>1, InputComes
<1>2. ASSUME NEW k \in 1 .. 5, NEW s, Escaping(d, s, k - 1)
      PROVE  Escaping(d, s \o Nibbles(d[k]), k)
  <2>1. PICK n \in Nat : n = k - 1 /\ n < Len(d) /\ n + 1 = k
    OBVIOUS
  <2>2. Escaping(d, s, n)
    BY <1>2, <2>1
  <2>3. Escaping(d, s \o Nibbles(d[n + 1]), n + 1)
    BY <2>1, <2>2, EscapingGoes
  <2>4. QED
    BY <2>1, <2>3
<1>3. Escaping(d, s2, 2) /\ Escaping(d, s3, 3) /\ Escaping(d, s4, 4) /\ Escaping(d, s5, 5)
  <2>1. /\ \A s : Escaping(d, s, 0) => Escaping(d, s \o Nibbles(d[1]), 1)
        /\ \A s : Escaping(d, s, 1) => Escaping(d, s \o Nibbles(d[2]), 2)
        /\ \A s : Escaping(d, s, 2) => Escaping(d, s \o Nibbles(d[3]), 3)
        /\ \A s : Escaping(d, s, 3) => Escaping(d, s \o Nibbles(d[4]), 4)
        /\ \A s : Escaping(d, s, 4) => Escaping(d, s \o Nibbles(d[5]), 5)
    BY <1>2
  <2>2. Escaping(d, Prefix, 0)
    BY EscapingBegins
  <2>3. Escaping(d, Prefix \o N(1), 1)
    BY <2>1, <2>2, Zenon
  <2>4. Escaping(d, s2, 2)
    BY <2>1, <2>3, Zenon
  <2> HIDE DEF s2
  <2>5. Escaping(d, s3, 3)
    BY <2>1, <2>4, Zenon
  <2> HIDE DEF s3
  <2>6. Escaping(d, s4, 4)
    BY <2>1, <2>5, Zenon
  <2> HIDE DEF s4
  <2>7. Escaping(d, s5, 5)
    BY <2>1, <2>6, Zenon
  <2>8. QED
    BY <2>4, <2>5, <2>6, <2>7
<1>4. /\ g[1] = [count |-> 0, midi |-> <<>>]
      /\ g[2] = scs_input_midi_byte(g[1], d[2]) /\ g[3] = scs_input_midi_byte(g[2], d[3])
      /\ g[4] = scs_input_midi_byte(g[3], d[4]) /\ g[5] = scs_input_midi_byte(g[4], d[5])
  <2>1. /\ 2 \in 2 .. 5 /\ 3 \in 2 .. 5 /\ 4 \in 2 .. 5 /\ 5 \in 2 .. 5
        /\ 2 - 1 = 1 /\ 3 - 1 = 2 /\ 4 - 1 = 3 /\ 5 - 1 = 4
    OBVIOUS
  <2>2. \A i \in 2 .. 5 : g[i] = scs_input_midi_byte(g[i - 1], d[i])
    BY <1>1 DEF Comes
  <2>3. QED
    BY <2>1, <2>2, <1>1 DEF Comes
<1>5. g[2] = [count |-> 3, midi |-> s2]
  <2>1. <<>> \o Prefix = Prefix
    BY PrefixIs, ConcatEmptySeq
  <2>2. scs_input_midi_byte([count |-> 0, midi |-> <<>>], 249)
          = [count |-> 3, midi |-> ((<<>> \o Prefix) \o Nibbles(TAG)) \o Nibbles(249)]
    BY DEF scs_input_midi_byte
  <2>3. g[2] = [count |-> 3, midi |-> ((<<>> \o Prefix) \o Nibbles(d[1])) \o Nibbles(d[2])]
    BY <1>4, <2>2
  <2>4. QED
    BY <2>1, <2>3
<1>6. s2 \in Seq(Int) /\ s3 \in Seq(Int) /\ s4 \in Seq(Int) /\ s5 \in Seq(Int)
  BY <1>3 DEF Escaping
<1>7. \A s \in Seq(Int) : s \o <<>> = s
  BY ConcatEmptySeq
<1> HIDE DEF s2
<1>8. g[3] = [count |-> 2, midi |-> s3]
  <2>1. scs_input_midi_byte([count |-> 3, midi |-> s2], d[3])
          = [count |-> 3 - 1, midi |-> s3 \o <<>>]
    BY DEF scs_input_midi_byte
  <2>2. QED
    BY <2>1, <1>4, <1>5, <1>6, <1>7
<1> HIDE DEF s3
<1>9. g[4] = [count |-> 1, midi |-> s4]
  <2>1. scs_input_midi_byte([count |-> 2, midi |-> s3], d[4])
          = [count |-> 2 - 1, midi |-> s4 \o <<>>]
    BY DEF scs_input_midi_byte
  <2>2. QED
    BY <2>1, <1>4, <1>8, <1>6, <1>7
<1> HIDE DEF s4
<1>10. g[5] = [count |-> 0, midi |-> s5 \o <<247>>]
  <2>1. scs_input_midi_byte([count |-> 1, midi |-> s4], d[5])
          = [count |-> 1 - 1, midi |-> s5 \o <<247>>]
    BY DEF scs_input_midi_byte
  <2>2. QED
    BY <2>1, <1>4, <1>9
<1>11. QED
  <2>1. scs_input_packet(0, d) = [count |-> 0, midi |-> s5 \o <<247>>]
    BY <1>1, <1>10
  <2>2. Escaping(d, s5, 5)
    BY <1>3
  <2> HIDE DEF s5
  <2>3. QED
    BY <2>1, <2>2

LEMMA BytesOf ==
  ASSUME NEW d \in Seq(0 .. 255), Len(d) > 1
  PROVE  /\ SubSeq(d, 2, Len(d)) = Tail(d)
         /\ Tail(d) \in Seq(Int) /\ Len(Tail(d)) = Len(d) - 1
         /\ \A i \in 1 .. Len(Tail(d)) : Tail(d)[i] = d[i + 1]
<1>1. d \in Seq(Int) /\ d # <<>>
  BY PacketBytes
<1>2. QED
  BY <1>1, HeadTailProperties, TailIsSubSeq

\* A SysEx message of the device
LEMMA SysExBack ==
  ASSUME NEW d \in Seq(0 .. 255), Len(d) > 1, Len(d) <= MaxPacket, d[1] = TAG, d[2] = 240,
         Last(d) = 247, Data(SubSeq(d, 3, Len(d) - 1)), ~IsPrefix(Prefix, Tail(d))
  PROVE  SysEx(d, Tail(d)) /\ \A i \in 2 .. Len(d) : d[i] # 249
<1> DEFINE b == Tail(d)
           m == Len(d)
           t == SubSeq(d, 3, m - 1)
<1>1. m \in Nat /\ m > 2 /\ d[m] = 247 /\ d \in Seq(Int)
  <2>1. d[m] = 247
    BY DEF Last
  <2>2. m # 2
    <3> SUFFICES ASSUME m = 2 PROVE FALSE
      OBVIOUS
    <3>1. PICK x, y : x = d[2] /\ y = d[m]
      OBVIOUS
    <3>2. x = 240 /\ y = 247
      BY <2>1, <3>1
    <3>3. x = y
      BY <3>1, Zenon
    <3>4. QED
      BY <3>2, <3>3
  <2>3. QED
    BY <2>1, <2>2, PacketBytes
<1>2. b \in Seq(Int) /\ Len(b) = m - 1 /\ \A i \in 1 .. m - 1 : b[i] = d[i + 1]
  BY BytesOf
<1>3. ASSUME NEW i \in 3 .. m - 1 PROVE d[i] \in 0 .. 127
  <2>1. \A j \in 3 .. m - 1 : d[j] \in Int
    <3>1. \A j \in 3 .. m - 1 : j \in 1 .. m
      BY <1>1
    <3>2. QED
      BY <3>1, <1>1
  <2>2. t \in Seq(Int) /\ Len(t) = m - 3 /\ \A j \in 1 .. m - 3 : t[j] = d[j + 2]
    <3>1. 3 \in Int /\ m - 1 \in Int /\ 3 <= m - 1
      BY <1>1
    <3>2. /\ t \in Seq(Int) /\ Len(t) = IF 3 <= m - 1 THEN (m - 1) - 3 + 1 ELSE 0
          /\ \A j \in 1 .. (m - 1) - 3 + 1 : t[j] = d[3 + j - 1]
      BY <2>1, <3>1, SubSeqProperties
    <3> HIDE DEF t, m
    <3>3. Len(t) = m - 3
      BY <1>1, <3>1, <3>2
    <3>4. ASSUME NEW j \in 1 .. m - 3 PROVE t[j] = d[j + 2]
      <4>1. j \in 1 .. (m - 1) - 3 + 1 /\ 3 + j - 1 = j + 2
        BY <1>1
      <4>2. t[j] = d[3 + j - 1]
        BY <3>2, <4>1
      <4>3. QED
        BY <4>1, <4>2
    <3>5. QED
      BY <3>2, <3>3, <3>4
  <2>3. i - 2 \in 1 .. m - 3 /\ (i - 2) + 2 = i /\ i \in 1 .. m
    BY <1>1
  <2> HIDE DEF t
  <2>4. t[i - 2] < 128
    <3>1. i - 2 \in DOMAIN t
      BY <2>2, <2>3
    <3>2. \A j \in DOMAIN t : t[j] < 128
      BY DEF Data, t
    <3>3. QED
      BY <3>1, <3>2
  <2>5. t[i - 2] = d[i]
    <3>1. t[i - 2] = d[(i - 2) + 2]
      BY <2>2, <2>3
    <3>2. QED
      BY <2>3, <3>1
  <2>6. PICK x : x = d[i]
    OBVIOUS
  <2>7. x \in 0 .. 255
    BY <2>3, <2>6, PacketBytes
  <2>8. x < 128
    BY <2>4, <2>5, <2>6
  <2>9. x \in 0 .. 127
    BY <2>7, <2>8
  <2>10. QED
    BY <2>6, <2>9
<1>4. \A i \in 2 .. m : d[i] # 249
  <2> SUFFICES ASSUME NEW i \in 2 .. m PROVE d[i] # 249
    OBVIOUS
  <2>1. CASE i = 2
    BY <2>1
  <2>2. CASE i = m
    BY <2>2, <1>1
  <2>3. CASE i # 2 /\ i # m
    <3>1. i \in 3 .. m - 1
      BY <2>3, <1>1
    <3>2. PICK x : x = d[i]
      OBVIOUS
    <3>3. x \in 0 .. 127
      BY <3>1, <3>2, <1>3
    <3>4. x # 249
      BY <3>3
    <3>5. QED
      BY <3>2, <3>4
  <2>4. QED
    BY <2>1, <2>2, <2>3
<1> HIDE DEF b, t
<1>5. b[1] = 240 /\ b[m - 1] = 247
  <2>1. 1 \in 1 .. m - 1 /\ m - 1 \in 1 .. m - 1 /\ (m - 1) + 1 = m /\ 1 + 1 = 2
    BY <1>1
  <2>2. b[1] = d[1 + 1] /\ b[m - 1] = d[(m - 1) + 1]
    BY <2>1, <1>2
  <2>3. b[1] = d[2] /\ b[m - 1] = d[m]
    <3> HIDE DEF m
    <3>1. QED
      BY <2>1, <2>2
  <2>4. QED
    BY <2>3, <1>1
<1>6. Unescaped(b, (m - 1) - 1)
  <2>1. ASSUME NEW i \in 2 .. (m - 1) - 1 PROVE b[i] \in 0 .. 127
    <3>1. i \in 1 .. m - 1 /\ i + 1 \in 3 .. m - 1
      BY <1>1
    <3>2. b[i] = d[i + 1]
      BY <3>1, <1>2
    <3>3. QED
      BY <3>1, <3>2, <1>3
  <2>2. ~(Len(Prefix) <= (m - 1) - 1 /\ \A i \in 1 .. Len(Prefix) : Prefix[i] = b[i])
    <3>1. SUFFICES ASSUME Len(Prefix) <= (m - 1) - 1, \A i \in 1 .. Len(Prefix) : Prefix[i] = b[i]
                   PROVE  FALSE
      OBVIOUS
    <3>2. Len(Prefix) <= Len(b)
      BY <3>1, <1>1, <1>2, PrefixIs
    <3>3. IsPrefix(Prefix, b)
      BY <3>1, <3>2, <1>2, IsPrefixIs
    <3>4. QED
      BY <3>3 DEF b
  <2>3. QED
    BY <2>1, <2>2, <1>5 DEF Unescaped
<1>7. SysEx(d, b)
  <2>1. Len(d) = Len(b) + 1 /\ Len(b) >= 2 /\ \A i \in 1 .. Len(b) : d[i + 1] = b[i]
    BY <1>1, <1>2, SMTT(30)
  <2>2. Unescaped(b, Len(b) - 1) /\ b[Len(b)] = 247
    BY <1>2, <1>5, <1>6
  <2>3. QED
    BY <2>1, <2>2 DEF SysEx
<1>8. QED
  BY <1>4, <1>7 DEF b

LEMMA ShortBack ==
  ASSUME NEW p \in PacketState, NEW d \in Seq(0 .. 255), d[1] = TAG, d[2] < 248,
         \/ Len(d) = 2 /\ is_one_byte_cmd(d[2])
         \/ Len(d) = 3 /\ is_two_bytes_cmd(d[2]) /\ d[3] < 128
         \/ Len(d) = 4 /\ is_three_bytes_cmd(d[2]) /\ Data(<<d[3], d[4]>>)
  PROVE  Sends(p, Tail(d), d) /\ \A i \in 2 .. Len(d) : d[i] # 249
<1>1. d \in Seq(Int) /\ Len(d) \in 2 .. 4 /\ \A j \in 1 .. Len(d) : d[j] \in 0 .. 255
  BY PacketBytes
<1> DEFINE b == Tail(d)
<1>2. b \in Seq(Int) /\ Len(b) = Len(d) - 1 /\ \A i \in 1 .. Len(b) : b[i] = d[i + 1]
  <2>1. Len(d) > 1
    BY <1>1
  <2>2. QED
    BY <2>1, BytesOf
<1> HIDE DEF b
<1>3. CASE Len(d) = 2 /\ is_one_byte_cmd(d[2])
  <2>1. PICK s : s = d[2]
    OBVIOUS
  <2>2. s \in 0 .. 255
    BY <1>1, <1>3, <2>1
  <2>3. s < 248 /\ is_one_byte_cmd(s)
    BY <1>3, <2>1
  <2>4. s \in 128 .. 246 /\ s > 245 /\ s # 249
    <3>1. s = 246 \/ s >= 248
      BY <2>3 DEF is_one_byte_cmd
    <3>2. s < 248
      BY <2>3
    <3>3. QED
      BY <2>2, <3>1, <3>2
  <2>5. Sends(p, <<s>>, <<TAG, s>>)
    BY <2>4, OneByteSends, SMTT(30)
  <2>6. d = <<TAG, s>>
    <3>1. <<TAG, s>> \in Seq(Int) /\ Len(<<TAG, s>>) = 2
      BY <2>2 DEF TAG
    <3>2. \A j \in 1 .. 2 : d[j] = <<TAG, s>>[j]
      BY <2>1
    <3>3. QED
      BY <1>1, <1>3, <3>1, <3>2, SeqEqual
  <2>7. b = <<s>>
    <3>1. <<s>> \in Seq(Int) /\ Len(<<s>>) = 1
      BY <2>2
    <3>2. Len(b) = 1 /\ b[1] = s
      BY <1>2, <1>3, <2>1
    <3>3. \A j \in 1 .. 1 : b[j] = <<s>>[j]
      BY <3>2
    <3>4. QED
      BY <1>2, <3>1, <3>2, <3>3, SeqEqual
  <2>8. \A i \in 2 .. Len(d) : d[i] # 249
    BY <1>3, <2>1, <2>4
  <2>9. QED
    BY <2>5, <2>6, <2>7, <2>8 DEF b
<1>4. CASE Len(d) = 3 /\ is_two_bytes_cmd(d[2]) /\ d[3] < 128
  <2>1. PICK s, a : s = d[2] /\ a = d[3]
    OBVIOUS
  <2>2. s \in 0 .. 255 /\ a \in 0 .. 255
    BY <1>1, <1>4, <2>1
  <2>3. s < 248 /\ is_two_bytes_cmd(s) /\ a < 128
    BY <1>4, <2>1
  <2>4. s \in Int /\ a \in 0 .. 127 /\ s # 249 /\ a # 249
    <3>1. s < 248 /\ a < 128
      BY <2>3
    <3>2. QED
      BY <2>2, <3>1
  <2>5. Sends(p, <<s, a>>, <<TAG, s, a>>)
    <3>1. s \in Int /\ is_two_bytes_cmd(s) /\ a \in 0 .. 127
      BY <2>3, <2>4
    <3>2. QED
      BY <3>1, TwoBytesSend
  <2>6. d = <<TAG, s, a>>
    <3>1. <<TAG, s, a>> \in Seq(Int) /\ Len(<<TAG, s, a>>) = 3
      BY <2>2 DEF TAG
    <3>2. \A j \in 1 .. 3 : d[j] = <<TAG, s, a>>[j]
      BY <2>1
    <3>3. QED
      BY <1>1, <1>4, <3>1, <3>2, SeqEqual
  <2>7. b = <<s, a>>
    <3>1. <<s, a>> \in Seq(Int) /\ Len(<<s, a>>) = 2
      BY <2>2
    <3>2. Len(b) = 2 /\ b[1] = s /\ b[2] = a
      BY <1>2, <1>4, <2>1
    <3>3. \A j \in 1 .. 2 : b[j] = <<s, a>>[j]
      BY <3>2
    <3>4. QED
      BY <1>2, <3>1, <3>2, <3>3, SeqEqual
  <2>8. \A i \in 2 .. Len(d) : d[i] # 249
    BY <1>4, <2>1, <2>4
  <2>9. QED
    BY <2>5, <2>6, <2>7, <2>8 DEF b
<1>5. CASE Len(d) = 4 /\ is_three_bytes_cmd(d[2]) /\ Data(<<d[3], d[4]>>)
  <2>1. PICK s, a, e : s = d[2] /\ a = d[3] /\ e = d[4]
    OBVIOUS
  <2>2. s \in 0 .. 255 /\ a \in 0 .. 255 /\ e \in 0 .. 255
    BY <1>1, <1>5, <2>1
  <2>3. s < 248 /\ is_three_bytes_cmd(s) /\ a < 128 /\ e < 128
    <3>1. Data(<<a, e>>)
      BY <1>5, <2>1
    <3>2. a < 128 /\ e < 128
      BY <3>1 DEF Data
    <3>3. QED
      BY <1>5, <2>1, <3>2
  <2>4. s \in Int /\ a \in 0 .. 127 /\ e \in 0 .. 127 /\ s # 249 /\ a # 249 /\ e # 249
    <3>1. s < 248 /\ a < 128 /\ e < 128
      BY <2>3
    <3>2. QED
      BY <2>2, <3>1, SMTT(30)
  <2>5. Sends(p, <<s, a, e>>, <<TAG, s, a, e>>)
    <3>1. s \in Int /\ is_three_bytes_cmd(s) /\ a \in 0 .. 127 /\ e \in 0 .. 127
      BY <2>3, <2>4
    <3>2. QED
      BY <3>1, ThreeBytesSend
  <2>6. d = <<TAG, s, a, e>>
    <3>1. <<TAG, s, a, e>> \in Seq(Int) /\ Len(<<TAG, s, a, e>>) = 4
      BY <2>2 DEF TAG
    <3>2. \A j \in 1 .. 4 : d[j] = <<TAG, s, a, e>>[j]
      BY <2>1
    <3>3. QED
      BY <1>1, <1>5, <3>1, <3>2, SeqEqual
  <2>7. b = <<s, a, e>>
    <3>1. <<s, a, e>> \in Seq(Int) /\ Len(<<s, a, e>>) = 3
      BY <2>2
    <3>2. Len(b) = 3 /\ b[1] = s /\ b[2] = a /\ b[3] = e
      BY <1>2, <1>5, <2>1
    <3>3. \A j \in 1 .. 3 : b[j] = <<s, a, e>>[j]
      BY <3>2
    <3>4. QED
      BY <1>2, <3>1, <3>2, <3>3, SeqEqual
  <2>8. \A i \in 2 .. Len(d) : d[i] # 249
    BY <1>5, <2>1, <2>4
  <2>9. QED
    BY <2>5, <2>6, <2>7, <2>8 DEF b
<1>6. QED
  BY <1>3, <1>4, <1>5

\* The packet d, heard and written back
Returns(p, d) ==
  /\ scs_input_packet(0, d).count = 0
  /\ Sends(p, scs_input_packet(0, d).midi, d)

LEMMA ReturnsAs ==
  ASSUME NEW p, NEW d, NEW b, scs_input_packet(0, d) = [count |-> 0, midi |-> b], Sends(p, b, d)
  PROVE  Returns(p, d)
<1>1. PICK q : q = scs_input_packet(0, d)
  OBVIOUS
<1>2. q.count = 0 /\ q.midi = b
  BY <1>1
<1>3. QED
  BY <1>1, <1>2 DEF Returns

LEMMA PacketReturns ==
  ASSUME NEW p \in PacketState, NEW d \in Seq(0 .. 255), Len(d) \in 1 .. MaxPacket, ComesBack(d)
  PROVE  Returns(p, d)
<1>1. Len(d) \in Nat /\ Len(d) >= 1 /\ Len(d) <= MaxPacket
  BY PacketBytes, PrefixIs
<1>2. CASE d[1] = TAG /\ IsCommand(d) /\ d[2] < 248
  <2>1. Len(d) > 1
    BY <1>2 DEF IsCommand
  <2>2. Sends(p, Tail(d), d) /\ \A i \in 2 .. Len(d) : d[i] # 249
    <3>1. CASE \/ Len(d) = 2 /\ is_one_byte_cmd(d[2])
               \/ Len(d) = 3 /\ is_two_bytes_cmd(d[2]) /\ d[3] < 128
               \/ Len(d) = 4 /\ is_three_bytes_cmd(d[2]) /\ Data(<<d[3], d[4]>>)
      BY <3>1, <1>2, ShortBack
    <3>2. CASE /\ d[2] = 240 /\ Last(d) = 247 /\ Data(SubSeq(d, 3, Len(d) - 1))
               /\ ~IsPrefix(Prefix, Tail(d))
      <4>1. SysEx(d, Tail(d)) /\ \A i \in 2 .. Len(d) : d[i] # 249
        BY <3>2, <2>1, <1>1, <1>2, SysExBack
      <4>2. d \in Seq(Int) /\ Tail(d) \in Seq(Int)
        BY <2>1, BytesOf, PacketBytes
      <4>3. QED
        BY <4>1, <4>2, SysExSends
    <3>3. QED
      BY <3>1, <3>2, <1>2 DEF IsCommand
  <2>3. scs_input_packet(0, d) = [count |-> 0, midi |-> SubSeq(d, 2, Len(d))]
    BY <2>2, <1>1, <1>2, PlainComes
  <2>4. SubSeq(d, 2, Len(d)) = Tail(d)
    BY <2>1, BytesOf
  <2>5. QED
    BY <2>2, <2>3, <2>4, ReturnsAs
<1>3. CASE d[1] = TAG /\ Len(d) = 5 /\ d[2] = 249
  <2>1. PICK s : /\ Escaping(d, s, 5)
                 /\ scs_input_packet(0, d) = [count |-> 0, midi |-> s \o <<247>>]
    BY <1>3, FiveComes
  <2>2. Escaping(d, s, Len(d))
    BY <1>3, <2>1
  <2>3. s \o <<247>> \in Seq(Int) /\ Escape(d, s \o <<247>>)
    BY <2>2, EscapingEnds
  <2>4. d[1] # ADDR
    BY <1>3 DEF TAG, ADDR
  <2>5. Sends(p, s \o <<247>>, d)
    BY <2>3, <2>4, EscapeSends
  <2>6. QED
    BY <2>1, <2>5, ReturnsAs
<1>4. CASE d[1] # TAG /\ d[1] # ADDR
  <2> DEFINE s == Prefix \o AllNibbles(d)
  <2>1. Escaping(d, s, Len(d))
    BY AllNibblesEscape
  <2>2. scs_input_packet(0, d) = [count |-> 0, midi |-> s \o <<247>>]
    BY <1>4 DEF scs_input_packet
  <2> HIDE DEF s
  <2>3. s \o <<247>> \in Seq(Int) /\ Escape(d, s \o <<247>>)
    BY <2>1, EscapingEnds
  <2>4. Sends(p, s \o <<247>>, d)
    BY <2>3, <1>4, EscapeSends
  <2>5. QED
    BY <2>2, <2>4, ReturnsAs
<1>5. QED
  BY <1>2, <1>3, <1>4 DEF ComesBack

\* Whatever the output is in the middle of, a packet of the device that comes back comes
\* back as it was.
THEOREM RoundTrip == ScsSpec => []EscapeRoundTrip
<1>1. CommandInv => EscapeRoundTrip
  <2> SUFFICES ASSUME CommandInv PROVE EscapeRoundTrip
    OBVIOUS
  <2> DEFINE q == [cells |-> cells, status |-> scs.status, escaped |-> scs.escaped,
                   high |-> scs.high, half |-> scs.half, send |-> FALSE]
  <2>1. q \in PacketState
    BY DEF CommandInv, ScsFields, ScsRecord, PacketState
  <2> HIDE DEF q
  <2>2. ASSUME NEW d \in DevicePackets, ComesBack(d) PROVE Returns(q, d)
    <3>1. d \in Seq(0 .. 255) /\ Len(d) \in 1 .. MaxPacket
      BY ScsAssumption
    <3>2. QED
      BY <2>1, <2>2, <3>1, PacketReturns
  <2>3. QED
    BY <2>2 DEF EscapeRoundTrip, Returns, Sends, q
<1>2. QED
  BY <1>1, CommandInvariance, PTL
==============================================================================
