------------------------- MODULE EfwTransactionProofs ------------------------
(***************************************************************************)
(* Proofs about EfwTransaction: answers reach who asked for them, for any  *)
(* number of units, callers, calls, bus resets and messages.               *)
(***************************************************************************)
EXTENDS EfwTransaction, TLAPS

Mine(c) == [who |-> c, call |-> made[c]]

\* A device knows the node ids of the generation it knows.
BusInv ==
  /\ bus.gen \in Nat /\ bus.node \in Numberings
  /\ dev \in [Units -> [gen : Nat, node : Nodes]]
  /\ \A u \in Units :
       dev[u].gen <= bus.gen /\ (dev[u].gen = bus.gen => dev[u].node = bus.node[u])

\* An answer is only taken for one of the unit it comes from.
SourceInv ==
  \A m \in responses :
    /\ m.unit \in Units /\ m.gen \in Nat /\ m.gen <= bus.gen
    /\ m.gen = bus.gen => m.node = bus.node[m.unit]
    /\ \A u \in Units : Source(m, u) => m.unit = u

Senders == [who : Callers \cup {"user"}, call : Nat]
Calls == [seq : Nat, state : {"PENDING", "BUS_RESET", "COMPLETE"}, tries : Nat,
          answer : [from : Senders, seq : Nat]]

CallTypes ==
  /\ call \in [Callers -> Calls]
  /\ pc \in [Callers -> {"idle", "send", "wait"}]
  /\ made \in [Callers -> Nat]
  /\ transaction_queues \subseteq Callers
  /\ seqnum \in [Units -> KernelSeqnums \cup {0}]

\* Pending calls of one unit have numbers of their own; a complete one has its answer.
CallInv ==
  /\ \A c \in Callers : pc[c] # "idle" => c \in transaction_queues
  /\ \A c \in transaction_queues : call[c].seq \in KernelSeqnums
  /\ \A c, d \in transaction_queues :
       UnitOf[c] = UnitOf[d] /\ call[c].seq = call[d].seq => c = d
  /\ \A c \in Callers :
       call[c].state = "COMPLETE" =>
         /\ c \in transaction_queues
         /\ call[c].answer = [from |-> Mine(c), seq |-> call[c].seq + 1]

\* What the message m is, whose command had number n: one of user space, an answer that
\* was sent as a command, or the command of the one call that may wait for its answer.
Kind(m, n) ==
  /\ m.unit \in Units /\ m.from \in Senders
  /\ \/ m.from = User /\ n \in 0 .. UserMax
     \/ m.sent = "answer" /\ n - 1 \in KernelSeqnums
     \/ /\ n \in KernelSeqnums
        /\ \A c \in transaction_queues :
             UnitOf[c] = m.unit /\ call[c].seq = n => m.from = Mine(c)

WireInv ==
  /\ \A m \in commands : m.seq \in Nat /\ Kind(m, m.seq)
  /\ \A m \in responses :
       m.seq \in Nat /\ \/ m.seq > 0 /\ Kind(m, m.seq - 1)
                        \/ m.seq = 0 /\ m.sent = "answer" /\ m.from \in Senders

RingInv ==
  /\ ring \in [Units -> SUBSET [from : Senders, unit : Units, sent : {"answer", "command"}]]
  /\ \A u \in Units : \A r \in ring[u] : r.unit = u /\ (r.from = User \/ r.sent = "answer")

SentInv == \A m \in commands \cup responses : m.sent \in {"answer", "command"}

IInv == BusInv /\ SourceInv /\ CallTypes /\ CallInv /\ WireInv /\ SentInv /\ RingInv

----------------------------------------------------------------------------
(* Sequence numbers *)

\* The next number is one of the driver's, and its answer is no wrap.
LEMMA NextIsKernel ==
  ASSUME NEW n \in KernelSeqnums \cup {0}
  PROVE  NextSeqnum(n) \in KernelSeqnums
BY EfwTransactionAssumption DEF NextSeqnum, KernelSeqnums, KERNEL_SEQNUM_MIN

\* Numbers of the driver are even: no answer to an answer is an answer to a command.
LEMMA Parity ==
  ASSUME NEW n \in KernelSeqnums, NEW k \in KernelSeqnums
  PROVE  n + 1 # k
BY EfwTransactionAssumption DEF KernelSeqnums, KERNEL_SEQNUM_MIN

\* Numbers of the driver are above those of user space and below the last one.
LEMMA KernelRange ==
  ASSUME NEW n \in KernelSeqnums
  PROVE  n \in Nat /\ n > UserMax + 1 /\ n < SeqMax
BY EfwTransactionAssumption DEF KernelSeqnums, KERNEL_SEQNUM_MIN

LEMMA InitInv == Init => IInv
<1> SUFFICES ASSUME Init PROVE IInv
  OBVIOUS
<1>1. bus.node \in Numberings /\ bus.gen = 0
  BY EfwTransactionAssumption DEF Init
<1>2. BusInv
  <2>1. bus.node \in [Units -> Nodes]
    BY <1>1 DEF Numberings
  <2>2. dev \in [Units -> [gen : Nat, node : Nodes]]
    BY <2>1 DEF Init
  <2>3. QED
    BY <1>1, <2>2 DEF BusInv, Init
<1>3. NoCall \in Calls
  BY DEF NoCall, NoAnswer, Calls, Senders, User
<1>4. CallTypes
  BY <1>3, EfwTransactionAssumption DEF CallTypes, Init
<1>5. CallInv
  BY DEF CallInv, Init, NoCall
<1>6. QED
  BY <1>2, <1>4, <1>5 DEF IInv, SourceInv, WireInv, SentInv, RingInv, Init

----------------------------------------------------------------------------
(* The bus and the sources of answers *)

LEMMA BusStep == BusInv /\ [Next]_vars => BusInv'
<1> SUFFICES ASSUME BusInv, [Next]_vars PROVE BusInv'
  OBVIOUS
<1>1. CASE UNCHANGED <<bus, dev>>
  BY <1>1 DEF BusInv
<1>2. CASE BusReset
  <2>1. PICK n \in Numberings : bus' = [gen |-> bus.gen + 1, node |-> n]
    BY <1>2 DEF BusReset
  <2>2. QED
    BY <1>2, <2>1 DEF BusReset, BusInv
<1>3. ASSUME NEW u \in Units, CoreUpdates(u) PROVE BusInv'
  <2>1. bus.node \in [Units -> Nodes]
    BY DEF BusInv, Numberings
  <2>2. QED
    BY <1>3, <2>1 DEF CoreUpdates, BusInv
<1>4. QED
  BY <1>1, <1>2, <1>3 DEF Next, Step, Begin, Send, SendFails, Retry, Succeed, Answer, Response,
    UserWrites, Update, Probe, ProbeEnds, Remove, CardFree, vars, busVars

\* An action that adds no answer and leaves the bus alone.
LEMMA SourceKept ==
  ASSUME SourceInv, responses' \subseteq responses, UNCHANGED <<bus, dev>>
  PROVE  SourceInv'
BY DEF SourceInv, Source

\* Node ids differ, so that the one a device has in this generation is its own only.
LEMMA SourceNow ==
  ASSUME BusInv, NEW u \in Units, NEW v \in Units,
         dev[u].gen = bus.gen, dev[u].node = bus.node[v]
  PROVE  u = v
BY DEF BusInv, Numberings

LEMMA SourceStep == BusInv /\ SourceInv /\ WireInv /\ [Next]_vars => SourceInv'
<1> SUFFICES ASSUME BusInv, SourceInv, WireInv, [Next]_vars PROVE SourceInv'
  OBVIOUS
<1>1. CASE UNCHANGED <<bus, dev>> /\ responses' \subseteq responses
  BY <1>1, SourceKept
<1>2. CASE BusReset
  <2>1. bus'.gen = bus.gen + 1 /\ UNCHANGED <<dev, responses>>
    BY <1>2 DEF BusReset, wireVars
  <2>2. QED
    BY <2>1 DEF SourceInv, BusInv, Source
<1>3. ASSUME NEW u \in Units, CoreUpdates(u) PROVE SourceInv'
  <2>1. /\ UNCHANGED <<bus, responses>>
        /\ dev' = [dev EXCEPT ![u] = [gen |-> bus.gen, node |-> bus.node[u]]]
    BY <1>3 DEF CoreUpdates, wireVars
  <2>2. ASSUME NEW m \in responses, NEW v \in Units, dev'[v].gen = m.gen,
               dev'[v].node = m.node
        PROVE  m.unit = v
    <3>1. CASE v = u
      <4>1. m.gen = bus.gen /\ m.node = bus.node[u]
        BY <2>1, <2>2, <3>1 DEF BusInv
      <4>2. QED
        BY <3>1, <4>1 DEF SourceInv, BusInv, Numberings
    <3>2. CASE v # u
      BY <2>1, <2>2, <3>2 DEF SourceInv, Source, BusInv
    <3>3. QED
      BY <3>1, <3>2
  <2>3. QED
    BY <2>1, <2>2 DEF SourceInv, Source
<1>4. ASSUME NEW m \in commands, Answer(m) PROVE SourceInv'
  <2> DEFINE a == [unit |-> m.unit, node |-> bus.node[m.unit], gen |-> bus.gen,
                   from |-> m.from, sent |-> m.sent,
                   seq |-> IF m.seq = SeqMax THEN 0 ELSE m.seq + 1]
  <2>1. responses' = responses \cup {a} /\ UNCHANGED <<bus, dev>>
    BY <1>4 DEF Answer, busVars
  <2>2. m.unit \in Units
    BY DEF WireInv, Kind
  <2>3. a.unit = m.unit /\ a.gen = bus.gen /\ a.node = bus.node[m.unit]
    OBVIOUS
  <2> HIDE DEF a
  <2>4. \A v \in Units : Source(a, v) => v = m.unit
    BY <2>2, <2>3, SourceNow DEF Source
  <2>5. QED
    BY <2>1, <2>2, <2>3, <2>4 DEF SourceInv, BusInv, Source
<1>5. QED
  BY <1>1, <1>2, <1>3, <1>4 DEF Next, Step, Begin, Send, SendFails, Retry, Succeed, Response,
    UserWrites, Update, Probe, ProbeEnds, Remove, CardFree, vars, busVars, wireVars

----------------------------------------------------------------------------
(* The calls *)

\* What a call does with its own entry, when it puts no number into the list.
LEMMA CallOwn ==
  ASSUME CallTypes, CallInv, NEW c \in Callers, NEW new \in Calls,
         call' = [call EXCEPT ![c] = new],
         NEW l \in {"idle", "send", "wait"}, Goto(c, l),
         UNCHANGED <<made, seqnum>>,
         \/ transaction_queues' = transaction_queues \ {c} /\ l = "idle" /\ new.state = "PENDING"
         \/ /\ UNCHANGED transaction_queues /\ c \in transaction_queues
            /\ new.seq = call[c].seq /\ new.state = call[c].state /\ new.answer = call[c].answer
  PROVE  CallTypes' /\ CallInv'
<1>1. CallTypes'
  BY DEF CallTypes, Goto
<1>2. \A d \in Callers : call'[d] = IF d = c THEN new ELSE call[d]
  BY DEF CallTypes
<1>3. \A d \in Callers : pc'[d] = IF d = c THEN l ELSE pc[d]
  BY DEF CallTypes, Goto
<1>4. (\A d \in Callers : pc[d] # "idle" => d \in transaction_queues)'
  BY <1>3 DEF CallInv
<1>5. (\A d \in transaction_queues : call[d].seq \in KernelSeqnums)'
  BY <1>2 DEF CallInv, CallTypes
<1>6. (\A d, e \in transaction_queues :
         UnitOf[d] = UnitOf[e] /\ call[d].seq = call[e].seq => d = e)'
  <2>1. \A d \in transaction_queues' : d \in transaction_queues /\ call'[d].seq = call[d].seq
    BY <1>2 DEF CallTypes
  <2>2. QED
    BY <2>1 DEF CallInv
<1>7. (\A d \in Callers :
         call[d].state = "COMPLETE" =>
           /\ d \in transaction_queues
           /\ call[d].answer = [from |-> Mine(d), seq |-> call[d].seq + 1])'
  BY <1>2 DEF CallInv, Mine
<1>8. QED
  BY <1>1, <1>4, <1>5, <1>6, <1>7 DEF CallInv

LEMMA NoCallIsCall == NoCall \in Calls /\ NoCall.state = "PENDING"
BY DEF NoCall, NoAnswer, Calls, Senders, User

LEMMA BeginStep ==
  ASSUME CallTypes, CallInv, NEW c \in Callers, Begin(c)
  PROVE  CallTypes' /\ CallInv'
<1> DEFINE n == NextSeqnum(seqnum[UnitOf[c]])
           new == [NoCall EXCEPT !.seq = n]
<1>1. UnitOf[c] \in Units
  BY EfwTransactionAssumption
<1>2. n \in KernelSeqnums
  BY <1>1, NextIsKernel DEF CallTypes
<1>3. n \in Nat
  BY <1>2, KernelRange
<1>4. new \in Calls /\ new.seq = n /\ new.state = "PENDING"
  BY <1>3, NoCallIsCall DEF NoCall, Calls
<1>5. /\ call' = [call EXCEPT ![c] = new]
      /\ seqnum' = [seqnum EXCEPT ![UnitOf[c]] = n]
      /\ made' = [made EXCEPT ![c] = @ + 1]
      /\ transaction_queues' = transaction_queues \cup {c}
      /\ pc' = [pc EXCEPT ![c] = "send"]
  BY DEF Begin, Goto
<1>6. \A d \in transaction_queues : UnitOf[d] = UnitOf[c] => call[d].seq # n
  BY DEF Begin, Unused
<1> HIDE DEF n, new
<1>7. CallTypes'
  <2>1. call' \in [Callers -> Calls] /\ pc' \in [Callers -> {"idle", "send", "wait"}]
    BY <1>4, <1>5 DEF CallTypes
  <2>2. made' \in [Callers -> Nat] /\ transaction_queues' \subseteq Callers
    BY <1>5 DEF CallTypes
  <2>3. seqnum' \in [Units -> KernelSeqnums \cup {0}]
    BY <1>1, <1>2, <1>5 DEF CallTypes
  <2>4. QED
    BY <2>1, <2>2, <2>3 DEF CallTypes
<1>8. \A d \in Callers : call'[d] = IF d = c THEN new ELSE call[d]
  BY <1>5 DEF CallTypes
<1>9. (\A d \in Callers : pc[d] # "idle" => d \in transaction_queues)'
  BY <1>5 DEF CallInv, CallTypes
<1>10. (\A d \in transaction_queues : call[d].seq \in KernelSeqnums)'
  BY <1>2, <1>4, <1>5, <1>8 DEF CallInv, CallTypes
<1>11. (\A d, e \in transaction_queues :
          UnitOf[d] = UnitOf[e] /\ call[d].seq = call[e].seq => d = e)'
  BY <1>4, <1>5, <1>6, <1>8 DEF CallInv, CallTypes
<1>12. (\A d \in Callers :
          call[d].state = "COMPLETE" =>
            /\ d \in transaction_queues
            /\ call[d].answer = [from |-> Mine(d), seq |-> call[d].seq + 1])'
  BY <1>4, <1>5, <1>8 DEF CallInv, CallTypes, Mine
<1>13. QED
  BY <1>7, <1>9, <1>10, <1>11, <1>12 DEF CallInv

\* An answer to the driver completes the call that sent the command: it comes from the
\* unit of the call, its number is no number of user space, and no answer to an answer.
LEMMA AnswerIsMine ==
  ASSUME SourceInv, CallTypes, CallInv, WireInv,
         NEW m \in responses, m.seq > UserMax + 1,
         NEW c \in transaction_queues, Source(m, UnitOf[c]), call[c].seq + 1 = m.seq
  PROVE  m.from = Mine(c)
<1>1. c \in Callers /\ UnitOf[c] \in Units
  BY EfwTransactionAssumption DEF CallTypes
<1>2. m.unit = UnitOf[c]
  BY <1>1 DEF SourceInv
<1>3. call[c].seq \in KernelSeqnums /\ call[c].seq \in Nat
  BY KernelRange DEF CallInv
<1>4. m.seq \in Nat /\ m.seq - 1 = call[c].seq
  BY <1>3
<1>5. Kind(m, call[c].seq)
  BY <1>4, EfwTransactionAssumption DEF WireInv
<1>6. call[c].seq \notin 0 .. UserMax
  BY <1>3, KernelRange, EfwTransactionAssumption
<1>7. call[c].seq - 1 \notin KernelSeqnums
  <2>1. SUFFICES ASSUME call[c].seq - 1 \in KernelSeqnums PROVE FALSE
    OBVIOUS
  <2>2. (call[c].seq - 1) + 1 # call[c].seq
    BY <1>3, <2>1, Parity
  <2>3. QED
    BY <1>3, <2>2
<1>8. QED
  BY <1>2, <1>5, <1>6, <1>7 DEF Kind

LEMMA ResponseCalls ==
  ASSUME SourceInv, CallTypes, CallInv, WireInv, NEW m \in responses, Response(m)
  PROVE  /\ CallTypes' /\ CallInv'
         /\ \A c \in Callers : call'[c].seq = call[c].seq
<1>1. UNCHANGED <<pc, made, seqnum, transaction_queues>>
  BY DEF Response
<1>2. CASE m.seq > UserMax + 1
  <2> DEFINE hit(c) == /\ c \in transaction_queues
                       /\ Source(m, UnitOf[c])
                       /\ call[c].state = "PENDING" /\ call[c].seq + 1 = m.seq
             new(c) == [call[c] EXCEPT !.state = "COMPLETE",
                                       !.answer = [from |-> m.from, seq |-> m.seq]]
  <2>1. call' = [c \in Callers |-> IF hit(c) THEN new(c) ELSE call[c]]
    BY <1>2 DEF Response, HandleRespForKernel
  <2>2. m.from \in Senders /\ m.seq \in Nat
    BY DEF WireInv, Kind
  <2>3. \A c \in Callers : call[c] \in Calls
    BY DEF CallTypes
  <2>4. \A c \in Callers : /\ new(c) \in Calls /\ new(c).seq = call[c].seq
                           /\ new(c).answer = [from |-> m.from, seq |-> m.seq]
    BY <2>2, <2>3 DEF Calls
  <2>5. \A c \in Callers :
          hit(c) => /\ new(c).answer = [from |-> Mine(c), seq |-> call[c].seq + 1]
                    /\ c \in transaction_queues
    BY <1>2, <2>4, AnswerIsMine
  <2> HIDE DEF hit, new
  <2>6. CallTypes'
    BY <1>1, <2>1, <2>3, <2>4 DEF CallTypes
  <2>7. \A c \in Callers : call'[c].seq = call[c].seq
    BY <2>1, <2>4
  <2>8. (\A c \in Callers :
           call[c].state = "COMPLETE" =>
             /\ c \in transaction_queues
             /\ call[c].answer = [from |-> Mine(c), seq |-> call[c].seq + 1])'
    BY <1>1, <2>1, <2>5, <2>7 DEF CallInv, Mine
  <2>9. CallInv'
    BY <1>1, <2>7, <2>8 DEF CallInv, CallTypes
  <2>10. QED
    BY <2>6, <2>7, <2>9
<1>3. CASE ~(m.seq > UserMax + 1)
  <2>1. UNCHANGED call
    BY <1>3 DEF Response, HandleRespForUser
  <2>2. QED
    BY <1>1, <2>1 DEF CallTypes, CallInv, Mine
<1>4. QED
  BY <1>2, <1>3

LEMMA UpdateCalls ==
  ASSUME CallTypes, CallInv, NEW u \in Units, Update(u)
  PROVE  /\ CallTypes' /\ CallInv'
         /\ \A c \in Callers : call'[c].seq = call[c].seq
<1>1. UNCHANGED <<pc, made, seqnum, transaction_queues>>
  BY DEF Update
<1>2. \A c \in Callers :
        \/ call'[c] = call[c]
        \/ call'[c] = [call[c] EXCEPT !.state = "BUS_RESET"]
  BY DEF Update
<1>3. \A c \in Callers : call[c] \in Calls
  BY DEF CallTypes
<1>4. call' = [c \in Callers |-> call'[c]]
  BY DEF Update
<1>5. \A c \in Callers : /\ call'[c] \in Calls /\ call'[c].seq = call[c].seq
                         /\ \/ call'[c] = call[c]
                            \/ call'[c].state = "BUS_RESET"
  <2> SUFFICES ASSUME NEW c \in Callers
               PROVE  /\ call'[c] \in Calls /\ call'[c].seq = call[c].seq
                      /\ call'[c] = call[c] \/ call'[c].state = "BUS_RESET"
    OBVIOUS
  <2>1. CASE call'[c] = call[c]
    BY <1>3, <2>1
  <2>2. CASE call'[c] = [call[c] EXCEPT !.state = "BUS_RESET"]
    BY <1>3, <2>2 DEF Calls
  <2>3. QED
    BY <1>2, <2>1, <2>2
<1>6. CallTypes'
  BY <1>1, <1>4, <1>5 DEF CallTypes
<1>7. CallInv'
  BY <1>1, <1>5 DEF CallInv, CallTypes, Mine
<1>8. QED
  BY <1>5, <1>6, <1>7

LEMMA CallStep ==
  ASSUME CallTypes, CallInv, SourceInv, WireInv, [Next]_vars
  PROVE  CallTypes' /\ CallInv'
<1>1. CASE UNCHANGED <<seqnum, pc, call, made, transaction_queues>>
  BY <1>1 DEF CallTypes, CallInv, Mine
<1>2. ASSUME NEW c \in Callers, Begin(c) PROVE CallTypes' /\ CallInv'
  BY <1>2, BeginStep
<1>3. ASSUME NEW c \in Callers, Send(c) PROVE CallTypes' /\ CallInv'
  <2>1. /\ UNCHANGED <<seqnum, call, made, transaction_queues>> /\ Goto(c, "wait")
        /\ pc[c] # "idle"
    BY <1>3 DEF Send
  <2>2. c \in transaction_queues
    BY <2>1 DEF CallInv
  <2>3. QED
    BY <2>1, <2>2 DEF CallTypes, CallInv, Goto, Mine
<1>4. ASSUME NEW c \in Callers, Return(c), UNCHANGED <<seqnum, made>>
      PROVE  CallTypes' /\ CallInv'
  BY <1>4, CallOwn, NoCallIsCall DEF Return
<1>5. ASSUME NEW c \in Callers, Retry(c) PROVE CallTypes' /\ CallInv'
  <2>1. CASE Return(c)
    BY <1>4, <1>5, <2>1 DEF Retry
  <2>2. CASE ~Return(c)
    <3> DEFINE new == [call[c] EXCEPT !.tries = IF call[c].state = "PENDING" THEN @ + 1 ELSE @]
    <3>1. /\ call' = [call EXCEPT ![c] = new] /\ Goto(c, "send")
          /\ UNCHANGED <<seqnum, made, transaction_queues>> /\ pc[c] # "idle"
      BY <1>5, <2>2 DEF Retry
    <3>2. /\ new \in Calls
          /\ new.seq = call[c].seq /\ new.state = call[c].state /\ new.answer = call[c].answer
      BY DEF CallTypes, Calls
    <3>3. c \in transaction_queues
      BY <3>1 DEF CallInv
    <3> HIDE DEF new
    <3>4. QED
      BY <3>1, <3>2, <3>3, CallOwn
  <2>3. QED
    BY <2>1, <2>2
<1>6. ASSUME NEW m \in responses, Response(m) PROVE CallTypes' /\ CallInv'
  BY <1>6, ResponseCalls
<1>7. ASSUME NEW u \in Units, Update(u) PROVE CallTypes' /\ CallInv'
  BY <1>7, UpdateCalls
<1>8. ASSUME NEW u \in Units, Probe(u) PROVE CallTypes' /\ CallInv'
  BY <1>8 DEF Probe, CallTypes, CallInv, Mine
<1>9. QED
  BY <1>1, <1>2, <1>3, <1>4, <1>5, <1>6, <1>7, <1>8 DEF Next, Step, SendFails, Succeed, Answer,
    UserWrites, BusReset, CoreUpdates, ProbeEnds, Remove, CardFree, vars

----------------------------------------------------------------------------
(* Messages and what user space reads *)

\* Taking messages or calls away, or changing anything but the numbers of calls.
LEMMA WireKept ==
  ASSUME WireInv, commands' \subseteq commands, responses' \subseteq responses,
         transaction_queues' \subseteq transaction_queues, UNCHANGED made,
         \A c \in transaction_queues' : call'[c].seq = call[c].seq
  PROVE  WireInv'
BY DEF WireInv, Kind, Mine

\* A call takes a number that no message of its unit has.
LEMMA WireBegins ==
  ASSUME CallTypes, WireInv, NEW c \in Callers, Begin(c)
  PROVE  WireInv'
<1> DEFINE n == NextSeqnum(seqnum[UnitOf[c]])
<1>1. /\ UNCHANGED <<commands, responses>>
      /\ transaction_queues' = transaction_queues \cup {c}
      /\ call' = [call EXCEPT ![c] = [NoCall EXCEPT !.seq = n]]
      /\ made' = [made EXCEPT ![c] = @ + 1]
  BY DEF Begin, wireVars
<1>2. /\ \A m \in commands : m.unit = UnitOf[c] => m.seq # n
      /\ \A m \in responses : m.unit = UnitOf[c] => m.seq # n + 1
  BY DEF Begin, Unused
<1>3. UnitOf[c] \in Units
  BY EfwTransactionAssumption
<1>4. n \in Nat
  BY <1>3, NextIsKernel, KernelRange DEF CallTypes
<1>5. call'[c].seq = n
  BY <1>1 DEF CallTypes, NoCall
<1> HIDE DEF n
<1>6. \A d \in transaction_queues' :
        d # c => d \in transaction_queues /\ call'[d].seq = call[d].seq /\ made'[d] = made[d]
  BY <1>1 DEF CallTypes
<1>7. \A m, k : Kind(m, k) /\ (m.unit = UnitOf[c] => k # n) => Kind(m, k)'
  BY <1>5, <1>6 DEF Kind, Mine
<1>8. \A m \in commands : m.seq \in Nat /\ Kind(m, m.seq)'
  BY <1>2, <1>7 DEF WireInv
<1>9. ASSUME NEW m \in responses
      PROVE  m.seq \in Nat /\ \/ m.seq > 0 /\ Kind(m, m.seq - 1)'
                              \/ m.seq = 0 /\ m.sent = "answer" /\ m.from \in Senders
  <2>1. CASE m.seq > 0 /\ Kind(m, m.seq - 1)
    <3>1. m.unit = UnitOf[c] => m.seq - 1 # n
      BY <1>2, <1>4 DEF WireInv
    <3>2. QED
      BY <1>7, <2>1, <3>1 DEF WireInv
  <2>2. QED
    BY <2>1 DEF WireInv
<1>10. QED
  BY <1>1, <1>8, <1>9 DEF WireInv

\* What a call sends is its command, or the answer it has got.
LEMMA CommandKind ==
  ASSUME CallTypes, CallInv, NEW c \in transaction_queues
  PROVE  LET m == Command(c) IN
         m.seq \in Nat /\ Kind(m, m.seq) /\ m.sent \in {"answer", "command"}
<1> DEFINE m == Command(c)
<1>1. c \in Callers /\ UnitOf[c] \in Units /\ call[c] \in Calls /\ made[c] \in Nat
  BY EfwTransactionAssumption DEF CallTypes
<1>2. call[c].seq \in KernelSeqnums /\ call[c].seq \in Nat
  BY KernelRange DEF CallInv
<1>3. m.unit = UnitOf[c] /\ m.from = Mine(c) /\ Mine(c) \in Senders
  BY <1>1 DEF Command, Mine, Senders
<1>4. CASE call[c].state = "COMPLETE"
  <2>1. m.sent = "answer" /\ m.seq = call[c].seq + 1
    <3>1. call[c].answer = [from |-> Mine(c), seq |-> call[c].seq + 1]
      BY <1>1, <1>4 DEF CallInv
    <3>2. call[c].answer.seq = call[c].seq + 1
      BY <3>1
    <3>3. QED
      BY <1>4, <3>2 DEF Command
  <2> HIDE DEF m
  <2>2. m.seq \in Nat /\ m.seq - 1 = call[c].seq
    BY <1>2, <2>1
  <2>3. Kind(m, m.seq)
    BY <1>1, <1>2, <1>3, <2>1, <2>2 DEF Kind
  <2>4. QED
    BY <2>1, <2>2, <2>3 DEF m
<1>5. CASE call[c].state # "COMPLETE"
  <2>1. m.sent = "command" /\ m.seq = call[c].seq
    BY <1>5 DEF Command
  <2> HIDE DEF m
  <2>2. \A d \in transaction_queues : UnitOf[d] = m.unit /\ call[d].seq = m.seq => d = c
    BY <1>3, <2>1 DEF CallInv
  <2>3. Kind(m, m.seq)
    BY <1>1, <1>2, <1>3, <2>1, <2>2 DEF Kind
  <2>4. QED
    BY <1>2, <2>1, <2>3 DEF m
<1>6. QED
  BY <1>4, <1>5

LEMMA WireStep ==
  ASSUME CallTypes, CallInv, SourceInv, WireInv, SentInv, [Next]_vars
  PROVE  WireInv' /\ SentInv'
<1>1. ASSUME commands' \subseteq commands, responses' \subseteq responses PROVE SentInv'
  BY <1>1 DEF SentInv
<1>2. CASE UNCHANGED <<call, made, transaction_queues, commands, responses>>
  BY <1>1, <1>2, WireKept
<1>3. ASSUME NEW c \in Callers, Begin(c) PROVE WireInv' /\ SentInv'
  BY <1>1, <1>3, WireBegins DEF Begin, wireVars
<1>4. ASSUME NEW m, m.seq \in Nat, Kind(m, m.seq), m.sent \in {"answer", "command"},
             commands' \subseteq commands \cup {m}, UNCHANGED <<responses, made>>,
             transaction_queues' \subseteq transaction_queues,
             \A c \in transaction_queues' : call'[c].seq = call[c].seq
      PROVE  WireInv' /\ SentInv'
  <2>1. \A x, k : Kind(x, k) => Kind(x, k)'
    BY <1>4 DEF Kind, Mine
  <2>2. QED
    BY <1>4, <2>1 DEF WireInv, SentInv
<1>5. ASSUME NEW c \in Callers, Return(c)
      PROVE  /\ transaction_queues' \subseteq transaction_queues
             /\ \A d \in transaction_queues' : call'[d].seq = call[d].seq
  BY <1>5 DEF Return, CallTypes
<1>6. ASSUME NEW c \in Callers, Send(c) \/ SendFails(c) PROVE WireInv' /\ SentInv'
  <2> DEFINE m == Command(c)
  <2>1. c \in transaction_queues
    BY <1>6 DEF Send, SendFails, CallInv
  <2>2. m.seq \in Nat /\ Kind(m, m.seq) /\ m.sent \in {"answer", "command"}
    BY <2>1, CommandKind
  <2>3. commands' \subseteq commands \cup {m} /\ UNCHANGED <<responses, made>>
    BY <1>6 DEF Send, SendFails, Transmit
  <2>4. /\ transaction_queues' \subseteq transaction_queues
        /\ \A d \in transaction_queues' : call'[d].seq = call[d].seq
    BY <1>5, <1>6 DEF Send, SendFails
  <2> HIDE DEF m
  <2>5. QED
    BY <1>4, <2>2, <2>3, <2>4
<1>7. ASSUME NEW c \in Callers, Retry(c) \/ Succeed(c) PROVE WireInv' /\ SentInv'
  <2>1. UNCHANGED <<commands, responses, made>>
    BY <1>7 DEF Retry, Succeed, wireVars
  <2>2. /\ transaction_queues' \subseteq transaction_queues
        /\ \A d \in transaction_queues' : call'[d].seq = call[d].seq
    <3>1. CASE Return(c)
      BY <1>5, <3>1
    <3>2. CASE ~Return(c)
      BY <1>7, <3>2 DEF Retry, Succeed, CallTypes, Calls
    <3>3. QED
      BY <3>1, <3>2
  <2>3. QED
    BY <1>1, <2>1, <2>2, WireKept
<1>8. ASSUME NEW u \in Units, UserWrites(u) PROVE WireInv' /\ SentInv'
  <2>1. PICK n \in 0 .. UserMax :
          Transmit([unit |-> u, from |-> User, sent |-> "command", seq |-> n])
    BY <1>8 DEF UserWrites
  <2> DEFINE m == [unit |-> u, from |-> User, sent |-> "command", seq |-> n]
  <2>2. m.unit = u /\ m.from = User /\ m.sent = "command" /\ m.seq = n
    OBVIOUS
  <2>3. commands' \subseteq commands \cup {m}
    BY <2>1 DEF Transmit
  <2> HIDE DEF m
  <2>4. n \in Nat /\ User \in Senders
    BY EfwTransactionAssumption DEF User, Senders
  <2>5. Kind(m, m.seq)
    BY <2>2, <2>4 DEF Kind
  <2>6. UNCHANGED <<responses, made, transaction_queues, call>>
    BY <1>8 DEF UserWrites
  <2>7. QED
    BY <1>4, <2>2, <2>3, <2>4, <2>5, <2>6
<1>9. ASSUME NEW m \in commands, Answer(m) PROVE WireInv' /\ SentInv'
  <2> DEFINE a == [unit |-> m.unit, node |-> bus.node[m.unit], gen |-> bus.gen,
                   from |-> m.from, sent |-> m.sent,
                   seq |-> IF m.seq = SeqMax THEN 0 ELSE m.seq + 1]
  <2>1. /\ responses' = responses \cup {a} /\ commands' \subseteq commands
        /\ UNCHANGED <<call, made, transaction_queues>>
    BY <1>9 DEF Answer
  <2>2. /\ a.unit = m.unit /\ a.from = m.from /\ a.sent = m.sent
        /\ a.seq = IF m.seq = SeqMax THEN 0 ELSE m.seq + 1
    OBVIOUS
  <2> HIDE DEF a
  <2>3. m.seq \in Nat /\ Kind(m, m.seq) /\ m.sent \in {"answer", "command"}
    BY DEF WireInv, SentInv
  <2>4. \A k : Kind(m, k) => Kind(a, k)
    BY <2>2 DEF Kind
  <2>5. m.seq = SeqMax => m.sent = "answer"
    BY <2>3, KernelRange, EfwTransactionAssumption DEF Kind, KERNEL_SEQNUM_MIN
  <2>6. a.seq \in Nat /\ \/ a.seq > 0 /\ Kind(a, a.seq - 1)
                         \/ a.seq = 0 /\ a.sent = "answer" /\ a.from \in Senders
    <3>1. CASE m.seq = SeqMax
      BY <2>2, <2>3, <2>5, <3>1 DEF Kind
    <3>2. CASE m.seq # SeqMax
      <4>1. a.seq = m.seq + 1
        BY <2>2, <3>2
      <4>2. a.seq \in Nat /\ a.seq > 0 /\ a.seq - 1 = m.seq
        BY <2>3, <4>1
      <4>3. QED
        BY <2>3, <2>4, <4>2
    <3>3. QED
      BY <3>1, <3>2
  <2>7. \A x, k : Kind(x, k) => Kind(x, k)'
    BY <2>1 DEF Kind, Mine
  <2>8. WireInv'
    BY <2>1, <2>6, <2>7 DEF WireInv
  <2>9. SentInv'
    BY <2>1, <2>2, <2>3 DEF SentInv
  <2>10. QED
    BY <2>8, <2>9
<1>10. ASSUME NEW m \in responses, Response(m) PROVE WireInv' /\ SentInv'
  <2>1. /\ UNCHANGED <<commands, made, transaction_queues>> /\ responses' \subseteq responses
        /\ \A c \in transaction_queues' : call'[c].seq = call[c].seq
    BY <1>10, ResponseCalls DEF Response, CallTypes
  <2>2. QED
    BY <1>1, <2>1, WireKept
<1>11. ASSUME NEW u \in Units, Update(u) PROVE WireInv' /\ SentInv'
  <2>1. /\ UNCHANGED <<commands, responses, made, transaction_queues>>
        /\ \A c \in transaction_queues' : call'[c].seq = call[c].seq
    BY <1>11, UpdateCalls DEF Update, CallTypes, wireVars
  <2>2. QED
    BY <1>1, <2>1, WireKept
<1>12. QED
  BY <1>2, <1>3, <1>6, <1>7, <1>8, <1>9, <1>10, <1>11 DEF Next, Step, BusReset, CoreUpdates,
    Probe, ProbeEnds, Remove, CardFree, vars, wireVars

\* User space only gets what has a number of user space, from the unit it reads of.
LEMMA RingStep ==
  ASSUME SourceInv, WireInv, SentInv, RingInv, [Next]_vars
  PROVE  RingInv'
<1>1. CASE UNCHANGED ring
  BY <1>1 DEF RingInv
<1>2. ASSUME NEW u \in Units, ring' = [ring EXCEPT ![u] = {}] PROVE RingInv'
  BY <1>2 DEF RingInv
<1>3. ASSUME NEW m \in responses, Response(m) PROVE RingInv'
  <2>1. CASE m.seq > UserMax + 1
    BY <1>1, <1>3, <2>1 DEF Response, HandleRespForKernel
  <2>2. CASE ~(m.seq > UserMax + 1)
    <3> DEFINE r == [from |-> m.from, unit |-> m.unit, sent |-> m.sent]
    <3>1. /\ DOMAIN ring' = Units
          /\ \A u \in Units : ring'[u] = ring[u] \/ (Source(m, u) /\ ring'[u] = ring[u] \cup {r})
          /\ ring' = [u \in Units |-> ring'[u]]
      BY <1>3, <2>2 DEF Response, HandleRespForUser
    <3>2. \A u \in Units : Source(m, u) => m.unit = u
      BY DEF SourceInv
    <3>3. m.from \in Senders /\ m.unit \in Units /\ m.sent \in {"answer", "command"}
      BY DEF SourceInv, WireInv, SentInv, Kind
    <3>4. m.from = User \/ m.sent = "answer"
      <4>1. CASE m.seq > 0 /\ Kind(m, m.seq - 1)
        <5>1. m.seq - 1 \notin KernelSeqnums
          BY <2>2, KernelRange, EfwTransactionAssumption DEF WireInv
        <5>2. QED
          BY <4>1, <5>1 DEF Kind
      <4>2. QED
        BY <4>1 DEF WireInv
    <3>5. /\ r \in [from : Senders, unit : Units, sent : {"answer", "command"}]
          /\ r.unit = m.unit /\ (r.from = User \/ r.sent = "answer")
      BY <3>3, <3>4
    <3> HIDE DEF r
    <3>6. QED
      BY <3>1, <3>2, <3>5 DEF RingInv
  <2>3. QED
    BY <2>1, <2>2
<1>4. QED
  BY <1>1, <1>2, <1>3 DEF Next, Step, Begin, Send, SendFails, Retry, Succeed, Answer, UserWrites,
    BusReset, CoreUpdates, Update, Probe, ProbeEnds, Remove, CardFree, vars, wireVars

----------------------------------------------------------------------------
\* The bus, the calls and the messages fit each other in every reachable state: an answer
\* is only taken for one of the unit it is from, pending calls of a unit have different
\* even numbers, and a number on the way belongs to one sender.
THEOREM Invariance == Spec => []IInv
<1>1. Init => IInv
  BY InitInv
<1>2. IInv /\ [Next]_vars => IInv'
  BY BusStep, SourceStep, CallStep, WireStep, RingStep DEF IInv
<1>3. QED
  BY <1>1, <1>2, PTL DEF Spec

\* Answers get to whoever asked for them and to nobody else (efw_response() and
\* handle_resp_for_kernel(), handle_resp_for_user()), for any number of units, callers,
\* calls, bus resets and messages.
THEOREM AnswersReach == Spec => []AnswersReachSenders
<1>1. IInv => AnswersReachSenders
  <2> SUFFICES ASSUME IInv PROVE AnswersReachSenders
    OBVIOUS
  <2>1. ASSUME NEW c \in Callers, call[c].state = "COMPLETE"
        PROVE  call[c].answer.from = Mine(c)
    <3>1. call[c].answer = [from |-> Mine(c), seq |-> call[c].seq + 1]
      BY <2>1 DEF IInv, CallInv
    <3>2. QED
      BY <3>1
  <2>2. \A u \in Units : \A r \in ring[u] : r.unit = u /\ (r.from = User \/ r.sent = "answer")
    BY DEF IInv, RingInv
  <2>3. QED
    BY <2>1, <2>2 DEF AnswersReachSenders, Mine
<1>2. QED
  BY <1>1, Invariance, PTL
=============================================================================
