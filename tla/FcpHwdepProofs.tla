--------------------------- MODULE FcpHwdepProofs ---------------------------
(***************************************************************************)
(* Proofs about the two ways in which an answer of a device reaches who    *)
(* asked for it: Fcp, for any number of callers, units, opcodes, retries   *)
(* and bus resets; and EfwHwdep (the stream lock, the wake-ups of read()   *)
(* and the ring of responses), for any finite set of substreams, any       *)
(* readers, and a ring of any size.                                        *)
(***************************************************************************)
EXTENDS Fcp, EfwHwdep, FiniteSetTheorems, WellFoundedInduction, TLAPS

----------------------------------------------------------------------------
(* FCP transactions *)

\* What a completed transaction holds in its response buffer.
GoodAnswer(c) ==
  /\ answer[c] \in Frame
  /\ answer[c].unit = UnitOf[c]
  /\ answer[c].op = op[c]
  /\ answer[c].gen >= since[c]
  /\ op[c] \in ControlOps => answer[c].code = "FINAL"

\* The facts about one caller that together are inductive.
CallerInv(c) ==
  /\ Active(c) /\ op[c] \in ControlOps => deferrable[c]
  /\ Active(c) /\ state[c] = "COMPLETE" => GoodAnswer(c)
  /\ ret[c] = "size" => GoodAnswer(c) /\ pc[c] \in {"idle", "unlink"}
  /\ ret[c] = "size" /\ pc[c] = "unlink" => state[c] = "COMPLETE"
  /\ pc[c] = "redefer" => state[c] \in {"DEFERRED", "BUS_RESET"}
  /\ pc[c] # "unlink" => tries[c] < ERROR_RETRIES
  /\ since[c] <= devGen[UnitOf[c]]

IInv ==
  /\ TypeOK
  /\ LinkedIsAlive
  /\ \A u \in Units : devGen[u] <= generation
  /\ \A c \in Callers : CallerInv(c)

----------------------------------------------------------------------------

\* In the initial state nobody is in a call.
LEMMA InitInv == Init => IInv
<1> SUFFICES ASSUME Init PROVE IInv
  OBVIOUS
<1> USE FcpAssumption
<1>1. TypeOK
  <2>1. (CHOOSE o \in Ops : TRUE) \in Ops
    OBVIOUS
  <2>2. QED
    BY <2>1 DEF Init, TypeOK, PCs, States, Results, Gens, Frame, Command, NoFrame
<1>2. LinkedIsAlive
  BY DEF Init, LinkedIsAlive, Active
<1>3. \A u \in Units : devGen[u] <= generation
  BY DEF Init
<1>4. \A c \in Callers : CallerInv(c)
  BY DEF Init, CallerInv, Active
<1>5. QED
  BY <1>1, <1>2, <1>3, <1>4 DEF IInv

\* A step of one caller, or the start of a call, preserves IInv.
LEMMA StepInv ==
  ASSUME IInv, NEW c \in Callers, Step(c) \/ \E o \in OpsOf[c] : Begin(c, o)
  PROVE  IInv'
<1> USE FcpAssumption DEF IInv, TypeOK, LinkedIsAlive, Active, CallerInv,
        GoodAnswer, callerVars, busVars, wireVars, Goto, PCs, States, Results
<1>1. CASE \E o \in OpsOf[c] : Begin(c, o)
  <2>1. PICK o \in OpsOf[c] : Begin(c, o)
    BY <1>1
  <2>2. o \in Ops
    OBVIOUS
  <2>3. since' \in [Callers -> Gens]
    BY <2>1 DEF Begin
  <2>4. TypeOK' /\ LinkedIsAlive'
    BY <2>1, <2>2, <2>3 DEF Begin
  <2>5. \A d \in Callers : CallerInv(d)'
    BY <2>1, <2>2 DEF Begin, Gens
  <2>6. QED
    BY <2>1, <2>4, <2>5 DEF Begin
<1>2. CASE SendOk(c)
  <2>1. [unit |-> UnitOf[c], op |-> op[c], gen |-> generation] \in Command
    BY DEF Command
  <2>2. QED
    BY <1>2, <2>1 DEF SendOk
<1>3. CASE SendFail(c)
  <2>1. [unit |-> UnitOf[c], op |-> op[c], gen |-> generation] \in Command
    BY DEF Command
  <2>2. QED
    BY <1>3, <2>1 DEF SendFail
<1>4. CASE Wake(c)
  BY <1>4 DEF Wake
<1>5. CASE Timeout(c)
  BY <1>5 DEF Timeout
<1>6. CASE CheckDeferred(c)
  BY <1>6 DEF CheckDeferred
<1>7. CASE Redefer(c)
  BY <1>7 DEF Redefer
<1>8. CASE CheckComplete(c)
  BY <1>8 DEF CheckComplete
<1>9. CASE RetryAfterReset(c)
  BY <1>9 DEF RetryAfterReset
<1>10. CASE CountTry(c)
  BY <1>10 DEF CountTry
<1>11. CASE Return(c)
  BY <1>11 DEF Return
<1>12. QED
  BY <1>1, <1>2, <1>3, <1>4, <1>5, <1>6, <1>7, <1>8, <1>9, <1>10, <1>11
     DEF Step

\* The response callback preserves IInv: only a PENDING transaction of the
\* frame's own unit, opcode and generation changes.
LEMMA DeliverInv ==
  ASSUME IInv, NEW f \in responses, Deliver(f)
  PROVE  IInv'
<1> USE FcpAssumption DEF IInv, TypeOK, LinkedIsAlive, Active, callerVars, busVars
<1>1. f \in Frame
  OBVIOUS
<1>2. TypeOK' /\ LinkedIsAlive'
  BY <1>1 DEF Deliver, States
<1>3. ASSUME NEW d \in Callers PROVE CallerInv(d)'
  <2>1. CASE d \in Matching(f) /\ ~Interim(d, f)
    <3>1. state[d] = "PENDING" /\ d \in transactions
      BY <2>1 DEF Matching
    <3>2. answer'[d] = f /\ state'[d] = "COMPLETE"
      BY <2>1 DEF Deliver
    <3>3. f.unit = UnitOf[d] /\ f.op = op[d] /\ f.gen >= since[d]
      BY <2>1 DEF Matching, CallerInv, Gens
    <3>4. op[d] \in ControlOps => f.code = "FINAL"
      BY <1>1, <2>1, <3>1 DEF CallerInv, Interim, Frame, Codes
    <3>5. QED
      BY <1>1, <3>1, <3>2, <3>3, <3>4 DEF Deliver, CallerInv, GoodAnswer
  <2>2. CASE d \in Matching(f) /\ Interim(d, f)
    BY <2>2 DEF Deliver, Matching, CallerInv, GoodAnswer
  <2>3. CASE d \notin Matching(f)
    BY <2>3 DEF Deliver, CallerInv, GoodAnswer
  <2>4. QED
    BY <2>1, <2>2, <2>3
<1>4. QED
  BY <1>2, <1>3 DEF Deliver

\* The device's answers and the bus reset, with the two things it brings
\* about, preserve IInv.
LEMMA EnvironmentInv ==
  ASSUME IInv,
         \/ \E m \in commands : AnswerInterim(m) \/ AnswerFinal(m)
         \/ BusReset
         \/ \E u \in Units : UpdateDevice(u) \/ FcpBusReset(u)
  PROVE  IInv'
<1> USE FcpAssumption DEF IInv, TypeOK, LinkedIsAlive, Active, CallerInv,
        GoodAnswer, callerVars, busVars, wireVars, States
<1>1. CASE \E m \in commands : AnswerInterim(m)
  <2>1. PICK m \in commands : AnswerInterim(m)
    BY <1>1
  <2>2. [unit |-> m.unit, op |-> m.op, code |-> "INTERIM", gen |-> m.gen] \in Frame
    BY DEF Command, Frame, Codes
  <2>3. QED
    BY <2>1, <2>2 DEF AnswerInterim
<1>2. CASE \E m \in commands : AnswerFinal(m)
  <2>1. PICK m \in commands : AnswerFinal(m)
    BY <1>2
  <2>2. [unit |-> m.unit, op |-> m.op, code |-> "FINAL", gen |-> m.gen] \in Frame
    BY DEF Command, Frame, Codes
  <2>3. QED
    BY <2>1, <2>2 DEF AnswerFinal
<1>3. CASE BusReset
  BY <1>3 DEF BusReset, Gens
<1>4. CASE \E u \in Units : UpdateDevice(u)
  BY <1>4 DEF UpdateDevice, Gens
<1>5. CASE \E u \in Units : FcpBusReset(u)
  BY <1>5 DEF FcpBusReset
<1>6. QED
  BY <1>1, <1>2, <1>3, <1>4, <1>5

\* IInv is inductive.
LEMMA NextInv == IInv /\ [Next]_vars => IInv'
<1> SUFFICES ASSUME IInv, [Next]_vars PROVE IInv'
  OBVIOUS
<1>1. CASE Next
  BY <1>1, StepInv, DeliverInv, EnvironmentInv DEF Next
<1>2. CASE UNCHANGED vars
  BY <1>2 DEF vars, callerVars, busVars, wireVars, IInv, TypeOK, LinkedIsAlive,
     Active, CallerInv, GoodAnswer
<1>3. QED
  BY <1>1, <1>2

\* The inductive invariant holds of every behaviour.
THEOREM Invariance == Spec => []IInv
<1>1. QED
  BY InitInv, NextInv, PTL DEF Spec

----------------------------------------------------------------------------

\* Every variable keeps its type; in particular `tries' never exceeds
\* ERROR_RETRIES, however timeouts and bus resets interleave.
THEOREM TypeCorrect == Spec => []TypeOK
<1>1. IInv => TypeOK
  BY DEF IInv
<1>2. QED
  BY <1>1, Invariance, PTL

\* The callbacks only write to transactions of calls under way.
THEOREM NoDanglingTransaction == Spec => []LinkedIsAlive
<1>1. IInv => LinkedIsAlive
  BY DEF IInv
<1>2. QED
  BY <1>1, Invariance, PTL

\* A successful call returns its own device's answer to its own question,
\* of a generation it was under way in.
THEOREM AnswersAreMine == Spec => []AnswerIsMine
<1>1. IInv => AnswerIsMine
  BY DEF IInv, CallerInv, GoodAnswer, AnswerIsMine
<1>2. QED
  BY <1>1, Invariance, PTL

\* A CONTROL or NOTIFY call never returns an INTERIM answer.
THEOREM NoInterimResults == Spec => []NoInterimResult
<1>1. IInv => NoInterimResult
  BY DEF IInv, CallerInv, GoodAnswer, NoInterimResult
<1>2. QED
  BY <1>1, Invariance, PTL

\* A completed transaction stays completed until its caller leaves, in spite
\* of the unlocked write of line 265.
THEOREM CompletionsAreKept == Spec => CompletionKept
<1> DEFINE Kept ==
      \A c \in Callers :
        state[c] = "COMPLETE" /\ Active(c) /\ pc'[c] # "idle" =>
          state'[c] = "COMPLETE" /\ answer'[c] = answer[c]
<1>1. ASSUME IInv, [Next]_vars PROVE Kept
  <2> SUFFICES ASSUME NEW c \in Callers, state[c] = "COMPLETE", Active(c),
                      pc'[c] # "idle"
               PROVE  state'[c] = "COMPLETE" /\ answer'[c] = answer[c]
    BY DEF Kept
  <2> USE <1>1 DEF IInv, TypeOK, callerVars, busVars, wireVars, Goto, Active
  <2>1. CASE \E d \in Callers : Step(d) \/ \E o \in OpsOf[d] : Begin(d, o)
    <3>1. PICK d \in Callers : Step(d) \/ \E o \in OpsOf[d] : Begin(d, o)
      BY <2>1
    <3>2. CASE \E o \in OpsOf[d] : Begin(d, o)
      BY <3>2 DEF Begin
    <3>3. CASE Redefer(d)
      <4>1. d # c
        BY <3>3 DEF Redefer, CallerInv
      <4>2. QED
        BY <3>3, <4>1 DEF Redefer
    <3>4. CASE Return(d)
      BY <3>4 DEF Return
    <3>5. CASE SendOk(d) \/ SendFail(d) \/ Wake(d) \/ Timeout(d)
               \/ CheckDeferred(d) \/ CheckComplete(d)
               \/ RetryAfterReset(d) \/ CountTry(d)
      BY <3>5 DEF SendOk, SendFail, Wake, Timeout, CheckDeferred,
         CheckComplete, RetryAfterReset, CountTry
    <3>6. QED
      BY <3>1, <3>2, <3>3, <3>4, <3>5 DEF Step
  <2>2. CASE \E f \in responses : Deliver(f)
    BY <2>2 DEF Deliver, Matching
  <2>3. CASE \E m \in commands : AnswerInterim(m) \/ AnswerFinal(m)
    BY <2>3 DEF AnswerInterim, AnswerFinal
  <2>4. CASE BusReset
    BY <2>4 DEF BusReset
  <2>5. CASE \E u \in Units : UpdateDevice(u) \/ FcpBusReset(u)
    BY <2>5 DEF UpdateDevice, FcpBusReset
  <2>6. CASE UNCHANGED vars
    BY <2>6 DEF vars
  <2>7. QED
    BY <2>1, <2>2, <2>3, <2>4, <2>5, <2>6 DEF Next
<1>2. IInv /\ [Next]_vars => [Kept]_vars
  BY <1>1
<1>3. QED
  BY <1>2, Invariance, PTL DEF Spec, CompletionKept

----------------------------------------------------------------------------
(* The hwdep device *)

\* The count is that of the open substreams, or -1 with none open.
Counted ==
  \/ devLockCount = Cardinality(opened)
  \/ devLockCount = -1 /\ opened = {}

LockInv == LockTypeOK /\ Counted /\ StatusReported

WakeInv ==
  /\ reader \in [Readers -> {"out", "asleep", "woken"}]
  /\ NoMissedWakeup

----------------------------------------------------------------------------

\* One more, or one less, element of a set of substreams.
LEMMA CountSubstreams ==
  ASSUME NEW S \in SUBSET Substreams, NEW s \in Substreams
  PROVE  /\ Cardinality(S) \in Nat
         /\ s \notin S => Cardinality(S \cup {s}) = Cardinality(S) + 1
         /\ s \in S => Cardinality(S \ {s}) = Cardinality(S) - 1 /\ Cardinality(S) > 0
<1>1. IsFiniteSet(S)
  BY StreamLockAssumption, FS_Subset
<1>2. Cardinality(S) \in Nat
  BY <1>1, FS_CardinalityType
<1>3. s \notin S => Cardinality(S \cup {s}) = Cardinality(S) + 1
  BY <1>1, FS_AddElement
<1>4. s \in S => Cardinality(S \ {s}) = Cardinality(S) - 1
  BY <1>1, FS_RemoveElement
<1>5. s \in S => Cardinality(S) # 0
  BY <1>1, FS_EmptySet
<1>6. QED
  BY <1>2, <1>3, <1>4, <1>5

LEMMA HwdepInitInv == HwdepInit => LockInv /\ WakeInv
<1> SUFFICES ASSUME HwdepInit PROVE LockInv /\ WakeInv
  OBVIOUS
<1>1. Cardinality({}) = 0
  BY FS_EmptySet
<1>2. LockInv
  <2>1. devLockCount = 0 /\ opened = {} /\ ~reported
    BY DEF HwdepInit, LockInit
  <2>2. LockTypeOK
    <3>1. devLockChanged \in BOOLEAN /\ reported \in BOOLEAN /\ faulted \in BOOLEAN
      BY Zenon DEF HwdepInit, LockInit
    <3>2. QED
      BY <2>1, <3>1 DEF LockTypeOK
  <2>3. StatusReported
    BY <2>1 DEF StatusReported
  <2>4. QED
    BY <1>1, <2>1, <2>2, <2>3 DEF LockInv, Counted
<1>3. WakeInv
  BY DEF HwdepInit, WakeInv, NoMissedWakeup
<1>4. QED
  BY <1>2, <1>3

\* Opening, closing, locking, unlocking and reading preserve LockInv.
LEMMA LockOperations ==
  ASSUME LockInv,
         \/ \E s \in Substreams : StreamLockTry(s) \/ StreamLockRelease(s)
         \/ HwdepLock \/ HwdepUnlock \/ ReadLocked
  PROVE  LockInv'
<1> USE DEF LockInv, LockTypeOK, Counted, StatusReported
<1>1. ASSUME NEW s \in Substreams, StreamLockTry(s) PROVE LockInv'
  <2>1. Cardinality(opened) \in Nat
    BY CountSubstreams
  <2>2. devLockCount = Cardinality(opened) /\ s \notin opened
    BY <1>1 DEF StreamLockTry
  <2>3. devLockCount' = Cardinality(opened')
    BY <1>1, <2>2, CountSubstreams DEF StreamLockTry
  <2>4. StatusReported'
    <3>1. CASE devLockCount = 0
      <4>1. devLockChanged'
        BY <1>1, <3>1, Zenon DEF StreamLockTry
      <4>2. QED
        BY <4>1
    <3>2. CASE devLockCount > 0
      <4>1. ~devLockChanged' => ~devLockChanged
        BY <1>1, Zenon DEF StreamLockTry
      <4>2. devLockCount' > 0 /\ reported' = reported /\ faulted' = faulted
        BY <1>1, <3>2 DEF StreamLockTry
      <4>3. QED
        BY <3>2, <4>1, <4>2
    <3>3. QED
      BY <2>1, <2>2, <3>1, <3>2
  <2>5. devLockChanged' \in BOOLEAN
    BY <1>1, Zenon DEF StreamLockTry
  <2>6. devLockCount' \in Int /\ opened' \subseteq Substreams
    BY <1>1, <2>1, <2>2 DEF StreamLockTry
  <2>7. QED
    BY <1>1, <2>3, <2>4, <2>5, <2>6 DEF StreamLockTry
<1>2. ASSUME NEW s \in Substreams, StreamLockRelease(s) PROVE LockInv'
  <2>1. Cardinality(opened) \in Nat /\ Cardinality(opened) > 0
    BY <1>2, CountSubstreams DEF StreamLockRelease
  <2>2. devLockCount = Cardinality(opened) /\ s \in opened
    BY <1>2 DEF StreamLockRelease
  <2>3. devLockCount' = Cardinality(opened')
    BY <1>2, <2>1, <2>2, CountSubstreams DEF StreamLockRelease
  <2>4. QED
    BY <1>2, <2>1, <2>2, <2>3 DEF StreamLockRelease
<1>3. CASE HwdepLock
  <2>1. Cardinality(opened) = 0
    BY <1>3 DEF HwdepLock
  <2>2. opened = {}
    BY <2>1, StreamLockAssumption, FS_Subset, FS_EmptySet
  <2>3. QED
    BY <1>3, <2>2 DEF HwdepLock
<1>4. CASE HwdepUnlock
  <2>1. opened \in SUBSET Substreams /\ Cardinality({}) = 0
    BY FS_EmptySet
  <2>2. opened = {}
    <3>1. IsFiniteSet(opened)
      BY <2>1, StreamLockAssumption, FS_Subset
    <3>2. Cardinality(opened) \in Nat
      BY <3>1, FS_CardinalityType
    <3>3. QED
      BY <1>4, <3>2 DEF HwdepUnlock
  <2>3. QED
    BY <1>4, <2>1, <2>2 DEF HwdepUnlock
<1>5. CASE ReadLocked
  <2>1. devLockCount' = devLockCount /\ opened' = opened
    BY <1>5 DEF ReadLocked
  <2>2. devLockChanged' \in BOOLEAN /\ reported' \in BOOLEAN /\ faulted' \in BOOLEAN
    <3>1. (devLockCount > 0) \in BOOLEAN
      OBVIOUS
    <3>2. QED
      BY <1>5, <3>1, Zenon DEF ReadLocked
  <2>3. ~faulted' => (reported' <=> devLockCount' > 0)
    BY <1>5 DEF ReadLocked
  <2>4. QED
    BY <2>1, <2>2, <2>3
<1>6. QED
  BY <1>1, <1>2, <1>3, <1>4, <1>5

\* Every step preserves LockInv.
LEMMA LockNextInv == LockInv /\ [HwdepNext]_hwdepVars => LockInv'
<1> SUFFICES ASSUME LockInv, [HwdepNext]_hwdepVars PROVE LockInv'
  OBVIOUS
<1>1. UNCHANGED lockVars => LockInv'
  BY DEF lockVars, LockInv, LockTypeOK, Counted, StatusReported
<1>2. CASE \E claim, got \in ResponseLens : PushResponse(claim, got)
  BY <1>1, <1>2 DEF PushResponse
<1>3. CASE \E r \in Readers : ReadEvent(r) \/ ReadSleeps(r) \/ ReadInterrupted(r)
  BY <1>1, <1>3, LockOperations DEF ReadEvent, ReadSleeps, ReadInterrupted
<1>4. CASE LockStep
  BY <1>4, LockOperations DEF LockStep
<1>5. CASE UNCHANGED hwdepVars
  BY <1>1, <1>5 DEF hwdepVars
<1>6. QED
  BY <1>2, <1>3, <1>4, <1>5 DEF HwdepNext

\* Every step preserves WakeInv: whatever makes the device readable wakes all
\* sleepers, and a reader falls asleep only while it is not readable.
LEMMA WakeNextInv == WakeInv /\ LockInv /\ [HwdepNext]_hwdepVars => WakeInv'
<1> SUFFICES ASSUME WakeInv, LockInv, [HwdepNext]_hwdepVars PROVE WakeInv'
  OBVIOUS
<1> USE DEF WakeInv, NoMissedWakeup
<1>1. CASE \E claim, got \in ResponseLens : PushResponse(claim, got)
  BY <1>1 DEF PushResponse, WakeAll
<1>2. ASSUME NEW r \in Readers, ReadEvent(r) PROVE WakeInv'
  BY <1>2 DEF ReadEvent
<1>3. ASSUME NEW r \in Readers, ReadSleeps(r) PROVE WakeInv'
  BY <1>3 DEF ReadSleeps, Readable, lockVars, ringVars
<1>4. ASSUME NEW r \in Readers, ReadInterrupted(r) PROVE WakeInv'
  BY <1>4 DEF ReadInterrupted, Readable, lockVars, ringVars
<1>5. CASE LockStep
  <2>1. CASE devLockChanged' /\ ~devLockChanged
    BY <1>5, <2>1 DEF LockStep, WakeAll
  <2>2. CASE ~(devLockChanged' /\ ~devLockChanged)
    <3>1. reader' = reader /\ respQueues' = respQueues
      BY <1>5, <2>2 DEF LockStep, ringVars
    <3>2. Readable' => Readable
      BY <2>2, <3>1 DEF Readable, LockInv, LockTypeOK
    <3>3. QED
      BY <3>1, <3>2
  <2>3. QED
    BY <2>1, <2>2
<1>6. CASE UNCHANGED hwdepVars
  BY <1>6 DEF hwdepVars, lockVars, ringVars, Readable
<1>7. QED
  BY <1>1, <1>2, <1>3, <1>4, <1>5, <1>6 DEF HwdepNext

----------------------------------------------------------------------------

\* Kernel and user space never stream at the same time, and the count is
\* right however substreams are opened and closed and the device locked.
THEOREM LocksExclude == HwdepSpec => []LockExclusive
<1>1. LockInv => LockExclusive
  <2> SUFFICES ASSUME LockInv PROVE LockExclusive
    OBVIOUS
  <2>1. IsFiniteSet(opened)
    BY StreamLockAssumption, FS_Subset DEF LockInv, LockTypeOK
  <2>2. Cardinality(opened) \in Nat
    BY <2>1, FS_CardinalityType
  <2>3. QED
    BY <2>2 DEF LockInv, Counted, LockExclusive
<1>2. QED
  BY <1>1, HwdepInitInv, LockNextInv, PTL DEF HwdepSpec

\* A program that has read every event knows the lock status.
THEOREM StatusIsReported == HwdepSpec => []StatusReported
<1>1. LockInv => StatusReported
  BY DEF LockInv
<1>2. QED
  BY <1>1, HwdepInitInv, LockNextInv, PTL DEF HwdepSpec

\* No reader sleeps while there is something to read.
THEOREM NoWakeupIsMissed == HwdepSpec => []NoMissedWakeup
<1>1. WakeInv => NoMissedWakeup
  BY DEF WakeInv
<1>2. QED
  BY <1>1, HwdepInitInv, LockNextInv, WakeNextInv, PTL DEF HwdepSpec

----------------------------------------------------------------------------
(* Induction and recursion over the naturals.  The theorems of the library  *)
(* have a predicate for a parameter; these have a set, or a function.       *)

LEMMA Least ==
  ASSUME NEW T \in SUBSET Nat, T # {}
  PROVE  \E x \in T : \A y \in T : x <= y
<1> DEFINE Less == {ss \in Nat \X Nat : ss[1] < ss[2]}
<1>1. IsWellFoundedOn(Less, Nat)
  BY NatLessThanWellFounded DEF OpToRel
<1>2. PICK x \in T : \A y \in T : <<y, x>> \notin Less
  BY <1>1, WFMin
<1>3. ASSUME NEW y \in T PROVE x <= y
  <2>1. x \in Nat /\ y \in Nat
    OBVIOUS
  <2>2. ~(y < x)
    BY <1>2, <2>1
  <2>3. QED
    BY <2>1, <2>2
<1>4. QED
  BY <1>3

LEMMA Induction ==
  ASSUME NEW T, 0 \in T, \A n \in Nat : n \in T => n + 1 \in T
  PROVE  \A n \in Nat : n \in T
<1> SUFFICES ASSUME NEW k \in Nat \ T PROVE FALSE
  OBVIOUS
<1>1. PICK x \in Nat \ T : \A y \in Nat \ T : x <= y
  <2>1. Nat \ T \in SUBSET Nat /\ Nat \ T # {}
    OBVIOUS
  <2>2. QED
    BY <2>1, Least
<1>2. x # 0
  OBVIOUS
<1>3. x - 1 \in Nat /\ x - 1 \in T
  BY <1>1, <1>2
<1>4. QED
  BY <1>1, <1>3

\* f is defined up to n by primitive recursion, from c with D.
PrimRec(f, S, c, D, n) ==
  /\ f \in [0 .. n -> S]
  /\ \A i \in 0 .. n : f[i] = IF i = 0 THEN c ELSE D[<<f[i - 1], i>>]

\* What is defined by primitive recursion exists.
LEMMA Recursion ==
  \A S : \A c \in S : \A D \in [S \X Nat -> S] : \A n \in Nat :
    \E f : PrimRec(f, S, c, D, n)
<1> SUFFICES ASSUME NEW S, NEW c \in S, NEW D \in [S \X Nat -> S], NEW n \in Nat
             PROVE  \E f : PrimRec(f, S, c, D, n)
  OBVIOUS
<1> DEFINE Is(f, m) == \A i \in 0 .. m : f[i] = IF i = 0 THEN c ELSE D[<<f[i - 1], i>>]
           T == {m \in Nat : \E f \in [0 .. m -> S] : Is(f, m)}
<1>1. 0 \in T
  <2>1. [i \in 0 .. 0 |-> c] \in [0 .. 0 -> S] /\ Is([i \in 0 .. 0 |-> c], 0)
    OBVIOUS
  <2>2. QED
    BY <2>1
<1>2. ASSUME NEW m \in Nat, m \in T PROVE m + 1 \in T
  <2>1. PICK f \in [0 .. m -> S] : Is(f, m)
    BY <1>2
  <2> DEFINE g == [i \in 0 .. m + 1 |-> IF i = m + 1 THEN D[<<f[m], m + 1>>] ELSE f[i]]
  <2>2. f[m] \in S /\ D[<<f[m], m + 1>>] \in S
    OBVIOUS
  <2>3. g \in [0 .. m + 1 -> S]
    BY <2>2
  <2>4. ASSUME NEW i \in 0 .. m + 1
        PROVE  g[i] = IF i = 0 THEN c ELSE D[<<g[i - 1], i>>]
    <3>1. CASE i = m + 1
      <4>1. i # 0 /\ i - 1 = m /\ m \in 0 .. m + 1 /\ m # m + 1
        BY <3>1
      <4>2. g[i - 1] = f[m]
        BY <4>1
      <4>3. QED
        BY <3>1, <4>1, <4>2
    <3>2. CASE i # m + 1
      <4>1. i \in 0 .. m /\ g[i] = f[i]
        BY <3>2
      <4>2. i # 0 => i - 1 \in 0 .. m + 1 /\ i - 1 # m + 1 /\ g[i - 1] = f[i - 1]
        BY <4>1
      <4>3. QED
        BY <2>1, <4>1, <4>2
    <3>3. QED
      BY <3>1, <3>2
  <2>5. Is(g, m + 1)
    BY <2>4
  <2> HIDE DEF g, Is
  <2>6. QED
    BY <2>3, <2>5
<1>3. n \in T
  <2> HIDE DEF T
  <2>1. QED
    BY <1>1, <1>2, Induction
<1>4. QED
  BY <1>3 DEF PrimRec

----------------------------------------------------------------------------
(* Pointers into the ring *)

LEMMA Remainder ==
  ASSUME NEW m \in Int, m > 0, NEW q \in Int, NEW r \in Int, 0 <= r, r < m
  PROVE  (m * q + r) % m = r
<1>1. PICK x \in Int, y \in Int :
        m * q + r = m * x + y /\ 0 <= y /\ y < m /\ y = (m * q + r) % m
  <2> DEFINE a == m * q + r
  <2>1. /\ a = m * (a \div m) + (a % m) /\ 0 <= a % m /\ a % m < m
        /\ a \div m \in Int /\ a % m \in Int
    OBVIOUS
  <2>2. QED
    BY <2>1
<1>2. PICK d \in Int : d = q - x
  OBVIOUS
<1>3. m * d = y - r
  BY <1>1, <1>2
<1>4. ~(d >= 1)
  <2> SUFFICES ASSUME d >= 1 PROVE FALSE
    OBVIOUS
  <2>1. m * d >= m
    OBVIOUS
  <2>2. QED
    BY <2>1, <1>3, <1>1
<1>5. ~(d <= -1)
  <2> SUFFICES ASSUME d <= -1 PROVE FALSE
    OBVIOUS
  <2>1. m * d <= -m
    OBVIOUS
  <2>2. QED
    BY <2>1, <1>3, <1>1
<1>6. d = 0
  BY <1>4, <1>5
<1>7. QED
  BY <1>1, <1>3, <1>6

LEMMA RingIsThere == RingSize \in Int /\ RingSize > 0
BY EfwHwdepAssumption

LEMMA Wrapped ==
  \A p, x \in Int :
    /\ Advance(p, x) \in Int /\ 0 <= Advance(p, x) /\ Advance(p, x) < RingSize
    /\ \E q \in Int : p + x = RingSize * q + Advance(p, x)
<1> SUFFICES
      ASSUME NEW p \in Int, NEW x \in Int
      PROVE  /\ Advance(p, x) \in Int /\ 0 <= Advance(p, x) /\ Advance(p, x) < RingSize
             /\ \E q \in Int : p + x = RingSize * q + Advance(p, x)
  OBVIOUS
<1> DEFINE a == p + x
<1>1. /\ a = RingSize * (a \div RingSize) + (a % RingSize)
      /\ 0 <= a % RingSize /\ a % RingSize < RingSize
      /\ a \div RingSize \in Int /\ a % RingSize \in Int
  BY RingIsThere
<1>2. QED
  BY <1>1 DEF Advance

LEMMA AdvanceIn ==
  \A p, x \in Int : Advance(p, x) \in Index /\ (p \in Index => Advance(p, 0) = p)
<1> SUFFICES ASSUME NEW p \in Int, NEW x \in Int
             PROVE  Advance(p, x) \in Index /\ (p \in Index => Advance(p, 0) = p)
  OBVIOUS
<1>1. Advance(p, x) \in Index
  <2>1. Advance(p, x) \in Int /\ 0 <= Advance(p, x) /\ Advance(p, x) < RingSize
    BY Wrapped, Zenon
  <2>2. QED
    BY <2>1, RingIsThere DEF Index
<1>2. ASSUME p \in Index PROVE Advance(p, 0) = p
  <2>1. /\ p + 0 = RingSize * 0 + p /\ 0 <= p /\ p < RingSize
    BY <1>2, RingIsThere DEF Index
  <2>2. (RingSize * 0 + p) % RingSize = p
    BY <2>1, RingIsThere, Remainder
  <2>3. QED
    BY <2>1, <2>2 DEF Advance
<1>3. QED
  BY <1>1, <1>2

LEMMA AdvanceOn ==
  \A p, x, y \in Int : Advance(Advance(p, x), y) = Advance(p, x + y)
<1> SUFFICES ASSUME NEW p \in Int, NEW x \in Int, NEW y \in Int
             PROVE  Advance(Advance(p, x), y) = Advance(p, x + y)
  OBVIOUS
<1>1. PICK q \in Int : p + x = RingSize * q + Advance(p, x)
  BY Wrapped, Zenon
<1> DEFINE a == Advance(p, x)
           b == Advance(a, y)
<1>2. a \in Int
  BY Wrapped, Zenon
<1>3. PICK r \in Int : a + y = RingSize * r + b
  BY <1>2, Wrapped, Zenon
<1>4. b \in Int /\ 0 <= b /\ b < RingSize
  BY <1>2, Wrapped, Zenon
<1> HIDE DEF b
<1>5. p + (x + y) = RingSize * (q + r) + b
  <2> HIDE DEF a
  <2>1. p + x = RingSize * q + a
    BY <1>1 DEF a
  <2>2. QED
    BY <2>1, <1>3, <1>2, <1>4, RingIsThere
<1>6. (RingSize * (q + r) + b) % RingSize = b
  BY <1>4, RingIsThere, Remainder
<1>7. Advance(p, x + y) = b
  BY <1>5, <1>6 DEF Advance
<1>8. QED
  BY <1>7 DEF b

\* How far ahead of one place another one is, round the ring.
LEMMA Distance ==
  \A p, u, x \in Int :
    /\ u <= x /\ x < u + RingSize => (Advance(p, x) - Advance(p, u)) % RingSize = x - u
    /\ x < u /\ u <= x + RingSize
         => (Advance(p, x) - Advance(p, u)) % RingSize = RingSize - (u - x)
<1> SUFFICES ASSUME NEW p \in Int, NEW u \in Int, NEW x \in Int
             PROVE  /\ u <= x /\ x < u + RingSize
                         => (Advance(p, x) - Advance(p, u)) % RingSize = x - u
                    /\ x < u /\ u <= x + RingSize
                         => (Advance(p, x) - Advance(p, u)) % RingSize = RingSize - (u - x)
  OBVIOUS
<1>1. PICK q \in Int : p + x = RingSize * q + Advance(p, x)
  BY Wrapped, Zenon
<1> DEFINE a == Advance(p, x)
           b == Advance(p, u)
<1>2. PICK r \in Int : p + u = RingSize * r + b
  BY Wrapped, Zenon
<1>3. a \in Int /\ b \in Int /\ p + x = RingSize * q + a
  BY <1>1, Wrapped, Zenon
<1> HIDE DEF a, b
<1>4. ASSUME u <= x, x < u + RingSize PROVE (a - b) % RingSize = x - u
  <2>1. a - b = RingSize * (r - q) + (x - u)
    BY <1>3, <1>2, RingIsThere
  <2>2. (RingSize * (r - q) + (x - u)) % RingSize = x - u
    BY <1>4, RingIsThere, Remainder
  <2>3. QED
    BY <2>1, <2>2
<1>5. ASSUME x < u, u <= x + RingSize PROVE (a - b) % RingSize = RingSize - (u - x)
  <2>1. a - b = RingSize * (r - q - 1) + (RingSize - (u - x))
    BY <1>3, <1>2, RingIsThere
  <2>2. (RingSize * (r - q - 1) + (RingSize - (u - x))) % RingSize = RingSize - (u - x)
    BY <1>5, RingIsThere, Remainder
  <2>3. QED
    BY <2>1, <2>2
<1>6. QED
  BY <1>4, <1>5 DEF a, b

\* The room copy_resp_to_buf() finds is what the unread quadlets leave, unless they fill
\* the ring.
LEMMA Room ==
  ASSUME NEW u \in Int, 0 <= u, u < RingSize, pullPtr \in Index,
         pushPtr = Advance(pullPtr, u)
  PROVE  Capacity = RingSize - u
<1>1. /\ pullPtr \in Int /\ 0 <= pullPtr /\ pullPtr < RingSize
  BY RingIsThere DEF Index
<1>2. CASE pullPtr + u < RingSize
  <2>1. pullPtr + u = RingSize * 0 + (pullPtr + u)
    BY <1>1, RingIsThere
  <2>2. (RingSize * 0 + (pullPtr + u)) % RingSize = pullPtr + u
    BY <1>1, <1>2, RingIsThere, Remainder
  <2>3. pushPtr = pullPtr + u
    BY <2>1, <2>2 DEF Advance
  <2>4. QED
    BY <1>1, <2>3, RingIsThere DEF Capacity
<1>3. CASE pullPtr + u >= RingSize
  <2>1. pullPtr + u = RingSize * 1 + (pullPtr + u - RingSize)
    BY <1>1, RingIsThere
  <2>2. (RingSize * 1 + (pullPtr + u - RingSize)) % RingSize = pullPtr + u - RingSize
    BY <1>1, <1>3, RingIsThere, Remainder
  <2>3. pushPtr = pullPtr + u - RingSize
    BY <2>1, <2>2 DEF Advance
  <2>4. QED
    BY <1>1, <2>3, RingIsThere DEF Capacity
<1>4. QED
  BY <1>1, <1>2, <1>3, RingIsThere

----------------------------------------------------------------------------
(* The ring and the queue of responses it stands for *)

Response == [id : Nat, len : ResponseLens, stored : Nat]

\* pos[j] is where response j of q begins, counted from pull; the last element is
\* where the last one ends.
Starts(q, pos) ==
  /\ pos \in [1 .. Len(q) + 1 -> Nat]
  /\ pos[1] = 0
  /\ \A j \in 1 .. Len(q) : pos[j + 1] = pos[j] + q[j].len
  /\ \A i, j \in 1 .. Len(q) + 1 : i <= j => pos[i] <= pos[j]

\* The quadlets of q lie in r from pull to push, once round at the most.
Laid(r, pull, push, q, pos) ==
  /\ Starts(q, pos)
  /\ pos[Len(q) + 1] <= RingSize
  /\ push = Advance(pull, pos[Len(q) + 1])
  /\ \A j \in 1 .. Len(q) : \A k \in 1 .. q[j].len :
       r[Advance(pull, pos[j] + k - 1)] = Quadlet(q[j].id, k, q[j].len)

Queue ==
  /\ unread \in Seq(Response)
  /\ \A j \in 1 .. Len(unread) : unread[j].stored = unread[j].len
  /\ respQueues = Len(unread)
  /\ pullPtr \in Index
  /\ nextId \in Nat
  /\ \A i \in Index : ring[i].len \in Nat

RingInv ==
  /\ desync \in BOOLEAN
  /\ ~desync => Queue /\ \E pos : Laid(ring, pullPtr, pushPtr, unread, pos)

LEMMA Lengths ==
  ASSUME NEW q \in Seq(Response)
  PROVE  \A j \in 1 .. Len(q) : q[j] \in Response /\ q[j].len \in Nat
<1> SUFFICES ASSUME NEW j \in 1 .. Len(q) PROVE q[j] \in Response /\ q[j].len \in Nat
  OBVIOUS
<1>1. q[j] \in Response
  OBVIOUS
<1>2. q[j].len \in ResponseLens
  BY <1>1 DEF Response
<1>3. QED
  BY <1>1, <1>2, EfwHwdepAssumption

\* The oldest c responses are taken.
LEMMA TakeOldest ==
  ASSUME NEW r, NEW pull \in Index, NEW push, NEW q \in Seq(Response), NEW pos,
         Laid(r, pull, push, q, pos), NEW c \in 0 .. Len(q)
  PROVE  \E pos2 : Laid(r, Advance(pull, pos[c + 1]), push, SubSeq(q, c + 1, Len(q)), pos2)
<1> DEFINE m  == Len(q) - c
           q2 == SubSeq(q, c + 1, Len(q))
           p2 == [j \in 1 .. m + 1 |-> pos[j + c] - pos[c + 1]]
<1>1. m \in Nat /\ c \in Nat /\ Len(q) \in Nat
  OBVIOUS
<1>2. Len(q2) = m /\ \A j \in 1 .. m : q2[j] = q[j + c]
  <2>1. Len(q2) = m
    OBVIOUS
  <2>2. ASSUME NEW j \in 1 .. m PROVE q2[j] = q[j + c]
    BY <1>1
  <2>3. QED
    BY <2>1, <2>2
<1>3. pos \in [1 .. Len(q) + 1 -> Nat] /\ pos[1] = 0
  BY DEF Laid, Starts
<1>4. \A j \in 1 .. m + 1 : /\ j + c \in 1 .. Len(q) + 1 /\ c + 1 \in 1 .. Len(q) + 1
                            /\ c + 1 <= j + c
  BY <1>1
<1>5. \A j \in 1 .. m + 1 : pos[j + c] \in Nat /\ pos[c + 1] \in Nat /\ pos[c + 1] <= pos[j + c]
  BY <1>3, <1>4 DEF Laid, Starts
<1>6. \A j \in 1 .. m + 1 : p2[j] = pos[j + c] - pos[c + 1] /\ p2[j] \in Nat
  <2> SUFFICES ASSUME NEW j \in 1 .. m + 1
               PROVE  p2[j] = pos[j + c] - pos[c + 1] /\ p2[j] \in Nat
    OBVIOUS
  <2>1. p2[j] = pos[j + c] - pos[c + 1]
    OBVIOUS
  <2> HIDE DEF p2, m
  <2>2. QED
    BY <2>1, <1>5
<1>7. Starts(q2, p2)
  <2>1. p2 \in [1 .. m + 1 -> Nat]
    BY <1>6
  <2>2. p2[1] = 0
    BY <1>1, <1>5
  <2>3. ASSUME NEW j \in 1 .. m PROVE p2[j + 1] = p2[j] + q2[j].len
    <3>1. /\ j + c \in 1 .. Len(q) /\ j \in 1 .. m + 1 /\ j + 1 \in 1 .. m + 1
          /\ (j + 1) + c = (j + c) + 1
      BY <1>1
    <3>2. pos[(j + c) + 1] = pos[j + c] + q[j + c].len
      BY <3>1 DEF Laid, Starts
    <3>3. q[j + c].len \in Nat
      BY <3>1, Lengths
    <3>4. /\ p2[j + 1] = pos[(j + c) + 1] - pos[c + 1] /\ p2[j] = pos[j + c] - pos[c + 1]
          /\ pos[j + c] \in Nat /\ pos[c + 1] \in Nat /\ q2[j] = q[j + c]
      BY <3>1, <1>2, <1>5, <1>6
    <3> HIDE DEF p2, q2, m
    <3>5. QED
      BY <3>2, <3>3, <3>4
  <2>4. ASSUME NEW i \in 1 .. m + 1, NEW j \in 1 .. m + 1, i <= j PROVE p2[i] <= p2[j]
    <3>1. i + c \in 1 .. Len(q) + 1 /\ j + c \in 1 .. Len(q) + 1 /\ i + c <= j + c
      BY <1>1, <2>4
    <3>2. pos[i + c] <= pos[j + c]
      BY <3>1 DEF Laid, Starts
    <3>3. /\ p2[i] = pos[i + c] - pos[c + 1] /\ p2[j] = pos[j + c] - pos[c + 1]
          /\ pos[i + c] \in Nat /\ pos[j + c] \in Nat /\ pos[c + 1] \in Nat
      BY <1>5, <1>6
    <3> HIDE DEF p2, q2, m
    <3>4. QED
      BY <3>2, <3>3
  <2> HIDE DEF p2, q2, m
  <2>5. QED
    BY <2>1, <2>2, <2>3, <2>4, <1>2 DEF Starts
<1>8. p2[m + 1] = pos[Len(q) + 1] - pos[c + 1] /\ pos[c + 1] \in Nat /\ pos[Len(q) + 1] \in Nat
  <2>1. m + 1 \in 1 .. m + 1 /\ (m + 1) + c = Len(q) + 1
    BY <1>1
  <2> HIDE DEF p2, m
  <2>2. QED
    BY <2>1, <1>5, <1>6
<1>9. p2[Len(q2) + 1] <= RingSize
  BY <1>8, <1>2, RingIsThere DEF Laid
<1>10. pull \in Int
  BY RingIsThere DEF Index
<1>11. push = Advance(Advance(pull, pos[c + 1]), p2[Len(q2) + 1])
  <2>1. push = Advance(pull, pos[Len(q) + 1])
    BY DEF Laid
  <2>2. pos[Len(q) + 1] = pos[c + 1] + p2[Len(q2) + 1] /\ p2[Len(q2) + 1] \in Int
    BY <1>8, <1>2
  <2> HIDE DEF p2, q2
  <2>3. Advance(Advance(pull, pos[c + 1]), p2[Len(q2) + 1])
          = Advance(pull, pos[c + 1] + p2[Len(q2) + 1])
    <3>1. pos[c + 1] \in Int
      BY <1>8
    <3>2. QED
      BY <3>1, <2>2, <1>10, AdvanceOn, Zenon
  <2>4. QED
    BY <2>1, <2>2, <2>3
<1>12. ASSUME NEW j \in 1 .. Len(q2), NEW k \in 1 .. q2[j].len
       PROVE  r[Advance(Advance(pull, pos[c + 1]), p2[j] + k - 1)]
                = Quadlet(q2[j].id, k, q2[j].len)
  <2>1. j \in 1 .. m /\ j \in 1 .. m + 1 /\ q2[j] = q[j + c] /\ j + c \in 1 .. Len(q)
    <3>1. j \in 1 .. m
      BY <1>2
    <3>2. q2[j] = q[j + c]
      BY <3>1, <1>2
    <3> HIDE DEF q2
    <3>3. QED
      BY <3>1, <3>2, <1>1
  <2>2. p2[j] = pos[j + c] - pos[c + 1] /\ pos[j + c] \in Nat /\ pos[c + 1] \in Nat
    BY <2>1, <1>5
  <2>3. k \in Int /\ k \in 1 .. q[j + c].len
    BY <2>1, EfwHwdepAssumption DEF Response
  <2>4. r[Advance(pull, pos[j + c] + k - 1)] = Quadlet(q[j + c].id, k, q[j + c].len)
    BY <2>1, <2>3 DEF Laid
  <2>5. /\ pos[c + 1] + (p2[j] + k - 1) = pos[j + c] + k - 1
        /\ p2[j] + k - 1 \in Int
    BY <2>2, <2>3
  <2> HIDE DEF p2, q2
  <2>6. Advance(Advance(pull, pos[c + 1]), p2[j] + k - 1) = Advance(pull, pos[j + c] + k - 1)
    <3>1. pos[c + 1] \in Int
      BY <2>2
    <3>2. Advance(Advance(pull, pos[c + 1]), p2[j] + k - 1)
            = Advance(pull, pos[c + 1] + (p2[j] + k - 1))
      BY <3>1, <2>5, <1>10, AdvanceOn, Zenon
    <3>3. QED
      BY <3>2, <2>5
  <2>7. QED
    BY <2>1, <2>4, <2>6
<1> HIDE DEF p2, q2
<1>13. Laid(r, Advance(pull, pos[c + 1]), push, q2, p2)
  BY <1>7, <1>9, <1>11, <1>12 DEF Laid
<1>14. QED
  BY <1>13 DEF q2

\* A response is added, which overwrites what lies between push and pull only.
LEMMA AddNewest ==
  ASSUME NEW r, NEW pull \in Index, NEW push, NEW q \in Seq(Response), NEW pos,
         Laid(r, pull, push, q, pos),
         NEW e \in Response, e.len + pos[Len(q) + 1] <= RingSize
  PROVE  LET r2 == [i \in Index |->
                      LET k == ((i - push) % RingSize) + 1
                      IN  IF k <= e.len THEN Quadlet(e.id, k, e.len) ELSE r[i]]
         IN  \E pos2 : Laid(r2, pull, Advance(push, e.len), Append(q, e), pos2)
<1> DEFINE m  == Len(q)
           u  == pos[m + 1]
           n  == e.len
           q2 == Append(q, e)
           p2 == [j \in 1 .. m + 2 |-> IF j = m + 2 THEN u + n ELSE pos[j]]
           r2 == [i \in Index |->
                    LET k == ((i - push) % RingSize) + 1
                    IN  IF k <= n THEN Quadlet(e.id, k, n) ELSE r[i]]
<1>1. m \in Nat /\ n \in Nat /\ pull \in Int
  <2>1. e.len \in ResponseLens
    BY DEF Response
  <2>2. n \in Nat
    BY <2>1, EfwHwdepAssumption
  <2>3. pull \in Int
    BY RingIsThere DEF Index
  <2>4. QED
    BY <2>2, <2>3
<1>2. pos \in [1 .. m + 1 -> Nat] /\ pos[1] = 0
  BY DEF Laid, Starts
<1>3. u \in Nat /\ u + n <= RingSize /\ push = Advance(pull, u)
  BY <1>1, <1>2 DEF Laid
<1>4. /\ Len(q2) = m + 1 /\ q2[m + 1] = e
      /\ \A j \in 1 .. m : q2[j] = q[j] /\ q[j].len \in Nat
  <2>1. Len(q2) = m + 1 /\ q2[m + 1] = e
    BY <1>1
  <2>2. ASSUME NEW j \in 1 .. m PROVE q2[j] = q[j]
    BY <1>1
  <2>3. QED
    BY <2>1, <2>2, Lengths
<1>5. /\ p2[m + 2] = u + n /\ m + 2 \in 1 .. m + 2
      /\ \A j \in 1 .. m + 1 : p2[j] = pos[j] /\ pos[j] \in Nat /\ pos[j] <= u
  <2>1. \A j \in 1 .. m + 1 : pos[j] <= u
    <3>1. m + 1 \in 1 .. Len(q) + 1
      BY <1>1
    <3>2. QED
      BY <3>1 DEF Laid, Starts
  <2>2. \A j \in 1 .. m + 1 : j \in 1 .. m + 2 /\ j # m + 2
    BY <1>1
  <2>3. \A j \in 1 .. m + 1 : p2[j] = pos[j]
    BY <2>2
  <2>4. p2[m + 2] = u + n /\ m + 2 \in 1 .. m + 2
    BY <1>1
  <2>5. QED
    BY <1>2, <2>1, <2>3, <2>4
<1>6. Starts(q2, p2)
  <2>1. p2 \in [1 .. m + 2 -> Nat]
    <3>1. ASSUME NEW j \in 1 .. m + 2 PROVE p2[j] \in Nat
      <4>1. CASE j = m + 2
        <5> HIDE DEF p2, u, n, m
        <5>1. QED
          BY <4>1, <1>1, <1>3, <1>5
      <4>2. CASE j # m + 2
        <5>1. j \in 1 .. m + 1
          BY <4>2, <1>1
        <5>2. QED
          BY <5>1, <1>5
      <4>3. QED
        BY <4>1, <4>2
    <3>2. QED
      BY <3>1
  <2>2. p2[1] = 0
    BY <1>1, <1>2, <1>5
  <2>3. ASSUME NEW j \in 1 .. m + 1 PROVE p2[j + 1] = p2[j] + q2[j].len
    <3>1. CASE j = m + 1
      BY <3>1, <1>1, <1>4, <1>5
    <3>2. CASE j # m + 1
      <4>1. j \in 1 .. m /\ j + 1 \in 1 .. m + 1
        BY <3>2, <1>1
      <4>2. pos[j + 1] = pos[j] + q[j].len
        BY <4>1 DEF Laid, Starts
      <4>3. QED
        BY <4>1, <4>2, <1>4, <1>5
    <3>3. QED
      BY <3>1, <3>2
  <2>4. ASSUME NEW i \in 1 .. m + 2, NEW j \in 1 .. m + 2, i <= j PROVE p2[i] <= p2[j]
    <3>1. CASE j = m + 2
      <4>1. CASE i = m + 2
        BY <3>1, <4>1, <1>1, <1>3, <1>5
      <4>2. CASE i # m + 2
        <5>1. i \in 1 .. m + 1
          BY <4>2, <1>1
        <5>2. QED
          <6> HIDE DEF p2, u, n, m
          <6>1. p2[j] = u + n /\ p2[i] = pos[i] /\ pos[i] \in Nat /\ pos[i] <= u
            BY <3>1, <5>1, <1>5
          <6>2. QED
            BY <6>1, <1>1, <1>3
      <4>3. QED
        BY <4>1, <4>2
    <3>2. CASE j # m + 2
      <4>1. i \in 1 .. m + 1 /\ j \in 1 .. m + 1
        BY <3>2, <2>4, <1>1
      <4>2. pos[i] <= pos[j]
        BY <4>1, <2>4 DEF Laid, Starts
      <4>3. QED
        BY <4>1, <4>2, <1>5
    <3>3. QED
      BY <3>1, <3>2
  <2>5. (m + 1) + 1 = m + 2
    BY <1>1
  <2> HIDE DEF p2, q2, m
  <2>6. QED
    BY <2>1, <2>2, <2>3, <2>4, <2>5, <1>4 DEF Starts
<1>7. p2[Len(q2) + 1] = u + n
  <2>1. (m + 1) + 1 = m + 2
    BY <1>1
  <2> HIDE DEF p2, q2, m, u, n
  <2>2. QED
    BY <2>1, <1>4, <1>5
<1>8. Advance(push, n) = Advance(pull, p2[Len(q2) + 1])
  <2> HIDE DEF p2, q2, m, u, n
  <2>1. QED
    BY <1>1, <1>3, <1>7, AdvanceOn
<1>9. ASSUME NEW x \in Nat, x < RingSize
      PROVE  r2[Advance(pull, x)]
               = IF x >= u /\ x < u + n THEN Quadlet(e.id, x - u + 1, n)
                 ELSE IF x < u THEN r[Advance(pull, x)] ELSE r2[Advance(pull, x)]
  <2> DEFINE a == Advance(pull, x)
             d == (a - push) % RingSize
  <2>1. a \in Index
    BY <1>1, AdvanceIn
  <2>2. r2[a] = IF d + 1 <= n THEN Quadlet(e.id, d + 1, n) ELSE r[a]
    BY <2>1
  <2>3. CASE x >= u /\ x < u + n
    <3>1. d = x - u
      <4> HIDE DEF u, n
      <4>1. u <= x /\ x < u + RingSize
        BY <2>3, <1>9, <1>3, RingIsThere
      <4>2. QED
        BY <4>1, <1>1, <1>3, Distance
    <3> HIDE DEF a, d, r2, u, n
    <3>2. d + 1 <= n /\ d + 1 = x - u + 1
      BY <3>1, <2>3, <1>1, <1>3
    <3>3. QED
      BY <2>2, <2>3, <3>2 DEF a
  <2>4. CASE x < u
    <3>1. d = RingSize - (u - x)
      <4> HIDE DEF u, n
      <4>1. x < u /\ u <= x + RingSize
        BY <2>4, <1>9, <1>1, <1>3, RingIsThere
      <4>2. QED
        BY <4>1, <1>1, <1>3, Distance
    <3> HIDE DEF a, d, r2, u, n
    <3>2. ~(d + 1 <= n) /\ ~(x >= u)
      BY <3>1, <2>4, <1>1, <1>3, RingIsThere
    <3>3. QED
      BY <2>2, <2>4, <3>2 DEF a
  <2> HIDE DEF a, d, r2, u, n
  <2>5. CASE x >= u /\ ~(x < u + n)
    <3>1. ~(x < u)
      BY <2>5, <1>3
    <3>2. QED
      BY <2>5, <3>1
  <2>6. QED
    BY <2>3, <2>4, <2>5, <1>1, <1>3
<1>10. ASSUME NEW j \in 1 .. m + 1, NEW k \in 1 .. q2[j].len
       PROVE  r2[Advance(pull, p2[j] + k - 1)] = Quadlet(q2[j].id, k, q2[j].len)
  <2>1. CASE j = m + 1
    <3>1. q2[j] = e /\ p2[j] = u /\ k \in 1 .. n
      BY <2>1, <1>1, <1>4, <1>5
    <3> HIDE DEF r2, p2, q2, u, n
    <3>2. /\ p2[j] + k - 1 \in Nat /\ p2[j] + k - 1 < RingSize
          /\ p2[j] + k - 1 >= u /\ p2[j] + k - 1 < u + n
      BY <3>1, <1>1, <1>3, RingIsThere
    <3>3. r2[Advance(pull, p2[j] + k - 1)] = Quadlet(e.id, k, n)
      <4>1. PICK x : x = p2[j] + k - 1
        OBVIOUS
      <4>2. x \in Nat /\ x < RingSize /\ x >= u /\ x < u + n
        BY <3>2, <4>1
      <4>3. r2[Advance(pull, x)] = Quadlet(e.id, x - u + 1, n)
        BY <4>2, <1>9
      <4>4. x - u + 1 = k
        BY <3>1, <4>1, <1>1, <1>3
      <4>5. QED
        BY <4>1, <4>3, <4>4
    <3>4. e.len = n
      BY DEF n
    <3>5. QED
      BY <3>1, <3>3, <3>4
  <2>2. CASE j # m + 1
    <3>1. j \in 1 .. m /\ j \in 1 .. m + 1 /\ j + 1 \in 1 .. m + 1
      BY <2>2, <1>1
    <3>2. /\ q2[j] = q[j] /\ p2[j] = pos[j] /\ k \in 1 .. q[j].len /\ q[j].len \in Nat
          /\ pos[j] \in Nat /\ pos[j + 1] <= u
      BY <3>1, <1>4, <1>5
    <3>3. pos[j + 1] = pos[j] + q[j].len
      BY <3>1 DEF Laid, Starts
    <3>4. r[Advance(pull, pos[j] + k - 1)] = Quadlet(q[j].id, k, q[j].len)
      BY <3>1, <3>2 DEF Laid
    <3> HIDE DEF r2, p2, q2, u, n
    <3>5. k \in Int /\ 1 <= k /\ k <= q[j].len
      BY <3>2
    <3>6. /\ pos[j] + k - 1 \in Nat /\ pos[j] + k - 1 < pos[j + 1]
      BY <3>2, <3>3, <3>5
    <3>7. pos[j + 1] \in Nat
      BY <3>1, <1>5
    <3>8. PICK x : x = pos[j] + k - 1
      OBVIOUS
    <3>9. x \in Nat /\ x < u
      BY <3>2, <3>8, <3>6, <3>7, <1>1, <1>3
    <3>10. x < RingSize /\ ~(x >= u)
      BY <3>9, <1>1, <1>3, RingIsThere
    <3>11. r2[Advance(pull, x)] = r[Advance(pull, x)]
      BY <3>9, <3>10, <1>9
    <3>12. QED
      BY <3>2, <3>4, <3>8, <3>11
  <2>3. QED
    BY <2>1, <2>2
<1>11. u + n <= RingSize
  BY <1>3
<1> HIDE DEF r2, p2, q2, m, u, n
<1>12. Laid(r2, pull, Advance(push, n), q2, p2)
  BY <1>4, <1>6, <1>7, <1>8, <1>10, <1>11 DEF Laid
<1>13. QED
  BY <1>12 DEF r2, q2, n

----------------------------------------------------------------------------
(* What a read takes *)

DrainState == [pull : Index, room : Int, n : Nat, full : BOOLEAN]

DrainBegin(size) == [pull |-> pullPtr, room |-> size, n |-> 0, full |-> FALSE]

DrainOne(s, n) ==
  LET len == ring[s.pull].len
  IN  IF s.full \/ s.room < len THEN [s EXCEPT !.full = TRUE]
      ELSE [pull |-> Advance(s.pull, len), room |-> s.room - len,
            n |-> n, full |-> FALSE]

LEMMA DrainOneIn ==
  ASSUME Queue, NEW s \in DrainState, NEW n \in Nat
  PROVE  DrainOne(s, n) \in DrainState
<1> DEFINE len == ring[s.pull].len
<1>1. /\ s.pull \in Index /\ s.room \in Int /\ s.n \in Nat /\ s.full \in BOOLEAN
      /\ s = [pull |-> s.pull, room |-> s.room, n |-> s.n, full |-> s.full]
  BY DEF DrainState
<1>2. len \in Nat /\ s.pull \in Int
  BY <1>1, RingIsThere DEF Queue, Index
<1> HIDE DEF len
<1>3. Advance(s.pull, len) \in Index
  BY <1>2, AdvanceIn
<1>4. s.room - len \in Int
  BY <1>1, <1>2
<1>5. CASE s.full \/ s.room < len
  <2>1. DrainOne(s, n) = [s EXCEPT !.full = TRUE]
    BY <1>5 DEF DrainOne, len
  <2>2. QED
    BY <2>1, <1>1 DEF DrainState
<1>6. CASE ~(s.full \/ s.room < len)
  <2>1. DrainOne(s, n) = [pull |-> Advance(s.pull, len), room |-> s.room - len,
                          n |-> n, full |-> FALSE]
    BY <1>6 DEF DrainOne, len
  <2>2. QED
    BY <2>1, <1>3, <1>4 DEF DrainState
<1>7. QED
  BY <1>5, <1>6

\* The steps of a read are what the recursion says.
LEMMA DrainIs ==
  ASSUME Queue, NEW size \in Int
  PROVE  \A n \in 0 .. respQueues :
           /\ DrainSteps(size)[n] \in DrainState
           /\ DrainSteps(size)[n] = IF n = 0 THEN DrainBegin(size)
                                    ELSE DrainOne(DrainSteps(size)[n - 1], n)
<1> DEFINE D == [x \in DrainState \X Nat |-> DrainOne(x[1], x[2])]
           Is(f) == f = [n \in 0 .. respQueues |->
                           IF n = 0 THEN DrainBegin(size) ELSE DrainOne(f[n - 1], n)]
<1>1. respQueues \in Nat
  BY DEF Queue
<1>2. DrainBegin(size) \in DrainState
  BY DEF Queue, DrainBegin, DrainState
<1>3. D \in [DrainState \X Nat -> DrainState]
  <2>1. \A x \in DrainState \X Nat : DrainOne(x[1], x[2]) \in DrainState
    BY DrainOneIn
  <2>2. QED
    BY <2>1
<1>4. PICK f \in [0 .. respQueues -> DrainState] :
        \A n \in 0 .. respQueues : f[n] = IF n = 0 THEN DrainBegin(size) ELSE D[<<f[n - 1], n>>]
  <2> HIDE DEF D
  <2>1. \E f : PrimRec(f, DrainState, DrainBegin(size), D, respQueues)
    BY <1>1, <1>2, <1>3, Recursion
  <2>2. QED
    BY <2>1 DEF PrimRec
<1>5. ASSUME NEW n \in 0 .. respQueues
      PROVE  f[n] = IF n = 0 THEN DrainBegin(size) ELSE DrainOne(f[n - 1], n)
  <2>1. CASE n = 0
    BY <2>1, <1>4
  <2>2. CASE n # 0
    <3>1. n \in Nat /\ n - 1 \in 0 .. respQueues /\ f[n - 1] \in DrainState
      BY <2>2, <1>1
    <3>2. f[n] = D[<<f[n - 1], n>>]
      BY <2>2, <1>4
    <3>3. QED
      BY <2>2, <3>1, <3>2
  <2>3. QED
    BY <2>1, <2>2
<1> HIDE DEF D
<1>6. Is(f)
  BY <1>5
<1>7. DrainSteps(size) = CHOOSE g : Is(g)
  BY Zenon DEF DrainSteps, DrainBegin, DrainOne
<1>8. Is(DrainSteps(size))
  <2> HIDE DEF Is
  <2>1. QED
    BY <1>6, <1>7
<1> DEFINE g == DrainSteps(size)
<1> HIDE DEF g
<1>9. \A n \in 0 .. respQueues :
        g[n] = IF n = 0 THEN DrainBegin(size) ELSE DrainOne(g[n - 1], n)
  BY <1>8 DEF g
<1>10. \A n \in 0 .. respQueues : g[n] \in DrainState
  <2> DEFINE T == {n \in Nat : n \in 0 .. respQueues => g[n] \in DrainState}
  <2>1. 0 \in T
    BY <1>1, <1>2, <1>9
  <2>2. ASSUME NEW n \in Nat, n \in T PROVE n + 1 \in T
    <3>1. SUFFICES ASSUME n + 1 \in 0 .. respQueues PROVE g[n + 1] \in DrainState
      OBVIOUS
    <3>2. n \in 0 .. respQueues /\ n + 1 # 0 /\ (n + 1) - 1 = n /\ n + 1 \in Nat
      BY <3>1, <1>1
    <3>3. g[n + 1] = DrainOne(g[n], n + 1)
      BY <3>1, <3>2, <1>9
    <3>4. QED
      BY <3>2, <3>3, <2>2, DrainOneIn
  <2>3. \A n \in Nat : n \in T
    <3> HIDE DEF T
    <3>1. QED
      BY <2>1, <2>2, Induction
  <2>4. QED
    BY <2>3, <1>1
<1>11. QED
  BY <1>9, <1>10 DEF g

\* A read takes the oldest responses, each where the queue has it.
LEMMA DrainTakesOldest ==
  ASSUME Queue, NEW pos, Laid(ring, pullPtr, pushPtr, unread, pos), NEW size \in Int
  PROVE  /\ Drained(size).n \in 0 .. Len(unread)
         /\ \A n \in 0 .. Drained(size).n :
              DrainSteps(size)[n].pull = Advance(pullPtr, pos[n + 1])
         /\ Drained(size).pull = Advance(pullPtr, pos[Drained(size).n + 1])
<1> DEFINE g == DrainSteps(size)
           Q(m) == /\ g[m].n \in 0 .. m
                   /\ ~g[m].full => g[m].n = m
                   /\ g[m].pull = Advance(pullPtr, pos[g[m].n + 1])
                   /\ \A i \in 0 .. g[m].n : g[i].pull = Advance(pullPtr, pos[i + 1])
           T == {m \in Nat : m \in 0 .. respQueues => Q(m)}
<1>1. /\ respQueues \in Nat /\ respQueues = Len(unread) /\ pullPtr \in Index
      /\ pullPtr \in Int /\ unread \in Seq(Response)
  BY RingIsThere DEF Queue, Index
<1>2. \A n \in 0 .. respQueues :
        /\ g[n] \in DrainState
        /\ g[n] = IF n = 0 THEN DrainBegin(size) ELSE DrainOne(g[n - 1], n)
  BY DrainIs, Zenon
<1> HIDE DEF g
<1>3. 0 \in T
  <2>1. g[0] = DrainBegin(size)
    BY <1>1, <1>2
  <2>2. g[0].n = 0 /\ g[0].pull = pullPtr /\ g[0].full = FALSE
    BY <2>1 DEF DrainBegin
  <2>3. pos[0 + 1] = 0 /\ Advance(pullPtr, 0) = pullPtr
    BY <1>1, AdvanceIn DEF Laid, Starts
  <2>4. Q(0)
    BY <2>2, <2>3
  <2>5. QED
    BY <2>4
<1>4. ASSUME NEW m \in Nat, m \in T PROVE m + 1 \in T
  <2>1. SUFFICES ASSUME m + 1 \in 0 .. respQueues PROVE Q(m + 1)
    OBVIOUS
  <2>2. m \in 0 .. respQueues /\ m + 1 # 0 /\ (m + 1) - 1 = m /\ m + 1 \in 1 .. Len(unread)
    BY <2>1, <1>1
  <2>3. Q(m)
    BY <2>2, <1>4
  <2>4. g[m + 1] = DrainOne(g[m], m + 1) /\ g[m] \in DrainState /\ g[m + 1] \in DrainState
    BY <2>1, <2>2, <1>2
  <2> DEFINE len == ring[g[m].pull].len
  <2>5. CASE g[m].full \/ g[m].room < len
    <3>1. g[m + 1] = [g[m] EXCEPT !.full = TRUE]
      BY <2>4, <2>5 DEF DrainOne
    <3>2. g[m + 1].n = g[m].n /\ g[m + 1].pull = g[m].pull /\ g[m + 1].full = TRUE
      BY <3>1, <2>4 DEF DrainState
    <3>3. QED
      BY <2>3, <3>2
  <2>6. CASE ~(g[m].full \/ g[m].room < len)
    <3>1. g[m + 1] = [pull |-> Advance(g[m].pull, len), room |-> g[m].room - len,
                      n |-> m + 1, full |-> FALSE]
      BY <2>4, <2>6 DEF DrainOne
    <3>2. /\ g[m + 1].n = m + 1 /\ g[m + 1].pull = Advance(g[m].pull, len)
          /\ g[m + 1].full = FALSE
      BY <3>1
    <3>3. g[m].n = m
      BY <2>3, <2>6
    <3>4. g[m].pull = Advance(pullPtr, pos[m + 1])
      BY <2>3, <3>3
    <3>5. /\ pos \in [1 .. Len(unread) + 1 -> Nat]
          /\ pos[(m + 1) + 1] = pos[m + 1] + unread[m + 1].len
      BY <2>2 DEF Laid, Starts
    <3>6. /\ unread[m + 1].len \in Nat /\ 1 \in 1 .. unread[m + 1].len
          /\ pos[m + 1] \in Nat
      <4>1. unread[m + 1] \in Response /\ unread[m + 1].len \in Nat
        BY <1>1, <2>2, Lengths
      <4>2. unread[m + 1].len \in ResponseLens
        BY <4>1 DEF Response
      <4>3. HeaderLen <= unread[m + 1].len /\ HeaderLen \in Nat /\ HeaderLen # 0
        BY <4>2, EfwHwdepAssumption
      <4>4. m + 1 \in 1 .. Len(unread) + 1
        BY <2>2, <1>1
      <4>5. pos[m + 1] \in Nat
        BY <4>4, <3>5
      <4>6. QED
        BY <4>1, <4>3, <4>5
    <3>7. pos[m + 1] + 1 - 1 = pos[m + 1]
      BY <3>6
    <3>8. ring[Advance(pullPtr, pos[m + 1] + 1 - 1)]
            = Quadlet(unread[m + 1].id, 1, unread[m + 1].len)
      BY <2>2, <3>6 DEF Laid
    <3>9. len = unread[m + 1].len
      BY <3>4, <3>7, <3>8 DEF Quadlet
    <3>10. g[m + 1].pull = Advance(pullPtr, pos[(m + 1) + 1])
      <4>1. pos[m + 1] \in Int /\ unread[m + 1].len \in Int /\ pullPtr \in Int
        BY <3>6, <1>1
      <4>2. Advance(Advance(pullPtr, pos[m + 1]), unread[m + 1].len)
              = Advance(pullPtr, pos[m + 1] + unread[m + 1].len)
        BY <4>1, AdvanceOn, Zenon
      <4>3. QED
        BY <4>2, <3>2, <3>4, <3>5, <3>9
    <3> HIDE DEF len
    <3>11. ASSUME NEW i \in 0 .. m + 1 PROVE g[i].pull = Advance(pullPtr, pos[i + 1])
      <4>1. CASE i = m + 1
        BY <4>1, <3>10
      <4>2. CASE i # m + 1
        <5>1. i \in 0 .. g[m].n
          BY <4>2, <3>3
        <5>2. QED
          BY <5>1, <2>3
      <4>3. QED
        BY <4>1, <4>2
    <3>12. m + 1 \in 0 .. m + 1
      OBVIOUS
    <3>13. QED
      BY <3>2, <3>10, <3>11, <3>12
  <2>7. QED
    BY <2>5, <2>6
<1>5. respQueues \in T
  <2> HIDE DEF T
  <2>1. QED
    BY <1>1, <1>3, <1>4, Induction
<1>6. Q(respQueues)
  BY <1>1, <1>5
<1>7. Drained(size) = g[respQueues]
  BY DEF Drained, g
<1>8. QED
  BY <1>1, <1>6, <1>7 DEF g

\* Where a response begins is the sum of the lengths before it.
LEMMA OffsetIs ==
  ASSUME Queue, NEW pos, Starts(unread, pos)
  PROVE  \A j \in 1 .. Len(unread) + 1 : Offset(j) = pos[j]
<1> SUFFICES ASSUME NEW j \in 1 .. Len(unread) + 1 PROVE Offset(j) = pos[j]
  OBVIOUS
<1> DEFINE Is(f) == f = [i \in 1 .. j |-> IF i = 1 THEN 0 ELSE f[i - 1] + unread[i - 1].stored]
           p == [i \in 1 .. j |-> pos[i]]
           g == CHOOSE f : Is(f)
<1>1. Len(unread) \in Nat /\ j \in Nat
  BY DEF Queue
<1>2. ASSUME NEW i \in 1 .. j, i # 1
      PROVE  i - 1 \in 1 .. j /\ pos[i] = pos[i - 1] + unread[i - 1].stored
  <2>1. i - 1 \in 1 .. j /\ i - 1 \in 1 .. Len(unread) /\ (i - 1) + 1 = i
    BY <1>1, <1>2
  <2>2. pos[(i - 1) + 1] = pos[i - 1] + unread[i - 1].len
    BY <2>1 DEF Starts
  <2>3. unread[i - 1].stored = unread[i - 1].len
    BY <2>1 DEF Queue
  <2>4. QED
    BY <2>1, <2>2, <2>3
<1>3. Is(p)
  <2>1. ASSUME NEW i \in 1 .. j
        PROVE  p[i] = IF i = 1 THEN 0 ELSE p[i - 1] + unread[i - 1].stored
    BY <1>2 DEF Starts
  <2>2. QED
    BY <2>1
<1>4. Is(g)
  <2> HIDE DEF Is, p
  <2>1. QED
    BY <1>3
<1>5. Offset(j) = g[j]
  BY Zenon DEF Offset
<1> HIDE DEF g
<1>6. \A i \in 1 .. j : g[i] = IF i = 1 THEN 0 ELSE g[i - 1] + unread[i - 1].stored
  BY <1>4
<1> DEFINE T == {n \in Nat : n + 1 \in 1 .. j => g[n + 1] = pos[n + 1]}
<1>7. 0 \in T
  BY <1>1, <1>6 DEF Starts
<1>8. ASSUME NEW n \in Nat, n \in T PROVE n + 1 \in T
  <2>1. SUFFICES ASSUME (n + 1) + 1 \in 1 .. j PROVE g[(n + 1) + 1] = pos[(n + 1) + 1]
    OBVIOUS
  <2>2. n + 1 \in 1 .. j /\ (n + 1) + 1 # 1 /\ ((n + 1) + 1) - 1 = n + 1
    BY <2>1
  <2>3. QED
    BY <2>1, <2>2, <1>2, <1>6, <1>8
<1>9. j - 1 \in T
  <2> HIDE DEF T
  <2>1. j - 1 \in Nat
    BY <1>1
  <2>2. QED
    BY <2>1, <1>7, <1>8, Induction
<1>10. (j - 1) + 1 = j
  BY <1>1
<1>11. QED
  BY <1>5, <1>9, <1>10


----------------------------------------------------------------------------
(* The ring is the queue *)

LEMMA RingInit == HwdepInit => RingInv
<1> SUFFICES ASSUME HwdepInit PROVE RingInv
  OBVIOUS
<1>1. /\ unread = <<>> /\ Len(unread) = 0 /\ respQueues = 0
      /\ pullPtr = 0 /\ pushPtr = 0 /\ nextId = 0 /\ desync \in BOOLEAN
  BY Zenon DEF HwdepInit
<1>2. 0 \in Index
  BY RingIsThere DEF Index
<1>3. \A i \in Index : ring[i].len \in Nat
  BY DEF HwdepInit, Blank
<1>4. unread \in Seq(Response) /\ Len(unread) = 0
  BY <1>1
<1>5. Queue
  BY <1>1, <1>2, <1>3, <1>4 DEF Queue
<1> DEFINE p == [j \in 1 .. Len(unread) + 1 |-> 0]
<1>6. Starts(unread, p)
  BY <1>4 DEF Starts
<1>7. p[Len(unread) + 1] = 0
  BY <1>4
<1>8. Advance(pullPtr, 0) = pushPtr
  BY <1>1, <1>2, AdvanceIn
<1> HIDE DEF p
<1>9. Laid(ring, pullPtr, pushPtr, unread, p)
  BY <1>4, <1>6, <1>7, <1>8, RingIsThere DEF Laid
<1>10. QED
  BY <1>1, <1>5, <1>9 DEF RingInv

\* A read that takes n responses, and is then where the next one begins.
LEMMA ConsumeInv ==
  ASSUME Queue, NEW pos, Laid(ring, pullPtr, pushPtr, unread, pos),
         NEW n \in 0 .. Len(unread), NEW p, p = Advance(pullPtr, pos[n + 1]), Consume(n, p)
  PROVE  Queue' /\ \E pos2 : Laid(ring, pullPtr, pushPtr, unread, pos2)'
<1>1. /\ unread \in Seq(Response) /\ respQueues = Len(unread) /\ pullPtr \in Index
      /\ Len(unread) \in Nat /\ n \in Nat
  BY DEF Queue
<1>2. /\ unread' = SubSeq(unread, n + 1, Len(unread)) /\ pullPtr' = p
      /\ respQueues' = respQueues - n /\ ring' = ring /\ pushPtr' = pushPtr /\ nextId' = nextId
  BY DEF Consume
<1>3. /\ unread' \in Seq(Response) /\ Len(unread') = Len(unread) - n
      /\ \A j \in 1 .. Len(unread) - n : unread'[j] = unread[j + n]
  <2>1. Len(unread') = Len(unread) - n
    BY <1>1, <1>2
  <2>2. ASSUME NEW j \in 1 .. Len(unread) - n PROVE unread'[j] = unread[j + n]
    BY <1>1, <1>2
  <2>3. unread' \in Seq(Response)
    <3>1. \A j \in n + 1 .. Len(unread) : unread[j] \in Response
      BY <1>1, Lengths
    <3>2. QED
      BY <1>1, <1>2, <3>1
  <2>4. QED
    BY <2>1, <2>2, <2>3
<1>4. \A j \in 1 .. Len(unread') : unread'[j].stored = unread'[j].len
  <2> SUFFICES ASSUME NEW j \in 1 .. Len(unread') PROVE unread'[j].stored = unread'[j].len
    OBVIOUS
  <2>1. j \in 1 .. Len(unread) - n /\ j + n \in 1 .. Len(unread)
    BY <1>1, <1>3
  <2>2. QED
    BY <2>1, <1>3 DEF Queue
<1>5. pos[n + 1] \in Int /\ pullPtr \in Int
  <2>1. n + 1 \in 1 .. Len(unread) + 1
    BY <1>1
  <2>2. pos \in [1 .. Len(unread) + 1 -> Nat]
    BY DEF Laid, Starts
  <2>3. pullPtr \in Int
    BY <1>1, RingIsThere DEF Index
  <2>4. QED
    BY <2>1, <2>2, <2>3
<1>6. pullPtr' \in Index
  BY <1>2, <1>5, AdvanceIn
<1>7. Queue'
  BY <1>1, <1>2, <1>3, <1>4, <1>6 DEF Queue
<1>8. \E pos2 : Laid(ring, Advance(pullPtr, pos[n + 1]), pushPtr,
                     SubSeq(unread, n + 1, Len(unread)), pos2)
  BY <1>1, TakeOldest
<1>9. QED
  BY <1>2, <1>7, <1>8

LEMMA ReadInv ==
  ASSUME RingInv, NEW size \in ReadSizes, ReadResponses(size) \/ ReadFaults(size)
  PROVE  RingInv'
<1>1. CASE desync
  <2>1. desync' = TRUE
    BY <1>1, Zenon DEF ReadResponses, ReadFaults, RingInv
  <2>2. QED
    BY <2>1 DEF RingInv
<1>2. CASE ~desync
  <2>1. PICK pos : Laid(ring, pullPtr, pushPtr, unread, pos)
    BY <1>2 DEF RingInv
  <2>2. Queue /\ size \in Int
    BY <1>2, EfwHwdepAssumption DEF RingInv
  <2>3. ASSUME NEW n \in 0 .. Len(unread), NEW p, p = Advance(pullPtr, pos[n + 1]),
               Consume(n, p), UNCHANGED desync
        PROVE  RingInv'
    BY <1>2, <2>1, <2>2, <2>3, ConsumeInv DEF RingInv
  <2>4. DrainSteps(size) = DrainSteps(size) /\ Len(unread) \in Nat
    BY <2>2 DEF Queue
  <2>5. /\ Drained(size).n \in 0 .. Len(unread)
        /\ \A n \in 0 .. Drained(size).n :
             DrainSteps(size)[n].pull = Advance(pullPtr, pos[n + 1])
        /\ Drained(size).pull = Advance(pullPtr, pos[Drained(size).n + 1])
    BY <2>1, <2>2, DrainTakesOldest
  <2>6. CASE ReadResponses(size)
    <3>1. CASE size < HeaderLen
      <4>1. Consume(0, pullPtr) /\ UNCHANGED desync
        BY <2>6, <3>1 DEF ReadResponses
      <4>2. pos[0 + 1] = 0 /\ pullPtr \in Index /\ pullPtr \in Int
        BY <2>1, <2>2, RingIsThere DEF Laid, Starts, Queue, Index
      <4>3. pullPtr = Advance(pullPtr, pos[0 + 1])
        BY <4>2, AdvanceIn
      <4>4. 0 \in 0 .. Len(unread)
        BY <2>4
      <4>5. QED
        BY <4>1, <4>3, <4>4, <2>3
    <3>2. CASE ~(size < HeaderLen)
      <4>1. Consume(Drained(size).n, Drained(size).pull) /\ UNCHANGED desync
        BY <2>6, <3>2 DEF ReadResponses
      <4>2. QED
        BY <4>1, <2>3, <2>5
    <3>3. QED
      BY <3>1, <3>2
  <2>7. CASE ReadFaults(size)
    <3>1. PICK n \in 0 .. Drained(size).n - 1 :
            \/ Consume(n, DrainSteps(size)[n].pull) /\ UNCHANGED desync
            \/ desync' = TRUE
      BY <2>7, Zenon DEF ReadFaults
    <3>2. CASE Consume(n, DrainSteps(size)[n].pull) /\ UNCHANGED desync
      <4>1. n \in 0 .. Drained(size).n /\ n \in 0 .. Len(unread)
        BY <2>4, <2>5
      <4>2. QED
        BY <4>1, <3>2, <2>3, <2>5
    <3>3. CASE desync' = TRUE
      BY <3>3 DEF RingInv
    <3>4. QED
      BY <3>1, <3>2, <3>3
  <2>8. QED
    BY <2>6, <2>7
<1>3. QED
  BY <1>1, <1>2

LEMMA PushInv ==
  ASSUME RingInv, NEW claim \in ResponseLens, NEW got \in ResponseLens,
         PushResponse(claim, got)
  PROVE  RingInv'
<1> DEFINE n == IF claim < got THEN claim ELSE got
<1>1. claim \in Nat /\ got \in Nat /\ n \in Nat /\ n <= claim
  BY EfwHwdepAssumption
<1>2. /\ n <= Capacity
      /\ ring' = Written(nextId, claim, n) /\ pushPtr' = Advance(pushPtr, n)
      /\ respQueues' = respQueues + 1
      /\ unread' = Append(unread, [id |-> nextId, len |-> claim, stored |-> n])
      /\ nextId' = (nextId + 1) % Ids /\ pullPtr' = pullPtr
  BY DEF PushResponse
<1>3. desync' = (desync \/ n < claim \/ (respQueues > 0 /\ pushPtr = pullPtr))
  BY DEF PushResponse
<1>4. desync' \in BOOLEAN
  BY <1>3, Zenon
<1>5. CASE desync \/ n < claim \/ (respQueues > 0 /\ pushPtr = pullPtr)
  <2>1. desync'
    BY <1>3, <1>5
  <2>2. QED
    BY <1>4, <2>1 DEF RingInv
<1>6. CASE ~(desync \/ n < claim \/ (respQueues > 0 /\ pushPtr = pullPtr))
  <2>1. PICK pos : Laid(ring, pullPtr, pushPtr, unread, pos)
    BY <1>6 DEF RingInv
  <2>2. Queue
    BY <1>6 DEF RingInv
  <2>3. n = claim
    <3> HIDE DEF n
    <3>1. QED
      BY <1>1, <1>6
  <2> DEFINE u == pos[Len(unread) + 1]
             e == [id |-> nextId, len |-> claim, stored |-> n]
  <2>4. /\ respQueues = Len(unread) /\ Len(unread) \in Nat /\ pullPtr \in Index
        /\ pullPtr \in Int /\ nextId \in Nat /\ unread \in Seq(Response)
    BY <2>2, RingIsThere DEF Queue, Index
  <2>5. /\ u \in Nat /\ u <= RingSize /\ pushPtr = Advance(pullPtr, u) /\ pos[1] = 0
    BY <2>1, <2>4 DEF Laid, Starts
  <2>6. u # RingSize
    <3> SUFFICES ASSUME u = RingSize PROVE FALSE
      OBVIOUS
    <3>1. Len(unread) # 0
      BY <2>5, RingIsThere
    <3>2. Advance(pullPtr, RingSize) = pullPtr
      <4>1. pullPtr + RingSize = RingSize * 1 + pullPtr /\ 0 <= pullPtr /\ pullPtr < RingSize
        BY <2>4, RingIsThere DEF Index
      <4>2. (RingSize * 1 + pullPtr) % RingSize = pullPtr
        BY <2>4, <4>1, RingIsThere, Remainder
      <4>3. QED
        BY <4>1, <4>2 DEF Advance
    <3> HIDE DEF n
    <3>3. QED
      BY <3>1, <3>2, <2>4, <2>5, <1>6
  <2> HIDE DEF u
  <2>7. Capacity = RingSize - u
    BY <2>4, <2>5, <2>6, RingIsThere, Room
  <2>8. e \in Response /\ e.len = n /\ e.id = nextId /\ e.stored = e.len
    BY <1>1, <2>3, <2>4 DEF Response
  <2>9. e.len + u <= RingSize
    <3> HIDE DEF n, e
    <3>1. QED
      BY <1>1, <1>2, <2>5, <2>7, <2>8, RingIsThere
  <2> DEFINE r2 == [i \in Index |->
                      LET k == ((i - pushPtr) % RingSize) + 1
                      IN  IF k <= e.len THEN Quadlet(e.id, k, e.len) ELSE ring[i]]
  <2>10. ring' = r2 /\ pushPtr' = Advance(pushPtr, e.len) /\ unread' = Append(unread, e)
    <3>1. Written(nextId, n, n) = r2
      BY <2>8 DEF Written
    <3>2. QED
      BY <1>2, <2>3, <2>8, <3>1
  <2>11. \E pos2 : Laid(r2, pullPtr, Advance(pushPtr, e.len), Append(unread, e), pos2)
    <3> HIDE DEF e
    <3>1. e.len + pos[Len(unread) + 1] <= RingSize
      BY <2>9 DEF u
    <3>2. QED
      BY <3>1, <2>1, <2>4, <2>8, AddNewest
  <2>12. \A i \in Index : r2[i].len \in Nat
    <3> SUFFICES ASSUME NEW i \in Index PROVE r2[i].len \in Nat
      OBVIOUS
    <3> DEFINE k == ((i - pushPtr) % RingSize) + 1
    <3>1. r2[i] = IF k <= e.len THEN Quadlet(e.id, k, e.len) ELSE ring[i]
      OBVIOUS
    <3>2. e.len \in Nat
      BY <1>1, <2>8
    <3> HIDE DEF k, r2, e
    <3>3. Quadlet(e.id, k, e.len).len \in Nat
      BY <3>2, EfwHwdepAssumption DEF Quadlet
    <3>4. ring[i].len \in Nat
      BY <2>2 DEF Queue
    <3>5. QED
      BY <3>1, <3>3, <3>4
  <2> HIDE DEF e, r2
  <2>13. nextId' \in Nat
    BY <1>2, <2>4, EfwHwdepAssumption
  <2>14. /\ unread' \in Seq(Response) /\ Len(unread') = Len(unread) + 1
         /\ \A j \in 1 .. Len(unread') : unread'[j].stored = unread'[j].len
    <3>1. unread' \in Seq(Response) /\ Len(unread') = Len(unread) + 1
      BY <2>4, <2>8, <2>10
    <3>2. ASSUME NEW j \in 1 .. Len(unread') PROVE unread'[j].stored = unread'[j].len
      <4>1. CASE j = Len(unread) + 1
        <5>1. unread'[j] = e
          BY <4>1, <2>4, <2>10
        <5>2. QED
          BY <5>1, <2>8
      <4>2. CASE j # Len(unread) + 1
        <5>1. j \in 1 .. Len(unread)
          BY <4>2, <3>1, <2>4
        <5>2. unread'[j] = unread[j]
          BY <5>1, <2>4, <2>10
        <5>3. QED
          BY <5>1, <5>2, <2>2 DEF Queue
      <4>3. QED
        BY <4>1, <4>2
    <3>3. QED
      BY <3>1, <3>2
  <2>15. Queue'
    BY <1>2, <2>4, <2>10, <2>12, <2>13, <2>14 DEF Queue
  <2>16. QED
    BY <1>2, <1>4, <2>10, <2>11, <2>15 DEF RingInv
<1>7. QED
  BY <1>5, <1>6

LEMMA RingNextInv == RingInv /\ [HwdepNext]_hwdepVars => RingInv'
<1> SUFFICES ASSUME RingInv, [HwdepNext]_hwdepVars PROVE RingInv'
  OBVIOUS
<1>1. UNCHANGED <<ringVars, ghostVars>> => RingInv'
  BY DEF ringVars, ghostVars, RingInv, Queue, Laid
<1>2. CASE \E claim, got \in ResponseLens : PushResponse(claim, got)
  BY <1>2, PushInv
<1>3. ASSUME NEW r \in Readers, ReadEvent(r) PROVE RingInv'
  BY <1>1, <1>3, ReadInv DEF ReadEvent
<1>4. ASSUME NEW r \in Readers, ReadSleeps(r) \/ ReadInterrupted(r) PROVE RingInv'
  BY <1>1, <1>4 DEF ReadSleeps, ReadInterrupted
<1>5. CASE LockStep
  BY <1>1, <1>5 DEF LockStep
<1>6. CASE UNCHANGED hwdepVars
  BY <1>1, <1>6 DEF hwdepVars
<1>7. QED
  BY <1>2, <1>3, <1>4, <1>5, <1>6 DEF HwdepNext

\* Until a response is lost, the ring is the queue of the responses that have arrived and
\* not been read, whatever the size of the ring, the lengths of the responses and the
\* sizes of the reads.
THEOREM RingIsQueue == HwdepSpec => []RingHoldsUnread
<1>1. RingInv => RingHoldsUnread
  <2> SUFFICES ASSUME RingInv, ~desync PROVE RingHoldsUnread
    BY DEF RingHoldsUnread
  <2>1. PICK pos : Laid(ring, pullPtr, pushPtr, unread, pos)
    BY DEF RingInv
  <2>2. Queue
    BY DEF RingInv
  <2>3. \A j \in 1 .. Len(unread) + 1 : Offset(j) = pos[j]
    BY <2>1, <2>2, OffsetIs DEF Laid
  <2>4. respQueues = Len(unread) /\ Len(unread) \in Nat
    BY <2>2 DEF Queue
  <2>5. pushPtr = Advance(pullPtr, Offset(Len(unread) + 1))
    <3>1. Len(unread) + 1 \in 1 .. Len(unread) + 1
      BY <2>4
    <3>2. QED
      BY <3>1, <2>1, <2>3 DEF Laid
  <2>6. ASSUME NEW j \in 1 .. Len(unread), NEW k \in 1 .. unread[j].len
        PROVE  ring[Advance(pullPtr, Offset(j) + k - 1)]
                 = Quadlet(unread[j].id, k, unread[j].len)
    <3>1. j \in 1 .. Len(unread) + 1
      BY <2>4
    <3>2. Offset(j) = pos[j]
      BY <3>1, <2>3
    <3>3. QED
      BY <3>2, <2>1 DEF Laid
  <2>7. QED
    BY <2>4, <2>5, <2>6 DEF RingHoldsUnread
<1>2. QED
  BY <1>1, RingInit, RingNextInv, PTL DEF HwdepSpec
=============================================================================
