----------------------------- MODULE CmpProofs -----------------------------
(***************************************************************************)
(* Proofs about Cmp, for any set of channels and any number of bus resets  *)
(* and of connections that the other controller makes.                     *)
(***************************************************************************)
EXTENDS Cmp, TLAPS

AppCritical == {"gen", "wait", "alloc", "swap", "retry", "undo", "brkswap", "brkfree"}
UpdCritical == {"gen", "alloc", "swap", "undo"}

\* c->mutex excludes the two threads from each other.
Exclusion ==
  /\ mutex = "app" <=> pc["app"] \in AppCritical
  /\ mutex = "upd" <=> pc["upd"] \in UpdCritical
  /\ pc["upd"] \in UpdCritical \cup {"idle", "lock"}

\* Establish runs while the connection is down, update and break while it is
\* up, and it is up only with resources.
Connectedness ==
  /\ pc["app"] \in {"lock", "gen", "wait", "alloc", "swap", "retry", "undo"} => ~connected
  /\ pc["app"] \in {"brkswap", "brkfree"} => connected
  /\ pc["upd"] \in UpdCritical => connected
  /\ pc["app"] \in {"wait", "alloc"} => ~allocated
  /\ pc["app"] \in {"swap", "retry", "undo"} => allocated
  /\ connected => allocated
  /\ allocated /\ ~abandoned => connected \/ pc["app"] \in {"swap", "retry", "undo"}

\* What r->allocated stands for, except while the update handler has noted the
\* new generation and not yet allocated in it; and whose the channels are that
\* the IRM holds for this node.
Allocation ==
  /\ rgen <= generation
  /\ allocated /\ Current /\ pc["upd"] # "alloc" => irm[channel] = "us"
  /\ \A ch \in Channels : irm[ch] = "us" =>
       \/ ch \in leaked
       \/ /\ allocated /\ Current /\ channel = ch
          /\ connected \/ pc["app"] \in {"swap", "undo"}

\* What a connection stands for, except while it is made again or undone.
Connection ==
  /\ owner \in Ours => Current /\ pcr.conn # 0
  /\ (/\ connected /\ Current
      /\ pc["upd"] \notin {"alloc", "swap", "undo"}
      /\ pc["app"] # "brkfree")
       => pcr.conn # 0 /\ owner \in Ours /\ pcr.ch = channel
  /\ ~doubled /\ ~failed /\ owner \in Ours =>
       /\ connected
       /\ pc["upd"] \notin {"alloc", "swap", "undo"}
       /\ pc["app"] # "brkfree"

IInv == TypeOK /\ Exclusion /\ Connectedness /\ Allocation /\ Connection

----------------------------------------------------------------------------

\* In the initial state nothing is allocated and nobody is in an operation.
LEMMA InitInv == Init => IInv
<1> SUFFICES ASSUME Init PROVE IInv
  OBVIOUS
<1> USE IsoAssumption, CmpAssumption DEF Init, IsoInit
<1>1. TypeOK
  <2>1. PICK zero \in Channels : last = [online |-> TRUE, conn |-> 0, ch |-> zero]
    BY DEF Init
  <2>2. [online |-> TRUE, conn |-> 0, ch |-> zero] \in Pcr
    BY DEF Pcr
  <2>3. last \in Pcr /\ expect \in Pcr /\ pcr \in Pcr
    BY <2>1, <2>2
  <2>4. IsoTypeOK
    <3>1. generation \in 0 .. MaxGen /\ rgen \in 0 .. MaxGen /\ channel \in Channels
      OBVIOUS
    <3>2. irm \in [Channels -> Holders]
      BY DEF Holders
    <3>3. allocated \in BOOLEAN /\ leaked \subseteq Channels
      BY Zenon
    <3>4. QED
      BY <3>1, <3>2, <3>3 DEF IsoTypeOK
  <2>5. pc \in [Threads -> PCs]
    BY DEF PCs
  <2>6. others \in 0 .. MaxOther
    OBVIOUS
  <2>7. connected \in BOOLEAN /\ pending \in BOOLEAN /\ doubled \in BOOLEAN /\ failed \in BOOLEAN
         /\ abandoned \in BOOLEAN
    BY Zenon
  <2>8. QED
    BY <2>3, <2>4, <2>5, <2>6, <2>7 DEF TypeOK
<1>2. Exclusion /\ Connectedness
  BY DEF Exclusion, Connectedness, AppCritical, UpdCritical, Threads
<1>3. Allocation
  BY DEF Allocation, Current
<1>4. Connection
  BY DEF Connection, Ours, Current
<1>5. QED
  BY <1>1, <1>2, <1>3, <1>4 DEF IInv

\* The operations of the resource object keep the types of its variables.
LEMMA IsoTypes ==
  ASSUME IsoTypeOK,
         \/ UNCHANGED isoVars
         \/ ReadGeneration \/ Allocate \/ AllocateFails
         \/ Reallocate \/ ReallocateFails \/ Free
  PROVE  IsoTypeOK'
BY DEF IsoTypeOK, Holders, isoVars, ReadGeneration, Allocate, AllocateFails,
   Reallocate, ReallocateFails, Free, Deallocate, DeallocateFails, Current

\* What the modify functions leave in the register.
LEMMA Modifies ==
  ASSUME NEW v \in Pcr, channel \in Channels
  PROVE  /\ SetModify(v) \in Pcr /\ SetModify(v).conn = 1 /\ SetModify(v).ch = channel
         /\ BreakModify(v) \in Pcr /\ BreakModify(v).conn = 0
<1> USE DEF Pcr
<1>1. SetModify(v) \in Pcr /\ SetModify(v).conn = 1 /\ SetModify(v).ch = channel
  BY DEF SetModify
<1>2. BreakModify(v) \in Pcr /\ BreakModify(v).conn = 0
  BY DEF BreakModify
<1>3. QED
  BY <1>1, <1>2

LEMMA EstablishInv ==
  ASSUME IInv, EstablishCall \/ Establish
  PROVE  IInv'
<1> USE IsoAssumption, CmpAssumption
    DEF IInv, TypeOK, IsoTypeOK, Holders, Pcr, PCs, Threads, Exclusion,
        Connectedness, Allocation, Connection, Ours, AppCritical, UpdCritical,
        isoVars, cmpVars, plugVars, histVars, Goto, Current
<1>1. CASE EstablishCall
  BY <1>1 DEF EstablishCall
<1>2. CASE EstablishLock
  BY <1>2 DEF EstablishLock, Lock
<1>3. CASE EstablishRefused
  BY <1>3 DEF EstablishRefused, Unlock
<1>4. CASE EstablishGeneration
  BY <1>4 DEF EstablishGeneration, ReadGeneration
<1>5. CASE EstablishWait
  BY <1>5 DEF EstablishWait, Unlock
<1>6. CASE EstablishAllocate
  <2>1. TypeOK'
    <3>1. IsoTypeOK'
      BY <1>6, IsoTypes DEF EstablishAllocate
    <3>2. pc' \in [Threads -> PCs] /\ mutex' \in Threads \cup {"none"}
      <4>1. \E l \in PCs : pc' = [pc EXCEPT !["app"] = l]
        BY <1>6 DEF EstablishAllocate, Unlock
      <4>2. mutex' \in {mutex, "none"}
        BY <1>6 DEF EstablishAllocate, Unlock
      <4>3. QED
        BY <4>1, <4>2
    <3>3. (last \in Pcr /\ expect \in Pcr /\ pcr \in Pcr)'
      BY <1>6 DEF EstablishAllocate
    <3> HIDE DEF Pcr, IsoTypeOK
    <3>4. QED
      BY <1>6, <3>1, <3>2, <3>3 DEF EstablishAllocate
  <2>2. Exclusion'
    BY <1>6 DEF EstablishAllocate, Unlock, Allocate, AllocateFails
  <2>3. Connectedness'
    BY <1>6 DEF EstablishAllocate, Unlock, Allocate, AllocateFails
  <2>4. Allocation'
    BY <1>6 DEF EstablishAllocate, Unlock, Allocate, AllocateFails
  <2>5. Connection'
    BY <1>6 DEF EstablishAllocate, Unlock, Allocate, AllocateFails
  <2>6. QED
    BY <2>1, <2>2, <2>3, <2>4, <2>5
<1>7. CASE EstablishConnected
  <2>0. SetModify(expect) \in Pcr /\ SetModify(expect).conn = 1 /\ SetModify(expect).ch = channel
    <3> HIDE DEF Pcr
    <3>1. QED
      BY Modifies
  <2>1. TypeOK'
    <3>1. IsoTypeOK'
      BY <1>7, IsoTypes DEF EstablishConnected, SwapSucceeds
    <3> HIDE DEF Pcr, IsoTypeOK
    <3>2. QED
      BY <1>7, <2>0, <3>1 DEF EstablishConnected, Unlock, SwapSucceeds
  <2>2. Exclusion'
    BY <1>7 DEF EstablishConnected, Unlock, SwapSucceeds, SetModify, SwapCurrent
  <2>3. Connectedness'
    <3>1. allocated /\ allocated' = allocated
      BY <1>7 DEF EstablishConnected, SwapSucceeds
    <3>2. QED
      BY <1>7, <3>1 DEF EstablishConnected, Unlock, SwapSucceeds
  <2>4. Allocation'
    BY <1>7 DEF EstablishConnected, Unlock, SwapSucceeds, SetModify, SwapCurrent
  <2>5. Connection'
    <3> HIDE DEF Pcr
    <3>1. QED
      BY <1>7, <2>0 DEF EstablishConnected, Unlock, SwapSucceeds, SwapCurrent
  <2>6. QED
    BY <2>1, <2>2, <2>3, <2>4, <2>5
<1>8. CASE EstablishSwapAgain
  BY <1>8 DEF EstablishSwapAgain, SwapAgain, SetCheck, SwapCurrent
<1>9. CASE EstablishPlugBusy
  BY <1>9 DEF EstablishPlugBusy, SwapCurrent, SetCheck
<1>10. CASE EstablishSwapFails
  <2>1. TypeOK'
    <3>1. IsoTypeOK'
      BY <1>10, IsoTypes DEF EstablishSwapFails, SwapFails
    <3> HIDE DEF Pcr
    <3>2. SetModify(expect) \in Pcr
      BY Modifies
    <3> HIDE DEF IsoTypeOK
    <3>3. QED
      BY <1>10, <3>1, <3>2 DEF EstablishSwapFails, SwapFails
  <2>2. (Exclusion /\ Connectedness)'
    BY <1>10 DEF EstablishSwapFails, SwapFails
  <2>3. Allocation'
    BY <1>10 DEF EstablishSwapFails, SwapFails
  <2>4. Connection'
    <3> HIDE DEF Pcr
    <3>1. SetModify(expect).conn = 1 /\ SetModify(expect).ch = channel
      BY Modifies
    <3>2. QED
      BY <1>10, <3>1 DEF EstablishSwapFails, SwapFails, SwapCurrent
  <2>5. QED
    BY <2>1, <2>2, <2>3, <2>4
<1>11. CASE EstablishSwapReset
  BY <1>11 DEF EstablishSwapReset, SwapCurrent
<1>12. CASE EstablishRetry
  <2>1. TypeOK'
    <3>1. IsoTypeOK'
      BY <1>12, IsoTypes DEF EstablishRetry
    <3> HIDE DEF Pcr, IsoTypeOK
    <3>2. QED
      BY <1>12, <3>1 DEF EstablishRetry
  <2>2. Exclusion'
    BY <1>12 DEF EstablishRetry, Free, Deallocate, DeallocateFails
  <2>3. Connectedness'
    BY <1>12 DEF EstablishRetry, Free, Deallocate, DeallocateFails
  <2>4. Allocation'
    BY <1>12 DEF EstablishRetry, Free, Deallocate, DeallocateFails
  <2>5. Connection'
    BY <1>12 DEF EstablishRetry, Free, Deallocate, DeallocateFails
  <2>6. QED
    BY <2>1, <2>2, <2>3, <2>4, <2>5
<1>13. CASE EstablishUndo
  <2>1. TypeOK'
    <3>1. IsoTypeOK'
      BY <1>13, IsoTypes DEF EstablishUndo
    <3> HIDE DEF Pcr, IsoTypeOK
    <3>2. QED
      BY <1>13, <3>1 DEF EstablishUndo, Unlock
  <2>2. Exclusion'
    BY <1>13 DEF EstablishUndo, Unlock, Free, Deallocate, DeallocateFails
  <2>3. Connectedness'
    BY <1>13 DEF EstablishUndo, Unlock, Free, Deallocate, DeallocateFails
  <2>4. Allocation'
    BY <1>13 DEF EstablishUndo, Unlock, Free, Deallocate, DeallocateFails
  <2>5. Connection'
    BY <1>13 DEF EstablishUndo, Unlock, Free, Deallocate, DeallocateFails
  <2>6. QED
    BY <2>1, <2>2, <2>3, <2>4, <2>5
<1>14. QED
  BY <1>1, <1>2, <1>3, <1>4, <1>5, <1>6, <1>7, <1>8, <1>9, <1>10, <1>11, <1>12, <1>13 DEF Establish

LEMMA UpdateInv ==
  ASSUME IInv, UpdateCall \/ Update
  PROVE  IInv'
<1> USE IsoAssumption, CmpAssumption
    DEF IInv, TypeOK, IsoTypeOK, Holders, Pcr, PCs, Threads, Exclusion,
        Connectedness, Allocation, Connection, Ours, AppCritical, UpdCritical,
        isoVars, cmpVars, plugVars, histVars, Goto, Current
<1>1. CASE UpdateCall
  <2>1. TypeOK'
    <3> HIDE DEF Pcr
    <3>1. QED
      BY <1>1 DEF UpdateCall
  <2>2. Exclusion'
    BY <1>1 DEF UpdateCall
  <2>3. Connectedness'
    BY <1>1 DEF UpdateCall
  <2>4. Allocation'
    BY <1>1 DEF UpdateCall
  <2>5. Connection'
    BY <1>1 DEF UpdateCall
  <2>6. QED
    BY <2>1, <2>2, <2>3, <2>4, <2>5
<1>2. CASE UpdateLock
  BY <1>2 DEF UpdateLock, Lock
<1>3. CASE UpdateGeneration
  <2>1. TypeOK'
    <3>1. IsoTypeOK'
      BY <1>3, IsoTypes DEF UpdateGeneration
    <3> HIDE DEF Pcr, IsoTypeOK
    <3>2. QED
      BY <1>3, <3>1 DEF UpdateGeneration
  <2>2. (Exclusion /\ Connectedness)'
    BY <1>3 DEF UpdateGeneration, ReadGeneration
  <2>3. Allocation'
    BY <1>3 DEF UpdateGeneration, ReadGeneration
  <2>4. Connection'
    BY <1>3 DEF UpdateGeneration, ReadGeneration
  <2>5. QED
    BY <2>1, <2>2, <2>3, <2>4
<1>4. CASE UpdateAllocate
  <2>1. TypeOK'
    <3>1. IsoTypeOK'
      BY <1>4, IsoTypes DEF UpdateAllocate
    <3>2. connected' \in BOOLEAN
      BY <1>4 DEF UpdateAllocate
    <3>3. pc' \in [Threads -> PCs] /\ mutex' \in Threads \cup {"none"}
      <4>1. \E l \in PCs : pc' = [pc EXCEPT !["upd"] = l]
        BY <1>4 DEF UpdateAllocate, Unlock
      <4>2. mutex' \in {mutex, "none"}
        BY <1>4 DEF UpdateAllocate, Unlock
      <4>3. QED
        BY <4>1, <4>2
    <3>4. (last \in Pcr /\ expect \in Pcr /\ pcr \in Pcr)'
      BY <1>4 DEF UpdateAllocate
    <3> HIDE DEF Pcr, IsoTypeOK
    <3>5. QED
      BY <1>4, <3>1, <3>2, <3>3, <3>4 DEF UpdateAllocate
  <2>2. Exclusion'
    BY <1>4 DEF UpdateAllocate, Unlock, Reallocate, ReallocateFails
  <2>3. Connectedness'
    BY <1>4 DEF UpdateAllocate, Unlock, Reallocate, ReallocateFails
  <2>4. Allocation'
    <3>0. pc["upd"] = "alloc" /\ connected /\ allocated
      BY <1>4 DEF UpdateAllocate
    <3>1. CASE Reallocate /\ connected' = connected
      <4>1. /\ irm' = [irm EXCEPT ![channel] = "us"] /\ leaked' = leaked
            /\ Current' /\ channel' = channel /\ allocated' /\ rgen' <= generation'
        BY <3>0, <3>1 DEF Reallocate
      <4>2. \A ch \in Channels : irm'[ch] = "us" => ch = channel \/ irm[ch] = "us"
        BY <4>1
      <4>3. irm'[channel] = "us"
        BY <4>1
      <4>4. QED
        BY <3>0, <3>1, <4>1, <4>2, <4>3
    <3>2. CASE ReallocateFails
      <4>1. ~allocated' /\ rgen' <= generation'
        BY <3>2 DEF ReallocateFails
      <4>2. \A ch \in Channels : irm'[ch] = "us" => ch = channel \/ irm[ch] = "us"
        BY <3>2 DEF ReallocateFails
      <4>3. \A ch \in Channels : irm'[ch] = "us" => ch \in leaked'
        BY <3>2, <4>2 DEF ReallocateFails
      <4>4. QED
        BY <4>1, <4>3
    <3>3. CASE ~Current /\ UNCHANGED isoVars
      BY <3>0, <3>3
    <3>4. QED
      BY <1>4, <3>1, <3>2, <3>3 DEF UpdateAllocate
  <2>5. Connection'
    BY <1>4 DEF UpdateAllocate, Unlock, Reallocate, ReallocateFails
  <2>6. QED
    BY <2>1, <2>2, <2>3, <2>4, <2>5
<1>5. CASE UpdateConnected
  <2>0. SetModify(expect) \in Pcr /\ SetModify(expect).conn = 1 /\ SetModify(expect).ch = channel
    <3> HIDE DEF Pcr
    <3>1. QED
      BY Modifies
  <2>1. TypeOK'
    <3>1. IsoTypeOK'
      BY <1>5, IsoTypes DEF UpdateConnected, SwapSucceeds
    <3> HIDE DEF Pcr, IsoTypeOK
    <3>2. QED
      BY <1>5, <2>0, <3>1 DEF UpdateConnected, Unlock, SwapSucceeds
  <2>2. (Exclusion /\ Connectedness)'
    BY <1>5 DEF UpdateConnected, Unlock, SwapSucceeds
  <2>3. Allocation'
    BY <1>5 DEF UpdateConnected, Unlock, SwapSucceeds
  <2>4. Connection'
    <3> HIDE DEF Pcr
    <3>1. QED
      BY <1>5, <2>0 DEF UpdateConnected, Unlock, SwapSucceeds, SwapCurrent
  <2>5. QED
    BY <2>1, <2>2, <2>3, <2>4
<1>6. CASE UpdateSwapReset
  BY <1>6 DEF UpdateSwapReset, Unlock, SwapCurrent
<1>7. CASE UpdateSwapAgain
  BY <1>7 DEF UpdateSwapAgain, SwapAgain, SetCheck, SwapCurrent
<1>8. CASE UpdatePlugBusy
  BY <1>8 DEF UpdatePlugBusy, SwapCurrent, SetCheck
<1>9. CASE UpdateSwapFails
  <2>1. TypeOK'
    <3>1. IsoTypeOK'
      BY <1>9, IsoTypes DEF UpdateSwapFails, SwapFails
    <3> HIDE DEF Pcr
    <3>2. SetModify(expect) \in Pcr
      BY Modifies
    <3> HIDE DEF IsoTypeOK
    <3>3. QED
      BY <1>9, <3>1, <3>2 DEF UpdateSwapFails, SwapFails
  <2>2. (Exclusion /\ Connectedness)'
    BY <1>9 DEF UpdateSwapFails, SwapFails
  <2>3. Allocation'
    BY <1>9 DEF UpdateSwapFails, SwapFails
  <2>4. Connection'
    <3> HIDE DEF Pcr
    <3>1. SetModify(expect).conn = 1 /\ SetModify(expect).ch = channel
      BY Modifies
    <3>2. QED
      BY <1>9, <3>1 DEF UpdateSwapFails, SwapFails, SwapCurrent
  <2>5. QED
    BY <2>1, <2>2, <2>3, <2>4
<1>10. CASE UpdateUndo
  <2>1. TypeOK'
    <3>1. IsoTypeOK'
      BY <1>10, IsoTypes DEF UpdateUndo
    <3> HIDE DEF Pcr, IsoTypeOK
    <3>2. QED
      BY <1>10, <3>1 DEF UpdateUndo, Unlock
  <2>2. Exclusion'
    BY <1>10 DEF UpdateUndo, Unlock, Free, Deallocate, DeallocateFails
  <2>3. Connectedness'
    BY <1>10 DEF UpdateUndo, Unlock, Free, Deallocate, DeallocateFails
  <2>4. Allocation'
    BY <1>10 DEF UpdateUndo, Unlock, Free, Deallocate, DeallocateFails
  <2>5. Connection'
    BY <1>10 DEF UpdateUndo, Unlock, Free, Deallocate, DeallocateFails
  <2>6. QED
    BY <2>1, <2>2, <2>3, <2>4, <2>5
<1>11. QED
  BY <1>1, <1>2, <1>3, <1>4, <1>5, <1>6, <1>7, <1>8, <1>9, <1>10 DEF Update

LEMMA BreakInv ==
  ASSUME IInv, BreakCall \/ Break
  PROVE  IInv'
<1> USE IsoAssumption, CmpAssumption
    DEF IInv, TypeOK, IsoTypeOK, Holders, Pcr, PCs, Threads, Exclusion,
        Connectedness, Allocation, Connection, Ours, AppCritical, UpdCritical,
        isoVars, cmpVars, plugVars, histVars, Goto, Current
<1>1. CASE BreakCall
  BY <1>1 DEF BreakCall
<1>2. CASE BreakLock
  BY <1>2 DEF BreakLock, Lock
<1>3. CASE BreakSwap
  BY <1>3 DEF BreakSwap, SwapSucceeds, BreakModify, SwapCurrent
<1>4. CASE BreakSwapReset
  BY <1>4 DEF BreakSwapReset, SwapCurrent
<1>5. CASE BreakSwapAgain
  BY <1>5 DEF BreakSwapAgain, SwapAgain, SwapCurrent
<1>6. CASE BreakSwapFails
  <2>1. TypeOK'
    <3>1. IsoTypeOK'
      BY <1>6, IsoTypes DEF BreakSwapFails, SwapFails
    <3>2. BreakModify(expect) \in Pcr
      BY DEF BreakModify
    <3> HIDE DEF Pcr, IsoTypeOK
    <3>3. QED
      BY <1>6, <3>1, <3>2 DEF BreakSwapFails, SwapFails
  <2>2. (Exclusion /\ Connectedness)'
    BY <1>6 DEF BreakSwapFails, SwapFails
  <2>3. Allocation'
    BY <1>6 DEF BreakSwapFails, SwapFails
  <2>4. Connection'
    BY <1>6 DEF BreakSwapFails, SwapFails, BreakModify, SwapCurrent
  <2>5. QED
    BY <2>1, <2>2, <2>3, <2>4
<1>7. CASE BreakFree
  <2>1. TypeOK'
    <3>1. IsoTypeOK'
      BY <1>7, IsoTypes DEF BreakFree
    <3> HIDE DEF Pcr, IsoTypeOK
    <3>2. QED
      BY <1>7, <3>1 DEF BreakFree, Unlock
  <2>2. Exclusion'
    BY <1>7 DEF BreakFree, Unlock, Free, Deallocate, DeallocateFails
  <2>3. Connectedness'
    BY <1>7 DEF BreakFree, Unlock, Free, Deallocate, DeallocateFails
  <2>4. Allocation'
    BY <1>7 DEF BreakFree, Unlock, Free, Deallocate, DeallocateFails
  <2>5. Connection'
    BY <1>7 DEF BreakFree, Unlock, Free, Deallocate, DeallocateFails
  <2>6. QED
    BY <2>1, <2>2, <2>3, <2>4, <2>5
<1>8. QED
  BY <1>1, <1>2, <1>3, <1>4, <1>5, <1>6, <1>7 DEF Break

\* The other controller, the device and the bus reset preserve IInv: they touch
\* a channel or a connection of this driver only by the reset, and then it is
\* not Current.
LEMMA EnvironmentInv ==
  ASSUME IInv,
         \/ PlugToggles \/ BusReset \/ OtherOverlays \/ OtherLeaves
         \/ \E ch \in Channels : OtherConnects(ch) \/ OtherDisconnects(ch)
  PROVE  IInv'
<1> USE IsoAssumption, CmpAssumption
    DEF IInv, TypeOK, IsoTypeOK, Holders, Pcr, PCs, Threads, Exclusion,
        Connectedness, Allocation, Connection, Ours, AppCritical, UpdCritical,
        isoVars, cmpVars, plugVars, histVars, Current
<1>1. CASE BusReset
  <2>1. TypeOK'
    <3>1. IsoTypeOK'
      BY <1>1 DEF BusReset, IrmReset
    <3>2. BreakModify(pcr) \in Pcr
      BY DEF BreakModify
    <3> HIDE DEF Pcr, IsoTypeOK
    <3>3. QED
      BY <1>1, <3>1, <3>2 DEF BusReset
  <2>2. (Exclusion /\ Connectedness)'
    BY <1>1 DEF BusReset, IrmReset
  <2>3. Allocation'
    BY <1>1 DEF BusReset, IrmReset
  <2>4. Connection'
    BY <1>1 DEF BusReset, IrmReset
  <2>5. QED
    BY <2>1, <2>2, <2>3, <2>4
<1>2. ASSUME NEW ch \in Channels, OtherConnects(ch) PROVE IInv'
  <2>1. TypeOK'
    <3>1. IsoTypeOK'
      BY <1>2 DEF OtherConnects, OtherAllocates
    <3>2. [pcr EXCEPT !.conn = 1, !.ch = ch] \in Pcr
      <4>1. [pcr EXCEPT !.conn = 1] \in Pcr
        OBVIOUS
      <4>2. QED
        BY <4>1
    <3>3. others' \in 0 .. MaxOther
      <4>1. others \in 0 .. MaxOther /\ others < MaxOther /\ others' = others + 1
        BY <1>2 DEF OtherConnects
      <4>2. QED
        BY <4>1
    <3> HIDE DEF Pcr, IsoTypeOK
    <3>4. QED
      BY <1>2, <3>1, <3>2, <3>3 DEF OtherConnects
  <2>2. (Exclusion /\ Connectedness)'
    BY <1>2 DEF OtherConnects, OtherAllocates
  <2>3. Allocation'
    BY <1>2 DEF OtherConnects, OtherAllocates
  <2>4. Connection'
    BY <1>2 DEF OtherConnects, OtherAllocates
  <2>5. QED
    BY <2>1, <2>2, <2>3, <2>4
<1>3. ASSUME NEW ch \in Channels, OtherDisconnects(ch) PROVE IInv'
  <2>1. TypeOK'
    <3>1. IsoTypeOK'
      BY <1>3 DEF OtherDisconnects, OtherFrees
    <3>2. BreakModify(pcr) \in Pcr
      BY DEF BreakModify
    <3> HIDE DEF Pcr, IsoTypeOK
    <3>3. QED
      BY <1>3, <3>1, <3>2 DEF OtherDisconnects
  <2>2. (Exclusion /\ Connectedness)'
    BY <1>3 DEF OtherDisconnects, OtherFrees
  <2>3. Allocation'
    BY <1>3 DEF OtherDisconnects, OtherFrees
  <2>4. Connection'
    BY <1>3 DEF OtherDisconnects, OtherFrees
  <2>5. QED
    BY <2>1, <2>2, <2>3, <2>4
<1>4. CASE PlugToggles
  <2>1. TypeOK'
    <3>1. IsoTypeOK'
      BY <1>4 DEF PlugToggles
    <3>2. [pcr EXCEPT !.online = ~@] \in Pcr
      OBVIOUS
    <3>3. others' \in 0 .. MaxOther
      <4>1. others \in 0 .. MaxOther /\ others < MaxOther /\ others' = others + 1
        BY <1>4 DEF PlugToggles
      <4>2. QED
        BY <4>1
    <3> HIDE DEF Pcr, IsoTypeOK
    <3>4. QED
      BY <1>4, <3>1, <3>2, <3>3 DEF PlugToggles
  <2>2. (Exclusion /\ Connectedness)'
    BY <1>4 DEF PlugToggles
  <2>3. Allocation'
    BY <1>4 DEF PlugToggles
  <2>4. Connection'
    <3>1. pcr'.conn = pcr.conn /\ pcr'.ch = pcr.ch
      BY <1>4 DEF PlugToggles
    <3>2. QED
      BY <1>4, <3>1 DEF PlugToggles
  <2>5. QED
    BY <2>1, <2>2, <2>3, <2>4
<1>5. CASE OtherOverlays
  <2>1. TypeOK'
    <3>1. IsoTypeOK'
      BY <1>5 DEF OtherOverlays
    <3>2. [pcr EXCEPT !.conn = 2] \in Pcr
      OBVIOUS
    <3>3. others' \in 0 .. MaxOther
      <4>1. others \in 0 .. MaxOther /\ others < MaxOther /\ others' = others + 1
        BY <1>5 DEF OtherOverlays
      <4>2. QED
        BY <4>1
    <3> HIDE DEF Pcr, IsoTypeOK
    <3>4. QED
      BY <1>5, <3>1, <3>2, <3>3 DEF OtherOverlays
  <2>2. (Exclusion /\ Connectedness)'
    BY <1>5 DEF OtherOverlays
  <2>3. Allocation'
    BY <1>5 DEF OtherOverlays
  <2>4. Connection'
    <3>1. pcr'.conn = 2 /\ pcr'.ch = pcr.ch /\ owner' = "both" /\ owner \in Ours
      BY <1>5 DEF OtherOverlays
    <3>2. QED
      BY <1>5, <3>1 DEF OtherOverlays
  <2>5. QED
    BY <2>1, <2>2, <2>3, <2>4
<1>6. CASE OtherLeaves
  <2>1. TypeOK'
    <3>1. IsoTypeOK'
      BY <1>6 DEF OtherLeaves
    <3>2. [pcr EXCEPT !.conn = 1] \in Pcr
      OBVIOUS
    <3> HIDE DEF Pcr, IsoTypeOK
    <3>3. QED
      BY <1>6, <3>1, <3>2 DEF OtherLeaves
  <2>2. (Exclusion /\ Connectedness)'
    BY <1>6 DEF OtherLeaves
  <2>3. Allocation'
    BY <1>6 DEF OtherLeaves
  <2>4. Connection'
    <3>1. pcr'.conn = 1 /\ pcr'.ch = pcr.ch /\ owner' = "us" /\ owner \in Ours
      BY <1>6 DEF OtherLeaves
    <3>2. QED
      BY <1>6, <3>1 DEF OtherLeaves
  <2>5. QED
    BY <2>1, <2>2, <2>3, <2>4
<1>7. QED
  BY <1>1, <1>2, <1>3, <1>4, <1>5, <1>6

\* IInv is inductive.
LEMMA NextInv == IInv /\ [Next]_vars => IInv'
<1> SUFFICES ASSUME IInv, [Next]_vars PROVE IInv'
  OBVIOUS
<1>1. CASE Next
  BY <1>1, EstablishInv, UpdateInv, BreakInv, EnvironmentInv DEF Next
<1>2. CASE UNCHANGED vars
  BY <1>2 DEF vars, isoVars, cmpVars, plugVars, histVars, IInv, TypeOK,
     IsoTypeOK, Exclusion, Connectedness, Allocation, Connection, Ours, Current
<1>3. QED
  BY <1>1, <1>2

\* The inductive invariant holds of every behaviour.
THEOREM Invariance == Spec => []IInv
<1>1. QED
  BY InitInv, NextInv, PTL DEF Spec

----------------------------------------------------------------------------

\* Every variable keeps its type; a failed allocation never leaves an error
\* code in r->channel.
THEOREM TypeCorrect == Spec => []TypeOK
<1>1. IInv => TypeOK
  BY DEF IInv
<1>2. QED
  BY <1>1, Invariance, PTL

\* Between operations `connected' means that the plug holds this driver's
\* connection, on the channel this driver holds.
THEOREM ConnectionsAreReal == Spec => []ConnectionIsReal
<1>1. IInv => ConnectionIsReal
  BY DEF IInv, Exclusion, Connection, AppCritical, UpdCritical, TypeOK,
     Threads, PCs, Ours, Unlocked, ConnectionIsReal
<1>2. QED
  BY <1>1, Invariance, PTL

\* fw_iso_resources_free() only frees a channel of this node.
THEOREM AllocationsAreReal == Spec => []AllocationIsReal
<1>1. IInv => AllocationIsReal
  BY DEF IInv, Exclusion, Allocation, UpdCritical, Unlocked, AllocationIsReal
<1>2. QED
  BY <1>1, Invariance, PTL

\* A channel the IRM holds for this node is the one its connection uses, or one
\* whose own lock transaction failed; and resources stay allocated without a
\* connection only after an update that a reset overtook.
THEOREM NoChannelsLeak == Spec => []NoChannelLeak
<1>1. IInv => NoChannelLeak
  BY DEF IInv, Exclusion, Connectedness, Allocation, AppCritical, Unlocked, NoChannelLeak
<1>2. QED
  BY <1>1, Invariance, PTL

\* The driver knows of every connection it has left in the plug, but for a
\* double update or a transaction error.
THEOREM PlugsAreKnown == Spec => []PlugIsKnown
<1>1. IInv => PlugIsKnown
  BY DEF IInv, Connection, Ours, PlugIsKnown
<1>2. QED
  BY <1>1, Invariance, PTL

\* The break operation never clears a plug that only another controller has
\* connected; what it clears holds this driver's connection, overlaid or not.
THEOREM BreaksOnlyOurs == Spec => BreakOnlyOurs
<1>1. ASSUME IInv, [Next]_vars
      PROVE  pc["app"] = "brkswap" /\ owner = "other" /\ owner' = "none" =>
               generation' # generation \/ pc' = pc
  <2> SUFFICES ASSUME pc["app"] = "brkswap", owner = "other", owner' = "none",
                      generation' = generation
               PROVE  pc' = pc
    OBVIOUS
  <2> USE <1>1 DEF IInv, Exclusion, Connectedness, AppCritical, UpdCritical
  <2>1. mutex = "app" /\ connected
    OBVIOUS
  <2>2. pc["upd"] \in {"idle", "lock"}
    BY <2>1
  <2>3. ~Current
    BY <2>1, <2>2 DEF Connection, Ours
  <2>4. CASE EstablishCall \/ Establish
    BY <2>4 DEF EstablishCall, Establish, EstablishLock, EstablishRefused,
       EstablishGeneration, EstablishWait, EstablishAllocate,
       EstablishConnected, EstablishSwapAgain, EstablishPlugBusy,
       EstablishSwapFails, EstablishSwapReset, EstablishRetry, EstablishUndo
  <2>5. CASE UpdateCall \/ Update
    BY <2>2, <2>5 DEF UpdateCall, Update, UpdateLock, UpdateGeneration,
       UpdateAllocate, UpdateConnected, UpdateSwapReset, UpdateSwapAgain,
       UpdatePlugBusy, UpdateSwapFails, UpdateUndo, plugVars
  <2>6. CASE BreakCall \/ Break
    BY <2>3, <2>6 DEF BreakCall, Break, BreakLock, BreakSwap,
       BreakSwapReset, BreakSwapAgain, BreakSwapFails, BreakFree,
       SwapSucceeds, SwapFails, SwapAgain, SwapCurrent, plugVars
  <2>7. CASE \E ch \in Channels : OtherConnects(ch) \/ OtherDisconnects(ch)
    BY <2>7 DEF OtherConnects, OtherDisconnects
  <2>8. CASE PlugToggles \/ BusReset \/ OtherOverlays \/ OtherLeaves
    BY <2>8 DEF OtherOverlays, OtherLeaves, PlugToggles, BusReset, IrmReset, TypeOK, IsoTypeOK
  <2>9. CASE UNCHANGED vars
    BY <2>9 DEF vars
  <2>10. QED
    BY <2>4, <2>5, <2>6, <2>7, <2>8, <2>9 DEF Next
<1>2. QED
  BY <1>1, Invariance, PTL DEF Spec, BreakOnlyOurs

----------------------------------------------------------------------------
(* Cmp implements PlugConnection.                                          *)

\* Every step of cmp.c, of its surroundings too, is a step of a PlugConnection or
\* leaves it alone.
LEMMA StepIsPlugStep ==
  ASSUME IInv, [Next]_vars
  PROVE  [Plug!Next]_Plug!vars
<1> USE DEF Plug!Next, Plug!Connect, Plug!Break, Plug!GiveUp, Plug!Fault, Plug!Doubt,
        Plug!Other, Plug!Reset, Plug!vars, PlugState
<1> USE DEF IInv, Exclusion, Connectedness, Connection, Ours, AppCritical, UpdCritical, Goto,
        Current, isoVars, cmpVars, plugVars, histVars
<1>0. pc \in [Threads -> PCs] /\ owner \in {"none", "us", "other", "both"} /\ Threads = {"app", "upd"}
  BY DEF TypeOK, Threads
<1>1. CASE EstablishCall \/ EstablishLock \/ EstablishRefused \/ EstablishWait
  BY <1>0, <1>1 DEF EstablishCall, EstablishLock, EstablishRefused, EstablishWait, Lock, Unlock
<1>2. CASE EstablishGeneration \/ EstablishAllocate
  BY <1>0, <1>2 DEF EstablishGeneration, EstablishAllocate, ReadGeneration, Unlock
<1>3. CASE EstablishConnected
  BY <1>0, <1>3 DEF EstablishConnected, SwapSucceeds, SwapCurrent, Unlock
<1>4. CASE EstablishSwapAgain \/ EstablishPlugBusy \/ EstablishSwapReset
  BY <1>0, <1>4 DEF EstablishSwapAgain, SwapAgain, EstablishPlugBusy, EstablishSwapReset
<1>5. CASE EstablishSwapFails
  BY <1>0, <1>5 DEF EstablishSwapFails, SwapFails
<1>6. CASE EstablishRetry \/ EstablishUndo
  BY <1>0, <1>6 DEF EstablishRetry, EstablishUndo, Free, Unlock
<1>7. CASE UpdateCall \/ UpdateLock
  BY <1>0, <1>7 DEF UpdateCall, UpdateLock, Lock
<1>8. CASE UpdateGeneration
  BY <1>0, <1>8 DEF UpdateGeneration, ReadGeneration
<1>9. CASE UpdateAllocate
  BY <1>0, <1>9 DEF UpdateAllocate, Reallocate, ReallocateFails, Unlock
<1>10. CASE UpdateConnected
  BY <1>0, <1>10 DEF UpdateConnected, SwapSucceeds, SwapCurrent, Unlock
<1>11. CASE UpdateSwapReset \/ UpdateSwapAgain \/ UpdatePlugBusy
  BY <1>0, <1>11 DEF UpdateSwapReset, UpdateSwapAgain, SwapAgain, UpdatePlugBusy, Unlock,
     SwapCurrent
<1>12. CASE UpdateSwapFails
  BY <1>0, <1>12 DEF UpdateSwapFails, SwapFails
<1>13. CASE UpdateUndo
  BY <1>0, <1>13 DEF UpdateUndo, Free, Unlock
<1>14. CASE BreakCall \/ BreakLock \/ BreakSwapAgain \/ BreakSwapReset
  BY <1>0, <1>14 DEF BreakCall, BreakLock, Lock, BreakSwapAgain, SwapAgain, BreakSwapReset
<1>15. CASE BreakSwap
  BY <1>0, <1>15 DEF BreakSwap, SwapSucceeds, SwapCurrent
<1>16. CASE BreakSwapFails
  BY <1>0, <1>16 DEF BreakSwapFails, SwapFails, SwapCurrent
<1>17. CASE BreakFree
  BY <1>0, <1>17 DEF BreakFree, Free, Unlock
<1>18. CASE \E ch \in Channels : OtherConnects(ch)
  <2>1. PICK ch \in Channels : OtherConnects(ch)
    BY <1>18
  <2>2. PlugState' = PlugState
    BY <2>1 DEF OtherConnects, OtherAllocates
  <2>3. pcr.conn = 0 /\ owner' = "other"
    BY <2>1 DEF OtherConnects
  <2>4. owner \notin Ours
    BY <2>3
  <2>5. QED
    BY <1>0, <2>2, <2>3, <2>4
<1>19. CASE \E ch \in Channels : OtherDisconnects(ch)
  BY <1>0, <1>19 DEF OtherDisconnects, OtherFrees
<1>20. CASE PlugToggles \/ OtherOverlays \/ OtherLeaves
  BY <1>0, <1>20 DEF PlugToggles, OtherOverlays, OtherLeaves
<1>21. CASE BusReset
  <2>1. generation' = generation + 1 /\ rgen' = rgen
    BY <1>21 DEF BusReset, IrmReset
  <2>2. rgen <= generation /\ generation \in Nat /\ rgen \in Nat
    BY IsoAssumption DEF Allocation, TypeOK, IsoTypeOK
  <2>3. ~Current'
    BY <2>1, <2>2
  <2>4. pc' = pc /\ connected' = connected /\ owner' = "none"
    BY <1>21 DEF BusReset
  <2>5. QED
    BY <2>3, <2>4
<1>22. CASE UNCHANGED vars
  BY <1>22 DEF vars
<1>23. QED
  BY <1>1, <1>2, <1>3, <1>4, <1>5, <1>6, <1>7, <1>8, <1>9, <1>10, <1>11, <1>12, <1>13,
     <1>14, <1>15, <1>16, <1>17, <1>18, <1>19, <1>20, <1>21, <1>22
     DEF Next, Establish, Update, Break

\* A connection is what a PlugConnection is, for any channels, resets and others: it
\* starts as one, and every step is one of its steps.
THEOREM Implements == Spec => IsPlugConnection
<1>1. Init => Plug!Init
  BY DEF Init, Plug!Init, PlugState
<1>2. QED
  BY <1>1, StepIsPlugStep, Invariance, PTL DEF Spec, IsPlugConnection, Plug!Spec
=============================================================================
