-------------------------------- MODULE Cmp --------------------------------
(***************************************************************************)
(* Connection management procedures, sound/firewire/cmp.c: one             *)
(* struct cmp_connection, the plug control register (PCR) of the device it *)
(* writes, and the isochronous resources it holds.                         *)
(*                                                                         *)
(* Two threads use the connection: "app", the process that opens and       *)
(* closes streams (cmp_connection_establish, cmp_connection_break), and    *)
(* "upd", the .update handler that the FireWire core calls some time after *)
(* a bus reset (cmp_connection_update).  Another controller connects and   *)
(* disconnects the same plug, and the bus is reset, between any two steps. *)
(* The register is only ever written by compare-and-swap in the generation *)
(* c->resources.generation.                                                *)
(*                                                                         *)
(* Of a register value the model keeps the ONLINE bit, the point-to-point  *)
(* connection counter, and the channel; the speed and overhead *)
(* fields that an oPCR carries as well are the same for every connection   *)
(* of a stream format.  Input and output connections then do the same.     *)
(***************************************************************************)
EXTENDS IsoResources

CONSTANTS MaxOther   \* bound: how often others touch the register

ASSUME CmpAssumption == MaxOther \in Nat

VARIABLES
  pc,         \* where each thread is
  mutex,      \* holder of c->mutex, or "none"
  connected,  \* c->connected
  last,       \* c->last_pcr_value
  expect,     \* buffer[0] of pcr_modify(): the value compared with
  pcr,        \* the plug control register
  owner,      \* history: who has made a connection in the register
  pending,    \* the .update handler has still to be called for a reset
  others,     \* how often others have touched the register
  doubled,    \* history: an update ran in the generation it had already
  failed,     \* history: a compare-and-swap failed without -EAGAIN
  abandoned   \* history: an update was overtaken by a bus reset while it
              \* allocated, and has left r->allocated set

cmpVars == <<connected, last, expect>>
histVars == <<doubled, failed, abandoned>>
plugVars == <<pcr, owner, pending, others>>
vars == <<isoVars, pc, mutex, cmpVars, plugVars, histVars>>

Threads == {"app", "upd"}

\*   app: idle, lock (284), gen (117), wait (122), alloc (126), swap (86),
\*        retry (300: free after -EAGAIN), undo (313: free after an error),
\*        brklock (387), brkswap (394), brkfree (398)
\*   upd: idle, lock (335), gen (176), alloc (183), swap (348), undo (361)
PCs == {"idle", "lock", "gen", "wait", "alloc", "swap", "retry", "undo",
        "brklock", "brkswap", "brkfree"}

Pcr == [online : BOOLEAN, conn : 0 .. 2, ch : Channels]

\* The register holds a connection of this driver; "both": another controller
\* has laid its own over it.
Ours == {"us", "both"}

TypeOK ==
  /\ IsoTypeOK
  /\ pc \in [Threads -> PCs]
  /\ mutex \in Threads \cup {"none"}
  /\ connected \in BOOLEAN
  /\ last \in Pcr /\ expect \in Pcr /\ pcr \in Pcr
  /\ owner \in {"none", "us", "other", "both"}
  /\ pending \in BOOLEAN
  /\ others \in 0 .. MaxOther
  /\ doubled \in BOOLEAN /\ failed \in BOOLEAN /\ abandoned \in BOOLEAN

\* cmp_connection_init(), lines 120-153: the register may hold anything that
\* is not a connection; c->last_pcr_value is 0x80000000.
Init ==
  /\ IsoInit
  /\ pc = [t \in Threads |-> "idle"]
  /\ mutex = "none"
  /\ connected = FALSE
  /\ \E zero \in Channels : last = [online |-> TRUE, conn |-> 0, ch |-> zero]
  /\ expect = last
  /\ pcr \in { v \in Pcr : v.conn = 0 }
  /\ owner = "none"
  /\ pending = FALSE
  /\ others = 0
  /\ doubled = FALSE /\ failed = FALSE /\ abandoned = FALSE

----------------------------------------------------------------------------
(* Steps the operations share *)

Goto(t, l) == pc' = [pc EXCEPT ![t] = l]

Lock(t, l) ==
  /\ mutex = "none"
  /\ mutex' = t
  /\ Goto(t, l)

\* mutex_unlock() and return.
Unlock(t) ==
  /\ mutex' = "none"
  /\ Goto(t, "idle")

\* ipcr_set_modify(), opcr_set_modify() and pcr_break_modify(): the counter is
\* set to one, or to none.
SetModify(v)   == [online |-> v.online, conn |-> 1, ch |-> channel]
BreakModify(v) == [v EXCEPT !.conn = 0]

\* Mutant: the transaction does not use FW_FIXED_GENERATION (line 89).
SwapInAnyGeneration == TRUE

\* Lines 86-89: does the compare-and-swap run in the generation it names?
SwapCurrent == Current

\* pcr_modify(), lines 98-99 and 107: the register held the expected value and now holds
\* the modified one.
SwapSucceeds(new, who) ==
  /\ SwapCurrent /\ pcr = expect
  /\ pcr' = new /\ owner' = who
  /\ last' = new
  /\ UNCHANGED <<pending, others>>

\* Lines 98-105: it held another value, which check() accepts: try again.
SwapAgain(check) ==
  /\ SwapCurrent /\ pcr # expect /\ check
  /\ expect' = pcr
  /\ UNCHANGED <<isoVars, pc, mutex, connected, last, plugVars, histVars>>

\* Lines 91-96: no response or an error response; if only the response was
\* lost the register has been written all the same.
SwapFails(new, who) ==
  /\ SwapCurrent
  /\ \/ UNCHANGED <<pcr, owner>>
     \/ pcr = expect /\ pcr' = new /\ owner' = who
  /\ failed' = TRUE
  /\ UNCHANGED <<last, pending, others, doubled, abandoned>>

\* pcr_set_check(), lines 247-260
SetCheck(v) == v.conn = 0 /\ v.online

----------------------------------------------------------------------------
(* cmp_connection_establish(), lines 273-318 *)

\* Line 278 reads c->connected before the mutex is taken; when it is set the
\* call returns -EISCONN at once.
EstablishCall ==
  /\ pc["app"] = "idle" /\ ~connected
  /\ Goto("app", "lock")
  /\ UNCHANGED <<isoVars, mutex, cmpVars, plugVars, histVars>>

EstablishLock ==
  /\ pc["app"] = "lock"
  /\ Lock("app", "gen")
  /\ UNCHANGED <<isoVars, cmpVars, plugVars, histVars>>

\* iso-resources.c:111: WARN_ON(r->allocated), -EBADFD.
EstablishRefused ==
  /\ pc["app"] = "gen" /\ allocated
  /\ Unlock("app")
  /\ UNCHANGED <<isoVars, cmpVars, plugVars, histVars>>

EstablishGeneration ==
  /\ pc["app"] = "gen" /\ ~allocated
  /\ ReadGeneration
  /\ Goto("app", "wait")
  /\ UNCHANGED <<mutex, cmpVars, plugVars, histVars>>

\* iso-resources.c:122-124: a second passes, or a signal interrupts it.
EstablishWait ==
  /\ pc["app"] = "wait"
  /\ \/ Goto("app", "alloc") /\ UNCHANGED mutex
     \/ Unlock("app")
  /\ UNCHANGED <<isoVars, cmpVars, plugVars, histVars>>

\* Line 287; -EAGAIN is handled within fw_iso_resources_allocate() (131-134).
EstablishAllocate ==
  /\ pc["app"] = "alloc"
  /\ \/ Allocate /\ expect' = last /\ Goto("app", "swap") /\ UNCHANGED mutex
     \/ AllocateFails /\ Unlock("app") /\ UNCHANGED expect
     \/ ~Current /\ Goto("app", "gen") /\ UNCHANGED <<isoVars, mutex, expect>>
  /\ UNCHANGED <<connected, last, plugVars, histVars>>

\* Lines 292-297, 306-310
EstablishConnected ==
  /\ pc["app"] = "swap"
  /\ SwapSucceeds(SetModify(expect), "us")
  /\ connected' = TRUE
  /\ Unlock("app")
  /\ UNCHANGED <<isoVars, expect, histVars>>

EstablishSwapAgain ==
  /\ pc["app"] = "swap"
  /\ SwapAgain(SetCheck(pcr))

\* Line 252 or 256: the plug is in use or off-line.
EstablishPlugBusy ==
  /\ pc["app"] = "swap"
  /\ SwapCurrent /\ pcr # expect /\ ~SetCheck(pcr)
  /\ Goto("app", "undo")
  /\ UNCHANGED <<isoVars, mutex, cmpVars, plugVars, histVars>>

EstablishSwapFails ==
  /\ pc["app"] = "swap"
  /\ SwapFails(SetModify(expect), "us")
  /\ Goto("app", "undo")
  /\ UNCHANGED <<isoVars, mutex, connected, expect>>

\* Lines 299-302
EstablishSwapReset ==
  /\ pc["app"] = "swap" /\ ~SwapCurrent
  /\ Goto("app", "retry")
  /\ UNCHANGED <<isoVars, mutex, cmpVars, plugVars, histVars>>

EstablishRetry ==
  /\ pc["app"] = "retry"
  /\ Free
  /\ Goto("app", "gen")
  /\ UNCHANGED <<mutex, cmpVars, plugVars, histVars>>

\* Mutant: `goto err_mutex', the resources are not freed.
EstablishUndoNothing ==
  /\ pc["app"] = "undo"
  /\ Unlock("app")
  /\ UNCHANGED <<isoVars, cmpVars, plugVars, histVars>>

\* Mutant: returns without mutex_unlock().
EstablishUndoLocked ==
  /\ pc["app"] = "undo"
  /\ Free
  /\ Goto("app", "idle")
  /\ UNCHANGED <<mutex, cmpVars, plugVars, histVars>>

\* Lines 312-317
EstablishUndo ==
  /\ pc["app"] = "undo"
  /\ Free
  /\ Unlock("app")
  /\ UNCHANGED <<cmpVars, plugVars, histVars>>

Establish ==
  \/ EstablishLock \/ EstablishRefused \/ EstablishGeneration
  \/ EstablishWait \/ EstablishAllocate \/ EstablishConnected
  \/ EstablishSwapAgain \/ EstablishPlugBusy \/ EstablishSwapFails
  \/ EstablishSwapReset \/ EstablishRetry \/ EstablishUndo

----------------------------------------------------------------------------
(* cmp_connection_update(), lines 331-367, called by the driver's .update *)

\* Resets that come before the handler runs are handled by one call.
UpdateCall ==
  /\ pc["upd"] = "idle" /\ pending
  /\ pending' = FALSE
  /\ Goto("upd", "lock")
  /\ UNCHANGED <<isoVars, mutex, cmpVars, pcr, owner, others, histVars>>

\* Mutant: the test of line 337 inverted.
UpdateLockInverted ==
  /\ pc["upd"] = "lock"
  /\ mutex = "none"
  /\ IF ~connected THEN Lock("upd", "gen")
     ELSE Goto("upd", "idle") /\ UNCHANGED mutex
  /\ UNCHANGED <<isoVars, cmpVars, plugVars, histVars>>

\* Lines 335-340
UpdateLock ==
  /\ pc["upd"] = "lock"
  /\ mutex = "none"
  /\ IF connected THEN Lock("upd", "gen")
     ELSE Goto("upd", "idle") /\ UNCHANGED mutex
  /\ UNCHANGED <<isoVars, cmpVars, plugVars, histVars>>

\* iso-resources.c:171-179: note the new generation, unless nothing is
\* allocated.
UpdateGeneration ==
  /\ pc["upd"] = "gen"
  /\ IF allocated
       THEN /\ ReadGeneration
            /\ doubled' = (doubled \/ Current)
            /\ Goto("upd", "alloc")
            /\ UNCHANGED expect
       ELSE /\ Goto("upd", "swap")
            /\ expect' = last
            /\ UNCHANGED <<isoVars, doubled>>
  /\ UNCHANGED <<mutex, connected, last, plugVars, failed, abandoned>>

\* Lines 342-344, 362-364: any error, -EAGAIN included, ends the connection.
\* iso-resources.c:189 leaves r->allocated set after -EAGAIN for a next try,
\* but once c->connected is clear there is none.
UpdateAllocate ==
  /\ pc["upd"] = "alloc"
  /\ \/ /\ Reallocate
        /\ Goto("upd", "swap") /\ expect' = last
        /\ UNCHANGED <<mutex, connected, abandoned>>
     \/ /\ \/ ReallocateFails /\ UNCHANGED abandoned
           \/ ~Current /\ abandoned' = TRUE /\ UNCHANGED isoVars
        /\ connected' = FALSE
        /\ Unlock("upd") /\ UNCHANGED expect
  /\ UNCHANGED <<last, plugVars, doubled, failed>>

\* Lines 346-356; SUCCEED_ON_BUS_RESET: -EAGAIN counts as success.
UpdateConnected ==
  /\ pc["upd"] = "swap"
  /\ SwapSucceeds(SetModify(expect), "us")
  /\ Unlock("upd")
  /\ UNCHANGED <<isoVars, connected, expect, histVars>>

UpdateSwapReset ==
  /\ pc["upd"] = "swap" /\ ~SwapCurrent
  /\ Unlock("upd")
  /\ UNCHANGED <<isoVars, cmpVars, plugVars, histVars>>

UpdateSwapAgain ==
  /\ pc["upd"] = "swap"
  /\ SwapAgain(SetCheck(pcr))

UpdatePlugBusy ==
  /\ pc["upd"] = "swap"
  /\ SwapCurrent /\ pcr # expect /\ ~SetCheck(pcr)
  /\ Goto("upd", "undo")
  /\ UNCHANGED <<isoVars, mutex, cmpVars, plugVars, histVars>>

UpdateSwapFails ==
  /\ pc["upd"] = "swap"
  /\ SwapFails(SetModify(expect), "us")
  /\ Goto("upd", "undo")
  /\ UNCHANGED <<isoVars, mutex, connected, expect>>

\* Mutant: c->connected stays set.
UpdateUndoConnected ==
  /\ pc["upd"] = "undo"
  /\ Free
  /\ Unlock("upd")
  /\ UNCHANGED <<cmpVars, plugVars, histVars>>

\* Lines 360-364
UpdateUndo ==
  /\ pc["upd"] = "undo"
  /\ Free
  /\ connected' = FALSE
  /\ Unlock("upd")
  /\ UNCHANGED <<last, expect, plugVars, histVars>>

Update ==
  \/ UpdateLock \/ UpdateGeneration \/ UpdateAllocate
  \/ UpdateConnected \/ UpdateSwapReset \/ UpdateSwapAgain
  \/ UpdatePlugBusy \/ UpdateSwapFails \/ UpdateUndo

----------------------------------------------------------------------------
(* cmp_connection_break(), lines 383-403 *)

BreakCall ==
  /\ pc["app"] = "idle"
  /\ Goto("app", "brklock")
  /\ UNCHANGED <<isoVars, mutex, cmpVars, plugVars, histVars>>

\* Mutant: only the resources are freed, the register is left alone.
BreakLockNoSwap ==
  /\ pc["app"] = "brklock"
  /\ mutex = "none"
  /\ IF connected
       THEN Lock("app", "brkfree")
       ELSE Goto("app", "idle") /\ UNCHANGED mutex
  /\ UNCHANGED <<isoVars, cmpVars, plugVars, histVars>>

\* Lines 387-392
BreakLock ==
  /\ pc["app"] = "brklock"
  /\ mutex = "none"
  /\ IF connected
       THEN Lock("app", "brkswap") /\ expect' = last
       ELSE Goto("app", "idle") /\ UNCHANGED <<mutex, expect>>
  /\ UNCHANGED <<isoVars, connected, last, plugVars, histVars>>

\* Line 394: no check, and -EAGAIN counts as success.  pcr_break_modify() clears
\* the whole counter (370-373), an overlaid connection with this driver's.
BreakSwap ==
  /\ pc["app"] = "brkswap"
  /\ SwapSucceeds(BreakModify(expect), "none")
  /\ Goto("app", "brkfree")
  /\ UNCHANGED <<isoVars, mutex, connected, expect, histVars>>

BreakSwapReset ==
  /\ pc["app"] = "brkswap" /\ ~SwapCurrent
  /\ Goto("app", "brkfree")
  /\ UNCHANGED <<isoVars, mutex, cmpVars, plugVars, histVars>>

BreakSwapAgain ==
  /\ pc["app"] = "brkswap"
  /\ SwapAgain(TRUE)

BreakSwapFails ==
  /\ pc["app"] = "brkswap"
  /\ SwapFails(BreakModify(expect), "none")
  /\ Goto("app", "brkfree")
  /\ UNCHANGED <<isoVars, mutex, connected, expect>>

\* Lines 398-402
BreakFree ==
  /\ pc["app"] = "brkfree"
  /\ Free
  /\ connected' = FALSE
  /\ Unlock("app")
  /\ UNCHANGED <<last, expect, plugVars, histVars>>

Break ==
  \/ BreakLock \/ BreakSwap \/ BreakSwapReset \/ BreakSwapAgain
  \/ BreakSwapFails \/ BreakFree

----------------------------------------------------------------------------
(* External: another controller that follows the same rules, the device and *)
(* the bus                                                                  *)

OtherConnects(ch) ==
  /\ others < MaxOther
  /\ pcr.conn = 0 /\ pcr.online /\ irm[ch] = "free"
  /\ OtherAllocates(ch)
  /\ pcr' = [pcr EXCEPT !.conn = 1, !.ch = ch]
  /\ owner' = "other"
  /\ others' = others + 1
  /\ UNCHANGED <<pc, mutex, cmpVars, pending, histVars>>

OtherDisconnects(ch) ==
  /\ OtherFrees(ch)
  /\ IF owner = "other" /\ pcr.ch = ch
       THEN pcr' = BreakModify(pcr) /\ owner' = "none"
       ELSE UNCHANGED <<pcr, owner>>
  /\ UNCHANGED <<pc, mutex, cmpVars, pending, others, histVars>>

\* It overlays this driver's connection with one of its own, which takes no
\* channel: it is the one that is in the register already ...
OtherOverlays ==
  /\ others < MaxOther
  /\ owner = "us" /\ pcr.online
  /\ pcr' = [pcr EXCEPT !.conn = 2]
  /\ owner' = "both"
  /\ others' = others + 1
  /\ UNCHANGED <<isoVars, pc, mutex, cmpVars, pending, histVars>>

\* ... and takes it away again.
OtherLeaves ==
  /\ owner = "both"
  /\ pcr' = [pcr EXCEPT !.conn = 1]
  /\ owner' = "us"
  /\ UNCHANGED <<isoVars, pc, mutex, cmpVars, pending, others, histVars>>

\* The device takes the plug off-line or on-line again, connected or not.
PlugToggles ==
  /\ others < MaxOther
  /\ pcr' = [pcr EXCEPT !.online = ~@]
  /\ others' = others + 1
  /\ UNCHANGED <<isoVars, pc, mutex, cmpVars, owner, pending, histVars>>

\* A bus reset clears the connection counters of every plug.
BusReset ==
  /\ IrmReset
  /\ pcr' = BreakModify(pcr)
  /\ owner' = "none"
  /\ pending' = TRUE
  /\ UNCHANGED <<pc, mutex, cmpVars, others, histVars>>

----------------------------------------------------------------------------

Next ==
  \/ EstablishCall \/ Establish
  \/ UpdateCall \/ Update
  \/ BreakCall \/ Break
  \/ \E ch \in Channels : OtherConnects(ch) \/ OtherDisconnects(ch)
  \/ OtherOverlays \/ OtherLeaves
  \/ PlugToggles \/ BusReset

Spec == Init /\ [][Next]_vars

\* Both threads run to the end of a call, the one-second wait ends, every
\* transaction completes, and the core calls the .update handler.  No
\* fairness makes the application call anything.
Fairness ==
  /\ WF_vars(Establish) /\ WF_vars(Break)
  /\ WF_vars(UpdateCall) /\ SF_vars(Update)

FairSpec == Spec /\ Fairness

----------------------------------------------------------------------------
(* Properties *)

Unlocked == mutex = "none"

\* What `connected' promises its users, whoever else touches the register:
\* between operations, and unless a reset has just invalidated it, the plug
\* holds the connection this driver made, to the channel it allocated.
ConnectionIsReal ==
  Unlocked /\ connected /\ Current =>
    pcr.conn # 0 /\ owner \in Ours /\ pcr.ch = channel

\* r->allocated is only set in the generation of the bus in which the IRM has
\* given the channel to this node: fw_iso_resources_free() can then not free
\* a channel that another node has got.
AllocationIsReal ==
  Unlocked /\ allocated /\ Current => irm[channel] = "us"

\* Nothing is leaked silently.  Between operations the IRM holds a channel for
\* this node only while the connection is up, and it is the one that
\* fw_iso_resources_free() will give back; every other channel it holds is one
\* whose own lock transaction failed (an allocation whose response was lost,
\* or a deallocation, iso-resources.c:222-226), or that a second update in one
\* generation found taken, by this node, and forgot.  And resources stay
\* allocated without a connection only after an update that a reset overtook
\* (cmp.c:343).
NoChannelLeak ==
  Unlocked =>
    /\ \A ch \in Channels : irm[ch] = "us" =>
         ch \in leaked \/ (connected /\ allocated /\ Current /\ channel = ch)
    /\ allocated => connected \/ abandoned

\* A plug is only left connected by this driver while the driver knows about
\* it, but for a transaction error or a double update.
PlugIsKnown ==
  Unlocked /\ ~doubled /\ ~failed /\ owner \in Ours => connected

\* cmp_connection_break() only clears a plug that holds this driver's own
\* connection, never one that is another controller's alone: its
\* compare-and-swap has no check(), and relies on the generation.  (What
\* another controller has laid over this driver's goes with it, 370-373.)
BreakOnlyOurs ==
  [][pc["app"] = "brkswap" /\ owner = "other" /\ owner' = "none" =>
       generation' # generation \/ pc' = pc]_vars

\* After the last bus reset a connection, and its resources, are either made
\* again or given up: an update overtaken by a reset while it writes the plug
\* is followed by another one.  One overtaken while it allocates gives the
\* connection up for good (cmp.c:343), its resources kept in the generation
\* that is gone; that alone is excused.
UpdateCatchesUp == <>[](connected \/ allocated => Current \/ abandoned)

\* Once called, establish, update and break all release the mutex, however
\* the bus resets and whatever the other controller does to the register.
EveryCallReturns == []<>Unlocked

\* The connection is a PlugConnection: "up" between the steps that make it and those
\* that begin to end it or to make it again.
PlugState ==
  IF ~connected \/ pc["app"] = "brkfree" THEN "down"
  ELSE IF Current /\ pc["upd"] \notin {"alloc", "swap", "undo"} THEN "up"
  ELSE "stale"

Plug == INSTANCE PlugConnection WITH state <- PlugState, plug <- owner

\* Establish, update and break, with every step of the other thread, the other
\* controller and the bus between theirs, do to the plug what a PlugConnection may: it
\* is ours while the connection is up, and what another controller has connected is not
\* broken, unless it was laid over ours (a stale last_pcr_value lets establish take it over).
IsPlugConnection == Plug!Spec
=============================================================================
