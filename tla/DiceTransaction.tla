--------------------------- MODULE DiceTransaction ---------------------------
(***************************************************************************)
(* The transactions of the Dice driver (sound/firewire/dice): the address  *)
(* for notifications is registered in the owner register of the device by  *)
(* a compare-and-swap, and both this and the write that enables streaming  *)
(* name the generation of the bus they were meant for                      *)
(* (dice-transaction.c).  A thread of an ALSA substream starts and stops   *)
(* streaming under dice->mutex and changes the clock, which the device     *)
(* accepts by a notification; the bus-reset handler (dice.c) registers     *)
(* again, without the mutex.                                               *)
(***************************************************************************)
EXTENDS Integers

CONSTANTS
  Rates,      \* rates of the device
  Nodes,      \* node ids the controller may have on the bus
  MaxGen,     \* FW_GENERATION_MASK: generations are 0 .. MaxGen
  Retries,    \* retries in set_clock_info()
  MaxResets,  \* bound: bus resets in a behaviour
  MaxNotices  \* bound: notifications on their way at once

NoOwner == "none"

ASSUME DiceAssumption ==
  /\ Rates # {} /\ Nodes # {} /\ {NoOwner, "other"} \cap Nodes = {}
  /\ MaxGen \in Nat \ {0} /\ Retries \in Nat /\ MaxNotices \in Nat
  /\ MaxResets \in 0 .. MaxGen   \* no generation comes back

VARIABLES
  bus,      \* generation and node id now, generation the driver sees, resets so far,
            \* notifications on their way: of clocks that this call of
            \* set_clock_info() has asked for, and of those of earlier ones
  device,   \* owner register, enable register, rate, clock request not yet accepted
  dice,     \* owner_generation, global_enabled, clock_accepted, the handler
  pc,       \* where the thread of a substream and the bus-reset handler are
  reg,      \* local variables of register_notification_address()
  call,     \* local variables of set_clock_info(), and whether the call has written the
            \* clock and whether it took a notification of an earlier one for its own
  due,      \* .update of the unit has to run
  past      \* history

vars == <<bus, device, dice, pc, reg, call, due, past>>

Threads == {"user", "update"}
Generations == 0 .. MaxGen

TypeOK ==
  /\ bus \in [gen : Generations, node : Nodes, known : Generations, resets : 0 .. MaxResets,
             this : 0 .. MaxNotices, earlier : 0 .. MaxNotices]
  /\ device \in [owner : Nodes \cup {NoOwner, "other"}, enabled : BOOLEAN, rate : Rates,
                 request : Rates \cup {"none"}]
  /\ dice \in [ownerGen : Generations \cup {-1}, enabled : BOOLEAN, done : BOOLEAN,
               handler : BOOLEAN]
  /\ pc \in [Threads -> {"probe", "idle", "node", "gen", "swap", "read", "write",
                         "wait", "enable", "running", "mutex", "freed"}]
  /\ reg \in [Threads -> [node : Nodes, again : BOOLEAN, table : BOOLEAN]]
  /\ call \in [rate : Rates, left : 0 .. Retries, asked : BOOLEAN, late : BOOLEAN]
  /\ due \in BOOLEAN
  /\ past \in [table : BOOLEAN, lost : BOOLEAN, failed : BOOLEAN, overtaken : BOOLEAN,
              stale : BOOLEAN]

Goto(t, l) == pc' = [pc EXCEPT ![t] = l]

\* set_clock_info() is left; its locals, and those of a registration, are dropped.
NewCall(rate, left) == [rate |-> rate, left |-> left, asked |-> FALSE, late |-> FALSE]
NoCall == NewCall(CHOOSE r \in Rates : TRUE, 0)
NoReg == [node |-> CHOOSE n \in Nodes : TRUE, again |-> FALSE, table |-> FALSE]
Return == Goto("user", "idle") /\ call' = NoCall

Init ==
  /\ \E n \in Nodes, g \in Generations :
       bus = [gen |-> g, node |-> n, known |-> g, resets |-> 0, this |-> 0, earlier |-> 0]
  /\ \E o \in {NoOwner, "other"}, r \in Rates :
       device = [owner |-> o, enabled |-> FALSE, rate |-> r, request |-> "none"]
  /\ dice = [ownerGen |-> 0, enabled |-> FALSE, done |-> FALSE, handler |-> FALSE]
  /\ pc = [user |-> "probe", update |-> "idle"]
  /\ reg = [t \in Threads |-> NoReg]
  /\ call = NoCall
  /\ due = FALSE
  /\ past = [table |-> TRUE, lost |-> FALSE, failed |-> FALSE, overtaken |-> FALSE,
             stale |-> FALSE]

----------------------------------------------------------------------------
(* The bus and the device *)

\* The registers of the device are reset with the bus.  Of the notifications on
\* their way those stay that the controller has already received.
BusReset ==
  /\ bus.resets < MaxResets
  /\ \E n \in Nodes, t \in 0 .. bus.this, e \in 0 .. bus.earlier :
       bus' = [bus EXCEPT !.gen = (@ + 1) % (MaxGen + 1), !.node = n, !.resets = @ + 1,
                          !.this = t, !.earlier = e]
  /\ device' = [device EXCEPT !.owner = NoOwner, !.enabled = FALSE, !.request = "none"]
  /\ UNCHANGED <<dice, pc, reg, call, due, past>>

\* The core gives device->generation its new value, then calls .update of the unit.
CoreUpdates ==
  /\ bus.known # bus.gen
  /\ bus' = [bus EXCEPT !.known = bus.gen]
  /\ due' = TRUE
  /\ UNCHANGED <<device, dice, pc, reg, call, past>>

\* Another controller registers itself.
OtherOwns ==
  /\ device.owner = NoOwner
  /\ device' = [device EXCEPT !.owner = "other"]
  /\ UNCHANGED <<bus, dice, pc, reg, call, due, past>>

\* The device accepts the clock it was asked for and notifies the address that is
\* registered; the notification may be lost.
Accept ==
  /\ device.request # "none"
  /\ device' = [device EXCEPT !.rate = device.request, !.request = "none"]
  /\ \/ UNCHANGED bus
     \/ /\ device.owner = bus.node /\ bus.this + bus.earlier < MaxNotices
        /\ bus' = IF call.asked THEN [bus EXCEPT !.this = @ + 1]
                  ELSE [bus EXCEPT !.earlier = @ + 1]
  /\ UNCHANGED <<dice, pc, reg, call, due, past>>

\* dice_notification(): the notification arrives, however much later.  It does not
\* say which clock it is for.
Notify(kind) ==
  /\ \/ kind = "this" /\ bus.this > 0 /\ bus' = [bus EXCEPT !.this = @ - 1]
     \/ kind = "earlier" /\ bus.earlier > 0 /\ bus' = [bus EXCEPT !.earlier = @ - 1]
  /\ dice.handler
  /\ dice' = [dice EXCEPT !.done = TRUE]
  /\ call' = [call EXCEPT !.late = @ \/ (kind = "earlier" /\ pc["user"] \in {"write", "wait"})]
  /\ UNCHANGED <<device, pc, reg, due, past>>

\* owner_generation, -1 included, as snd_fw_transaction() masks it
FixedGeneration == IF dice.ownerGen = -1 THEN MaxGen ELSE dice.ownerGen

\* The request goes out in this generation only; device->node_id goes with the
\* generation the driver sees.
Reaches == FixedGeneration = bus.gen /\ bus.known = bus.gen

----------------------------------------------------------------------------
(* register_notification_address() *)

Register(t, table) ==
  /\ reg' = [reg EXCEPT ![t].again = TRUE, ![t].table = table]
  /\ Goto(t, "node")

\* Lines 247-250
RegisterNode(t) ==
  /\ pc[t] = "node"
  /\ reg' = [reg EXCEPT ![t].node = bus.node]
  /\ Goto(t, "gen")
  /\ UNCHANGED <<bus, device, dice, call, due, past>>

\* Line 252
RegisterGeneration(t) ==
  /\ pc[t] = "gen"
  /\ dice' = [dice EXCEPT !.ownerGen = bus.known]
  /\ Goto(t, "swap")
  /\ UNCHANGED <<bus, device, reg, call, due, past>>

\* What the caller does after an error and without one
Registered(t) ==
  /\ Goto(t, IF t = "update" THEN "mutex" ELSE IF reg[t].table THEN "idle" ELSE "read")
  /\ past' = [past EXCEPT !.table = @ /\ reg[t].table,
                          !.stale = ~reg[t].table /\ reg[t].node # bus.node]
  /\ reg' = [reg EXCEPT ![t] = NoReg]
  /\ UNCHANGED <<dice, call>>
\* Mutant: the generation is kept after a registration that failed.
UnregisteredKeepsGeneration(t) ==
  /\ IF t = "update" THEN Goto(t, "mutex") /\ UNCHANGED call
     ELSE IF reg[t].table THEN Goto(t, "freed") /\ UNCHANGED call
     ELSE Return
  /\ dice' = [dice EXCEPT !.handler = @ /\ ~reg[t].table]
  /\ past' = [past EXCEPT !.failed = TRUE]
  /\ reg' = [reg EXCEPT ![t] = NoReg]

Unregistered(t) ==
  /\ IF t = "update" THEN Goto(t, "mutex") /\ UNCHANGED call
     ELSE IF reg[t].table THEN Goto(t, "freed") /\ UNCHANGED call
     ELSE Return
  /\ dice' = [dice EXCEPT !.ownerGen = -1, !.handler = @ /\ ~reg[t].table]
  /\ past' = [past EXCEPT !.failed = TRUE]
  /\ reg' = [reg EXCEPT ![t] = NoReg]

\* Lines 254-267: ours when nobody owned the device or already ours.  The first time
\* global_offset is still 0: it is the head of the address space that is swapped, and
\* what the device answers there is its own.
RegisterSwap(t) ==
  /\ pc[t] = "swap" /\ Reaches
  /\ IF reg[t].table THEN UNCHANGED device
     ELSE /\ device.owner \in {NoOwner, reg[t].node}
          /\ device' = [device EXCEPT !.owner = reg[t].node]
  /\ Registered(t)
  /\ UNCHANGED <<bus, due>>

\* Lines 269-271, 281-282: somebody else's, or the request failed
RegisterFails(t) ==
  /\ pc[t] = "swap"
  /\ Unregistered(t)
  /\ UNCHANGED <<bus, device, due>>

\* Lines 273-276, -EAGAIN: the condition is the wrong way round, so that only a call
\* that does not ask for a retry has one.
RegisterAgain(t) ==
  /\ pc[t] = "swap" /\ FixedGeneration # bus.gen
  /\ IF reg[t].again /\ ~reg[t].table
     THEN /\ reg' = [reg EXCEPT ![t].again = FALSE]
          /\ Goto(t, "node")
          /\ UNCHANGED <<dice, call, past>>
     ELSE Unregistered(t)
  /\ UNCHANGED <<bus, device, due>>

\* snd_dice_transaction_init() in dice_probe(): the offsets are read, but stored last.
Probe ==
  /\ pc["user"] = "probe"
  /\ \/ Register("user", TRUE) /\ dice' = [dice EXCEPT !.handler = TRUE]
     \/ Goto("user", "freed") /\ UNCHANGED <<dice, reg>>
  /\ UNCHANGED <<bus, device, call, due, past>>

----------------------------------------------------------------------------
(* A thread of a substream, which holds dice->mutex *)

\* snd_dice_transaction_clear_enable(): what the write comes to is not looked at.
ClearEnable ==
  /\ dice' = [dice EXCEPT !.enabled = FALSE]
  /\ \/ Reaches /\ device' = [device EXCEPT !.enabled = FALSE] /\ UNCHANGED past
     \/ ~Reaches /\ UNCHANGED <<device, past>>
     \/ Reaches /\ UNCHANGED device /\ past' = [past EXCEPT !.lost = TRUE]

MutexFree == pc["user"] \in {"idle", "running"}

\* The streams stop or are about to be started (dice-stream.c:227).
Stop ==
  /\ MutexFree
  /\ ClearEnable
  /\ Goto("user", "idle")
  /\ UNCHANGED <<bus, reg, call, due>>
\* The clock is set next: what was asked for so far, another call did.
Start ==
  /\ pc["user"] = "idle"
  /\ ClearEnable
  /\ \E r \in Rates : call' = NewCall(r, Retries)
  /\ bus' = [bus EXCEPT !.earlier = @ + bus.this, !.this = 0]
  /\ Goto("user", "read")
  /\ UNCHANGED <<reg, due>>

\* Mutant: the completion is not reset.
ReadClockKeepsDone ==
  /\ pc["user"] = "read"
  /\ \/ call' = [call EXCEPT !.late = FALSE] /\ Goto("user", "write")
     \/ Return
  /\ UNCHANGED <<bus, device, dice, reg, due, past>>

\* set_clock_info(), lines 75-102: get_clock_info() may fail.
ReadClock ==
  /\ pc["user"] = "read"
  /\ \/ /\ dice' = [dice EXCEPT !.done = FALSE]
        /\ call' = [call EXCEPT !.late = FALSE]
        /\ Goto("user", "write")
     \/ Return /\ UNCHANGED dice
  /\ UNCHANGED <<bus, device, reg, due, past>>

\* Lines 104-107, in whatever generation it is
WriteClock ==
  /\ pc["user"] = "write" /\ bus.known = bus.gen
  /\ device' = [device EXCEPT !.request = call.rate]
  /\ call' = [call EXCEPT !.asked = TRUE]
  /\ Goto("user", "wait")
  /\ UNCHANGED <<bus, dice, reg, due, past>>
\* An error, by which the write may yet have been done
WriteFails ==
  /\ pc["user"] = "write"
  /\ \/ UNCHANGED device
     \/ bus.known = bus.gen /\ device' = [device EXCEPT !.request = call.rate]
  /\ Return
  /\ UNCHANGED <<bus, dice, reg, due, past>>

\* Lines 110-111
ClockAccepted ==
  /\ pc["user"] = "wait" /\ dice.done
  /\ dice' = [dice EXCEPT !.done = FALSE]
  /\ Goto("user", "enable")
  /\ UNCHANGED <<bus, device, reg, call, due, past>>

\* Mutant: the retries are not counted.
ClockTimeoutForever ==
  /\ pc["user"] = "wait"
  /\ Register("user", FALSE)
  /\ UNCHANGED <<bus, device, dice, call, due, past>>

\* Lines 112-117
ClockTimeout ==
  /\ pc["user"] = "wait" /\ ~dice.done
  /\ IF call.left = 0 THEN Return /\ UNCHANGED reg
     ELSE /\ call' = [call EXCEPT !.left = @ - 1]
          /\ Register("user", FALSE)
  /\ UNCHANGED <<bus, device, dice, due, past>>

\* snd_dice_transaction_set_enable()
SetEnable ==
  /\ pc["user"] = "enable" /\ (dice.enabled \/ Reaches)
  /\ device' = [device EXCEPT !.enabled = @ \/ ~dice.enabled]
  /\ dice' = [dice EXCEPT !.enabled = TRUE]
  /\ Goto("user", "running")
  /\ call' = NoCall
  /\ UNCHANGED <<bus, reg, due, past>>
\* An error, by which the write may yet have been done; the streams stop.
SetEnableFails ==
  /\ pc["user"] = "enable" /\ ~dice.enabled
  /\ Return
  /\ \/ UNCHANGED <<device, past>>
     \/ /\ Reaches
        /\ device' = [device EXCEPT !.enabled = TRUE]
        /\ past' = [past EXCEPT !.lost = TRUE]
  /\ UNCHANGED <<bus, dice, reg, due>>

\* Mutant: the generation is dropped before the swap.
CardFreeDropsGeneration ==
  /\ MutexFree /\ pc["update"] = "idle"
  /\ dice' = [ownerGen |-> -1, enabled |-> FALSE, done |-> dice.done, handler |-> FALSE]
  /\ device' = IF bus.gen # MaxGen THEN device
               ELSE [device EXCEPT !.owner = NoOwner, !.enabled = FALSE]
  /\ Goto("user", "freed")
  /\ UNCHANGED <<bus, reg, call, due, past>>

\* dice_card_free(): unregister_notification_address(), then the handler goes.
CardFree ==
  /\ MutexFree /\ pc["update"] = "idle"
  /\ dice' = [ownerGen |-> -1, enabled |-> FALSE, done |-> dice.done, handler |-> FALSE]
  /\ LET given == IF device.owner = bus.node THEN NoOwner ELSE device.owner IN
       \/ ~Reaches /\ UNCHANGED <<device, past>>
       \/ /\ Reaches
          /\ device' = [device EXCEPT !.owner = given, !.enabled = FALSE]
          /\ UNCHANGED past
       \/ Reaches /\ UNCHANGED device /\ past' = [past EXCEPT !.lost = TRUE]
  /\ Goto("user", "freed")
  /\ UNCHANGED <<bus, reg, call, due>>

----------------------------------------------------------------------------
(* dice_bus_reset() *)

UpdateStarts ==
  /\ due /\ pc["update"] = "idle" /\ pc["user"] \notin {"probe", "freed"}
  /\ ~(pc["user"] \in {"node", "gen", "swap"} /\ reg["user"].table)
  /\ due' = FALSE
  /\ Register("update", FALSE)
  /\ UNCHANGED <<bus, device, dice, call, past>>

\* Mutant: global_enabled is left as it is.
UpdateEndsEnabled ==
  /\ pc["update"] = "mutex" /\ MutexFree
  /\ pc' = [user |-> "idle", update |-> "idle"]
  /\ UNCHANGED <<bus, device, dice, reg, call, due, past>>

\* snd_dice_stream_update_duplex(): the streams stop.  The device is not told: when a
\* thread had the mutex first and started again after the reset, it stays enabled.
UpdateEnds ==
  /\ pc["update"] = "mutex" /\ MutexFree
  /\ dice' = [dice EXCEPT !.enabled = FALSE]
  /\ past' = [past EXCEPT !.overtaken = @ \/ device.enabled]
  /\ pc' = [user |-> "idle", update |-> "idle"]
  /\ UNCHANGED <<bus, device, reg, call, due>>

----------------------------------------------------------------------------
RegisterStep(t) ==
  RegisterNode(t) \/ RegisterGeneration(t) \/ RegisterSwap(t) \/ RegisterFails(t)
    \/ RegisterAgain(t)

CallStep ==
  \/ RegisterStep("user")
  \/ ReadClock \/ WriteClock \/ WriteFails \/ ClockAccepted \/ ClockTimeout
  \/ SetEnable \/ SetEnableFails

UpdateStep == RegisterStep("update") \/ UpdateEnds

Next ==
  \/ BusReset \/ CoreUpdates \/ OtherOwns \/ Accept \/ Notify("this") \/ Notify("earlier")
  \/ Probe \/ Start \/ Stop \/ CardFree \/ CallStep
  \/ UpdateStarts \/ UpdateStep

\* A call of a thread and the handler go on; time passes.
Fairness == WF_vars(CallStep) /\ WF_vars(UpdateStep)

Spec == Init /\ [][Next]_vars /\ Fairness

----------------------------------------------------------------------------
(* Properties *)

Settled == bus.known = bus.gen /\ ~due /\ pc["update"] = "idle"

\* A device that sends is one the driver knows to send, so that it is told to stop
\* before its channels are given away (dice-transaction.c:166-200), except where the
\* write was lost, where a registration failed, so that writes name no generation of
\* the bus, or where the handler of a bus reset came after a thread that had started
\* again.  And once a bus reset is dealt with, a device taken for enabled is enabled.
EnableIsKnown ==
  /\ device.enabled => dice.enabled \/ past.lost \/ past.failed \/ past.overtaken
  /\ dice.enabled /\ Settled => device.enabled

\* The device is enabled at the rate that was asked for, after any number of tries,
\* of which an earlier one may be the one that is answered.  But a notification does
\* not name the clock that was accepted: one of an earlier call, which that call gave
\* up waiting for, is taken for this one's when it arrives after the completion was
\* reset (lines 101-102), before the write or after it; that alone is excused.
ClockIsAsked == pc["user"] = "enable" => device.rate = call.rate \/ call.late

\* When the driver holds the generation of the bus it is the owner the device
\* notifies, at the node it has now: not before a bus reset or a timeout made it
\* register again, as the first registration goes to a wrong address, and not when the
\* bus was reset between line 249 and line 252, so that the node is an old one's.
\* And a card that is gone is not the owner of a device that stays.
OwnerIsUs ==
  /\ pc["user"] \in {"idle", "running"} /\ Settled /\ dice.ownerGen = bus.gen
       => device.owner = bus.node \/ past.table \/ past.stale
  /\ pc["user"] = "freed" /\ device.owner = bus.node => past.lost \/ past.failed

\* set_clock_info() returns, whatever the device does and how often the bus is reset.
CallsReturn == pc["user"] = "wait" ~> pc["user"] \in {"idle", "running", "freed"}
===============================================================================
