-------------------------------- MODULE Fcp --------------------------------
(***************************************************************************)
(* Function Control Protocol transactions, sound/firewire/fcp.c.           *)
(*                                                                         *)
(* Several threads (Callers) call fcp_avc_transaction() at the same time.  *)
(* Each puts a transaction on the list `transactions', writes its command  *)
(* to the device and sleeps until the response callback fcp_response(),    *)
(* the driver's bus-reset handler fcp_bus_reset() or a timeout wakes it.   *)
(* t.state is written under transactions_lock by the callbacks, but the    *)
(* caller reads it, and at line 265 writes it, WITHOUT the lock: each of   *)
(* those accesses is a step of its own here.                               *)
(*                                                                         *)
(* The bytes a response is matched on (@response_match_bytes) are          *)
(* abstracted to an opcode: a response matches a transaction iff it        *)
(* carries its opcode.  A command of ctype CONTROL or NOTIFY is            *)
(* "deferrable"; for the other ctypes the code leaves t.deferrable         *)
(* uninitialised, which is a nondeterministic choice at the call.          *)
(***************************************************************************)
EXTENDS Naturals, FiniteSets

CONSTANTS
  Callers,        \* threads that may be inside fcp_avc_transaction()
  Units,          \* fw_units, each of a device of its own
  Ops,            \* opcodes: what the masked bytes of a frame tell apart
  ControlOps,     \* the opcodes sent with ctype CONTROL or NOTIFY
  OpsOf,          \* the opcodes each caller sends
  UnitOf,         \* the unit each caller talks to
  ERROR_RETRIES,  \* fcp.c:24
  MaxGen,         \* bound: the bus is reset at most MaxGen times
  MaxInterim,     \* bound: INTERIM responses the devices send in all
  MaxCalls        \* bound: calls each caller makes

ASSUME FcpAssumption ==
  /\ Ops # {} /\ ControlOps \subseteq Ops
  /\ OpsOf \in [Callers -> SUBSET Ops]
  /\ UnitOf \in [Callers -> Units]
  /\ ERROR_RETRIES \in Nat \ {0}
  /\ MaxGen \in Nat /\ MaxInterim \in Nat /\ MaxCalls \in Nat

VARIABLES
  pc,          \* where each caller is in fcp_avc_transaction()
  op,          \* t.response_match_bytes and the bytes they select
  state,       \* t.state
  deferrable,  \* t.deferrable
  tries,       \* the local `tries'
  answer,      \* what fcp_response() copied into t.response_buffer
  ret,         \* what the call returns
  calls,       \* how many calls each caller has made
  since,       \* history: device->generation when the call began
  transactions,\* the list of pending transactions
  generation,  \* generation of the bus
  devGen,      \* device->generation, and with it device->node_id
  resets,      \* units whose .update handler has still to be called
  commands,    \* commands a device has received and not yet answered
  responses,   \* response frames on their way to fcp_response()
  interims     \* INTERIM responses sent so far

callerVars == <<pc, op, deferrable, tries, ret, calls, since>>
busVars    == <<generation, devGen, resets>>
wireVars   == <<commands, responses, interims>>
vars == <<callerVars, state, answer, transactions, busVars, wireVars>>

----------------------------------------------------------------------------
(* Types *)

States == {"PENDING", "BUS_RESET", "COMPLETE", "DEFERRED"}

\* The caller's program counter:
\*   idle   not in the function         chkDone     line 267
\*   send   line 248                    chkReset    line 270
\*   wait   line 254                    unlink      line 279, ret is set
\*   chkDef line 257                    redefer     line 265
PCs == {"idle", "send", "wait", "chkDef", "redefer", "chkDone", "chkReset", "unlink"}

Codes == {"FINAL", "INTERIM"}
Gens  == 0 .. MaxGen

Frame   == [unit : Units, op : Ops, code : Codes, gen : Gens]
Command == [unit : Units, op : Ops, gen : Gens]
NoFrame == [unit |-> "none"]

Results == {"none", "size", "EIO"}

Active(c) == pc[c] # "idle"

TypeOK ==
  /\ pc \in [Callers -> PCs]
  /\ op \in [Callers -> Ops]
  /\ state \in [Callers -> States]
  /\ deferrable \in [Callers -> BOOLEAN]
  /\ tries \in [Callers -> 0 .. ERROR_RETRIES]
  /\ answer \in [Callers -> Frame \cup {NoFrame}]
  /\ ret \in [Callers -> Results]
  /\ calls \in [Callers -> 0 .. MaxCalls]
  /\ since \in [Callers -> Gens]
  /\ transactions \subseteq Callers
  /\ generation \in Gens
  /\ devGen \in [Units -> Gens]
  /\ resets \subseteq Units
  /\ commands \subseteq Command
  /\ responses \subseteq Frame
  /\ interims \in 0 .. MaxInterim

Init ==
  /\ pc = [c \in Callers |-> "idle"]
  /\ op = [c \in Callers |-> CHOOSE o \in Ops : TRUE]
  /\ state = [c \in Callers |-> "PENDING"]
  /\ deferrable = [c \in Callers |-> FALSE]
  /\ tries = [c \in Callers |-> 0]
  /\ answer = [c \in Callers |-> NoFrame]
  /\ ret = [c \in Callers |-> "none"]
  /\ calls = [c \in Callers |-> 0]
  /\ since = [c \in Callers |-> 0]
  /\ transactions = {}
  /\ generation = 0
  /\ devGen = [u \in Units |-> 0]
  /\ resets = {}
  /\ commands = {}
  /\ responses = {}
  /\ interims = 0

----------------------------------------------------------------------------
(* fcp_avc_transaction(), lines 223-284 *)

Goto(c, l) == pc' = [pc EXCEPT ![c] = l]

\* Mutant: the test of line 238 left out, so that no ctype sets the flag.
BeginUninitialised(c, o) ==
  /\ pc[c] = "idle" /\ calls[c] < MaxCalls
  /\ Goto(c, "send")
  /\ op' = [op EXCEPT ![c] = o]
  /\ \E d \in BOOLEAN : deferrable' = [deferrable EXCEPT ![c] = d]
  /\ calls' = [calls EXCEPT ![c] = @ + 1]
  /\ since' = [since EXCEPT ![c] = devGen[UnitOf[c]]]
  /\ answer' = [answer EXCEPT ![c] = NoFrame]
  /\ ret' = [ret EXCEPT ![c] = "none"]
  /\ transactions' = transactions \cup {c}
  /\ UNCHANGED <<state, tries, busVars, wireVars>>

\* Lines 231-243: fill in the transaction and append it to the list.
Begin(c, o) ==
  /\ pc[c] = "idle" /\ calls[c] < MaxCalls
  /\ Goto(c, "send")
  /\ op' = [op EXCEPT ![c] = o]
  /\ state' = [state EXCEPT ![c] = "PENDING"]
  /\ \E d \in BOOLEAN :
       /\ o \in ControlOps => d
       /\ deferrable' = [deferrable EXCEPT ![c] = d]
  /\ tries' = [tries EXCEPT ![c] = 0]
  /\ answer' = [answer EXCEPT ![c] = NoFrame]
  /\ ret' = [ret EXCEPT ![c] = "none"]
  /\ calls' = [calls EXCEPT ![c] = @ + 1]
  /\ since' = [since EXCEPT ![c] = devGen[UnitOf[c]]]
  /\ transactions' = transactions \cup {c}
  /\ UNCHANGED <<busVars, wireVars>>

\* Line 248: snd_fw_transaction() delivers the command.  It reads
\* device->generation itself, and the write only goes through when that is
\* the generation of the bus.
SendOk(c) ==
  /\ pc[c] = "send"
  /\ devGen[UnitOf[c]] = generation
  /\ commands' = commands \cup
                   {[unit |-> UnitOf[c], op |-> op[c], gen |-> generation]}
  /\ Goto(c, "wait")
  /\ UNCHANGED <<op, deferrable, tries, ret, calls, since, state, answer,
                 transactions, busVars, responses, interims>>

\* Lines 251-252: snd_fw_transaction() gives up after its own retries; the
\* command may have reached the device all the same (a lost acknowledge).
SendFail(c) ==
  /\ pc[c] = "send"
  /\ \/ UNCHANGED commands
     \/ /\ devGen[UnitOf[c]] = generation
        /\ commands' = commands \cup
                         {[unit |-> UnitOf[c], op |-> op[c], gen |-> generation]}
  /\ Goto(c, "unlink")
  /\ ret' = [ret EXCEPT ![c] = "EIO"]
  /\ UNCHANGED <<op, deferrable, tries, calls, since, state, answer,
                 transactions, busVars, responses, interims>>

\* Line 254: the wait ends because t.state is no longer PENDING, or because
\* FCP_TIMEOUT_MS went by.
Wake(c) ==
  /\ pc[c] = "wait" /\ state[c] # "PENDING"
  /\ Goto(c, "chkDef")
  /\ UNCHANGED <<op, deferrable, tries, ret, calls, since, state, answer,
                 transactions, busVars, wireVars>>

Timeout(c) ==
  /\ pc[c] = "wait" /\ state[c] = "PENDING"
  /\ Goto(c, "chkDef")
  /\ UNCHANGED <<op, deferrable, tries, ret, calls, since, state, answer,
                 transactions, busVars, wireVars>>

\* Line 257.
CheckDeferred(c) ==
  /\ pc[c] = "chkDef"
  /\ Goto(c, IF state[c] = "DEFERRED" THEN "redefer" ELSE "chkDone")
  /\ UNCHANGED <<op, deferrable, tries, ret, calls, since, state, answer,
                 transactions, busVars, wireVars>>

\* Lines 265-266: wait again; whatever t.state became since line 257 is
\* overwritten.
Redefer(c) ==
  /\ pc[c] = "redefer"
  /\ state' = [state EXCEPT ![c] = "PENDING"]
  /\ Goto(c, "wait")
  /\ UNCHANGED <<op, deferrable, tries, ret, calls, since, answer,
                 transactions, busVars, wireVars>>

\* Lines 267-269.
CheckComplete(c) ==
  /\ pc[c] = "chkDone"
  /\ IF state[c] = "COMPLETE"
       THEN /\ Goto(c, "unlink")
            /\ ret' = [ret EXCEPT ![c] = "size"]
       ELSE /\ Goto(c, "chkReset")
            /\ UNCHANGED ret
  /\ UNCHANGED <<op, deferrable, tries, calls, since, state, answer,
                 transactions, busVars, wireVars>>

\* Lines 270-271: after a bus reset the command is sent again, without
\* counting a try.  t.state keeps the value BUS_RESET.
RetryAfterReset(c) ==
  /\ pc[c] = "chkReset" /\ state[c] = "BUS_RESET"
  /\ Goto(c, "send")
  /\ UNCHANGED <<op, deferrable, tries, ret, calls, since, state, answer,
                 transactions, busVars, wireVars>>

\* Lines 272-276: a timeout; the ERROR_RETRIES-th one ends the call.
CountTry(c) ==
  /\ pc[c] = "chkReset" /\ state[c] # "BUS_RESET"
  /\ tries' = [tries EXCEPT ![c] = @ + 1]
  /\ IF tries[c] + 1 >= ERROR_RETRIES
       THEN /\ Goto(c, "unlink")
            /\ ret' = [ret EXCEPT ![c] = "EIO"]
       ELSE /\ Goto(c, "send")
            /\ UNCHANGED ret
  /\ UNCHANGED <<op, deferrable, calls, since, state, answer,
                 transactions, busVars, wireVars>>

\* Mutant: list_del() forgotten on the way out.
ReturnLinked(c) ==
  /\ pc[c] = "unlink"
  /\ Goto(c, "idle")
  /\ UNCHANGED <<op, deferrable, tries, ret, calls, since, state, answer,
                 transactions, busVars, wireVars>>

\* Lines 279-283: unlink the transaction and return.  The transaction is on
\* the caller's stack and ceases to exist; its fields go back to a default.
Return(c) ==
  /\ pc[c] = "unlink"
  /\ transactions' = transactions \ {c}
  /\ Goto(c, "idle")
  /\ state' = [state EXCEPT ![c] = "PENDING"]
  /\ deferrable' = [deferrable EXCEPT ![c] = FALSE]
  /\ tries' = [tries EXCEPT ![c] = 0]
  /\ UNCHANGED <<op, ret, calls, since, answer, busVars, wireVars>>

----------------------------------------------------------------------------
(* fcp_response(), lines 313-370: address handler, in interrupt context *)

\* Mutant: the generation of the frame not compared (line 349).
MatchingAnyGeneration(f) ==
  { c \in transactions :
      f.unit = UnitOf[c] /\ state[c] = "PENDING" /\ f.op = op[c] }

\* Lines 347-353 and is_matching_response(): the transactions a frame is for.
Matching(f) ==
  { c \in transactions :
      /\ f.unit = UnitOf[c]
      /\ f.gen = devGen[UnitOf[c]]
      /\ state[c] = "PENDING"
      /\ f.op = op[c] }

Interim(c, f) == deferrable[c] /\ f.code = "INTERIM"

\* Lines 346-368: EVERY matching transaction takes the frame.
Deliver(f) ==
  /\ f \in responses
  /\ responses' = responses \ {f}
  /\ state' = [c \in Callers |->
                 IF c \notin Matching(f) THEN state[c]
                 ELSE IF Interim(c, f) THEN "DEFERRED" ELSE "COMPLETE"]
  /\ answer' = [c \in Callers |->
                  IF c \in Matching(f) /\ ~Interim(c, f) THEN f ELSE answer[c]]
  /\ UNCHANGED <<callerVars, transactions, busVars, commands, interims>>

----------------------------------------------------------------------------
(* The device, modelled from what the code expects of it *)

\* A device may answer INTERIM and go on executing, and answer for good: soon,
\* after the caller has given up, or never, as no fairness is assumed of it.
AnswerInterim(m) ==
  /\ m \in commands /\ interims < MaxInterim
  /\ interims' = interims + 1
  /\ responses' = responses \cup
       {[unit |-> m.unit, op |-> m.op, code |-> "INTERIM", gen |-> m.gen]}
  /\ UNCHANGED <<callerVars, state, answer, transactions, busVars, commands>>

AnswerFinal(m) ==
  /\ m \in commands
  /\ commands' = commands \ {m}
  /\ responses' = responses \cup
       {[unit |-> m.unit, op |-> m.op, code |-> "FINAL", gen |-> m.gen]}
  /\ UNCHANGED <<callerVars, state, answer, transactions, busVars, interims>>

----------------------------------------------------------------------------
(* Bus resets *)

\* The devices forget the commands they were executing.
BusReset ==
  /\ generation < MaxGen
  /\ generation' = generation + 1
  /\ commands' = {}
  /\ resets' = Units
  /\ UNCHANGED <<callerVars, state, answer, transactions, devGen,
                 responses, interims>>

\* The FireWire core stores the new generation and node id in the device.
UpdateDevice(u) ==
  /\ u \in resets /\ devGen[u] # generation
  /\ devGen' = [devGen EXCEPT ![u] = generation]
  /\ UNCHANGED <<callerVars, state, answer, transactions, generation,
                 resets, wireVars>>

\* Mutant: every transaction of the unit is marked, whatever its state.
FcpBusResetAll(u) ==
  /\ u \in resets /\ devGen[u] = generation
  /\ resets' = resets \ {u}
  /\ state' = [c \in Callers |->
                 IF c \in transactions /\ UnitOf[c] = u
                 THEN "BUS_RESET" ELSE state[c]]
  /\ UNCHANGED <<callerVars, answer, transactions, generation, devGen, wireVars>>

\* fcp_bus_reset(), lines 295-309, called from the driver's .update handler.
FcpBusReset(u) ==
  /\ u \in resets /\ devGen[u] = generation
  /\ resets' = resets \ {u}
  /\ state' = [c \in Callers |->
                 IF /\ c \in transactions /\ UnitOf[c] = u
                    /\ state[c] \in {"PENDING", "DEFERRED"}
                 THEN "BUS_RESET" ELSE state[c]]
  /\ UNCHANGED <<callerVars, answer, transactions, generation, devGen, wireVars>>

----------------------------------------------------------------------------

Step(c) ==
  \/ SendOk(c) \/ SendFail(c) \/ Wake(c) \/ Timeout(c)
  \/ CheckDeferred(c) \/ Redefer(c) \/ CheckComplete(c)
  \/ RetryAfterReset(c) \/ CountTry(c) \/ Return(c)

Next ==
  \/ \E c \in Callers : Step(c) \/ \E o \in OpsOf[c] : Begin(c, o)
  \/ \E f \in responses : Deliver(f)
  \/ \E m \in commands : AnswerInterim(m) \/ AnswerFinal(m)
  \/ BusReset
  \/ \E u \in Units : UpdateDevice(u) \/ FcpBusReset(u)

Spec == Init /\ [][Next]_vars

\* The scheduler runs every thread, the timer fires, and the core finishes
\* what a bus reset started.  Nothing is assumed of the devices.
Fairness ==
  /\ \A c \in Callers : WF_vars(Step(c))
  /\ \A u \in Units : WF_vars(UpdateDevice(u)) /\ WF_vars(FcpBusReset(u))

FairSpec == Spec /\ Fairness

----------------------------------------------------------------------------
(* Properties *)

\* fcp_response() and fcp_bus_reset() write through the list into the stack
\* frame of the caller: a linked transaction belongs to a call that has not
\* returned, and every call that can still wait is linked.
LinkedIsAlive == \A c \in Callers : c \in transactions <=> Active(c)

\* A call that returns a response size (line 268) returns a frame that came
\* from its own device, that matches the bytes it asked for, and that was
\* sent in a generation of the bus in which the call was already under way:
\* a late answer of an earlier generation, when the node id may have been
\* another device's, is never taken (lines 348-353).
AnswerIsMine ==
  \A c \in Callers : ret[c] = "size" =>
    /\ answer[c] \in Frame
    /\ answer[c].unit = UnitOf[c] /\ answer[c].op = op[c]
    /\ answer[c].gen >= since[c]

\* An INTERIM frame is never handed to the caller of a CONTROL or NOTIFY
\* command (lines 238, 357): it always gets the final answer or an error.
NoInterimResult ==
  \A c \in Callers :
    ret[c] = "size" /\ op[c] \in ControlOps => answer[c].code = "FINAL"

\* Although the caller writes t.state without the lock (line 265), a frame
\* that has completed its transaction is never thrown away: the state stays
\* COMPLETE and the buffer untouched until the caller has seen it.
CompletionKept ==
  [][\A c \in Callers :
       state[c] = "COMPLETE" /\ Active(c) /\ pc'[c] # "idle" =>
         state'[c] = "COMPLETE" /\ answer'[c] = answer[c]]_vars

\* "we promise to finish this function for a caller" (fcp.c:261): every call
\* returns.
CallReturns == \A c \in Callers : Active(c) ~> ~Active(c)
============================================================================
