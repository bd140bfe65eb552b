--------------------------- MODULE EfwTransaction ----------------------------
(***************************************************************************)
(* The transactions of Fireworks units (sound/firewire/fireworks):         *)
(* commands of the driver (fireworks_command.c, fireworks_transaction.c)   *)
(* and of user space (fireworks_hwdep.c) go to the same devices, and their *)
(* answers come to one address handler, efw_response(), which tells them   *)
(* apart by the node they come from and by their sequence number, one more *)
(* than that of the command.  With it the life of the cards (fireworks.c), *)
(* as far as their transactions depend on it.                              *)
(*                                                                         *)
(* t.state is written under transaction_queues_lock by the callbacks and   *)
(* read by the caller without it; the answer is copied into the buffer the *)
(* command is sent from.  Into the ring of EfwHwdep goes here only whose   *)
(* answer it was.                                                          *)
(***************************************************************************)
EXTENDS Integers, FiniteSets

CONSTANTS
  Units, Nodes,   \* Fireworks units, each of a device of its own; node ids
  Plugged,        \* units whose card is bound at the start,
  Reached,        \* and the sequence numbers they may have got to
  Callers,        \* threads that call efw_transaction()
  UnitOf,         \* the unit each of them talks to
  UserMax,        \* SND_EFW_TRANSACTION_USER_SEQNUM_MAX
  SeqMax,         \* KERNEL_SEQNUM_MAX, the largest sequence number
  ERROR_RETRIES,
  MaxGen,         \* bound: bus resets
  MaxCalls,       \* bound: calls of each caller
  MaxUser,        \* bound: commands of user space
  MaxWire         \* bound: commands and answers on the bus that are not lost

KERNEL_SEQNUM_MIN == UserMax + 2

Numberings == { n \in [Units -> Nodes] : \A u, v \in Units : n[u] = n[v] => u = v }
KernelSeqnums == { n \in KERNEL_SEQNUM_MIN .. SeqMax - 1 : n % 2 = 0 }

ASSUME EfwTransactionAssumption ==
  /\ Numberings # {}
  /\ "user" \notin Callers
  /\ UnitOf \in [Callers -> Units] /\ Plugged \subseteq Units
  /\ Reached \subseteq KernelSeqnums \cup {0}
  /\ UserMax \in Nat /\ UserMax % 2 = 0 /\ SeqMax \in Nat /\ SeqMax % 2 = 1
  /\ KERNEL_SEQNUM_MIN < SeqMax
  /\ ERROR_RETRIES \in Nat \ {0} /\ MaxGen \in Nat /\ MaxUser \in Nat
  /\ MaxWire \in Nat

VARIABLES
  bus,           \* generation and node ids
  dev,           \* generation and node_id of each fw_device
  resets,        \* units whose .update has still to be called
  card,          \* the card of each unit
  instances,
  seqnum,        \* efw->seqnum
  pc,            \* where each caller is
  call,          \* its struct transaction_queue, buffer and tries
  made,          \* calls made by each caller
  transaction_queues,
  commands,      \* commands the devices have got
  responses,     \* answers on their way
  ring,          \* what user space is given to read of each unit
  users          \* commands made by user space

busVars == <<bus, dev, resets>>
cardVars == <<card, instances>>
wireVars == <<commands, responses, ring, users>>
vars == <<busVars, cardVars, seqnum, pc, call, made, transaction_queues, wireVars>>

Seqnums == 0 .. SeqMax
User == [who |-> "user", call |-> 0]
NoAnswer == [from |-> User, seq |-> 0]
NoCall == [seq |-> 0, state |-> "PENDING", tries |-> 0, answer |-> NoAnswer]

TypeOK ==
  /\ bus.gen \in 0 .. MaxGen /\ bus.node \in Numberings
  /\ \A u \in Units : dev[u].gen \in 0 .. MaxGen /\ dev[u].node \in Nodes
  /\ resets \subseteq Units
  /\ card \in [Units -> {"none", "probe", "bound", "removed", "freed"}]
  /\ instances \subseteq Units
  /\ seqnum \in [Units -> Seqnums]
  /\ pc \in [Callers -> {"idle", "send", "wait"}]
  /\ \A c \in Callers :
       /\ call[c].seq \in Seqnums /\ call[c].state \in {"PENDING", "BUS_RESET", "COMPLETE"}
       /\ call[c].tries \in 0 .. ERROR_RETRIES - 1
  /\ made \in [Callers -> 0 .. MaxCalls] /\ users \in 0 .. MaxUser
  /\ transaction_queues \subseteq Callers

\* Some cards have been bound for any number of transactions, the others are not yet.
\* Node ids are only compared, so that it does not matter which ones come first.
Init ==
  /\ bus = [gen |-> 0, node |-> CHOOSE n \in Numberings : TRUE]
  /\ dev = [u \in Units |-> [gen |-> 0, node |-> bus.node[u]]]
  /\ resets = {}
  /\ card = [u \in Units |-> IF u \in Plugged THEN "bound" ELSE "none"]
  /\ instances = Plugged
  /\ seqnum \in [Units -> Reached \cup {0}]
  /\ \A u \in Units : IF u \in Plugged THEN seqnum[u] \in Reached ELSE seqnum[u] = 0
  /\ pc = [c \in Callers |-> "idle"]
  /\ call = [c \in Callers |-> NoCall]
  /\ made = [c \in Callers |-> 0]
  /\ transaction_queues = {}
  /\ commands = {} /\ responses = {}
  /\ ring = [u \in Units |-> {}]
  /\ users = 0

----------------------------------------------------------------------------
(* efw_transaction() and snd_efw_transaction_run() *)

Goto(c, l) == pc' = [pc EXCEPT ![c] = l]

\* fireworks_command.c:124-128
NextSeqnum(n) ==
  IF n < KERNEL_SEQNUM_MIN \/ n >= SeqMax - 2 THEN KERNEL_SEQNUM_MIN ELSE n + 2

\* A number is not used again as long as its command or the answer to it is on the way:
\* a unit has 2^31 of them.
Unused(u, n) ==
  /\ \A c \in transaction_queues : UnitOf[c] = u => call[c].seq # n
  /\ \A m \in commands : m.unit = u => m.seq # n
  /\ \A m \in responses : m.unit = u => m.seq # n + 1

\* fireworks_command.c:123-148, fireworks_transaction.c:79-90.  The probe itself makes
\* transactions; to a card that is removed ALSA lets no more calls through.
Begin(c) ==
  LET u == UnitOf[c] IN
  /\ pc[c] = "idle" /\ card[u] \in {"probe", "bound"} /\ made[c] < MaxCalls
  /\ Unused(u, NextSeqnum(seqnum[u]))
  /\ seqnum' = [seqnum EXCEPT ![u] = NextSeqnum(@)]
  /\ call' = [call EXCEPT ![c] = [NoCall EXCEPT !.seq = NextSeqnum(seqnum[u])]]
  /\ made' = [made EXCEPT ![c] = @ + 1]
  /\ transaction_queues' = transaction_queues \cup {c}
  /\ Goto(c, "send")
  /\ UNCHANGED <<busVars, cardVars, wireVars>>

\* snd_fw_transaction() goes to the node and in the generation the fw_device has.
Reaches(u) == dev[u].gen = bus.gen

\* What the buffer holds is sent: the answer, when it has come in the meantime.
Command(c) ==
  [unit |-> UnitOf[c], from |-> [who |-> c, call |-> made[c]],
   sent |-> IF call[c].state = "COMPLETE" THEN "answer" ELSE "command",
   seq |-> IF call[c].state = "COMPLETE" THEN call[c].answer.seq ELSE call[c].seq]

Arrives(m) == Reaches(m.unit) /\ Cardinality(commands) + Cardinality(responses) < MaxWire

\* What arrives may still never be answered.
Transmit(m) == commands' = IF Arrives(m) THEN commands \cup {m} ELSE commands

\* Line 92
Send(c) ==
  /\ pc[c] = "send" /\ Transmit(Command(c))
  /\ Goto(c, "wait")
  /\ UNCHANGED <<busVars, cardVars, seqnum, call, made, transaction_queues, responses, ring,
                 users>>

\* Lines 111-115; what efw_transaction() makes of the answer is left out.
Return(c) ==
  /\ transaction_queues' = transaction_queues \ {c}
  /\ call' = [call EXCEPT ![c] = NoCall]
  /\ Goto(c, "idle")

\* Lines 93-94: a command whose acknowledgement is lost may have been sent all the same.
SendFails(c) ==
  /\ pc[c] = "send" /\ (UNCHANGED commands \/ Transmit(Command(c)))
  /\ Return(c)
  /\ UNCHANGED <<busVars, cardVars, seqnum, made, responses, ring, users>>

\* Mutant: tries not counted.
RetryForever(c) ==
  /\ pc[c] = "wait" /\ call[c].state # "COMPLETE"
  /\ Goto(c, "send")
  /\ UNCHANGED <<busVars, cardVars, seqnum, call, made, transaction_queues, wireVars>>

\* Lines 96-109: EFC_TIMEOUT_MS are over, or the state is STATE_BUS_RESET.  It stays so,
\* and then no try is counted.  (The state is read twice.  An answer that comes in
\* between is like one that comes when the command is being sent again.)
Retry(c) ==
  /\ pc[c] = "wait" /\ call[c].state # "COMPLETE"
  /\ IF call[c].state = "PENDING" /\ call[c].tries + 1 = ERROR_RETRIES THEN Return(c)
     ELSE /\ call' = [call EXCEPT ![c].tries = IF call[c].state = "PENDING" THEN @ + 1 ELSE @]
          /\ Goto(c, "send") /\ UNCHANGED transaction_queues
  /\ UNCHANGED <<busVars, cardVars, seqnum, made, wireVars>>

\* Lines 96-101
Succeed(c) ==
  /\ pc[c] = "wait" /\ call[c].state = "COMPLETE"
  /\ Return(c)
  /\ UNCHANGED <<busVars, cardVars, seqnum, made, wireVars>>

----------------------------------------------------------------------------
(* efw_response(), and hwdep_write() of user space *)

\* Mutant: the generation is not compared (line 210).
SourceAnyGeneration(m, u) == dev[u].node = m.node

\* Lines 208-214 and 180-186
Source(m, u) == dev[u].gen = m.gen /\ dev[u].node = m.node

\* handle_resp_for_kernel()
HandleRespForKernel(m) ==
  LET matching == { c \in transaction_queues :
                      /\ Source(m, UnitOf[c])
                      /\ call[c].state = "PENDING" /\ call[c].seq + 1 = m.seq }
  IN /\ call' = [c \in Callers |->
                   IF c \in matching
                   THEN [call[c] EXCEPT !.state = "COMPLETE",
                                        !.answer = [from |-> m.from, seq |-> m.seq]]
                   ELSE call[c]]
     /\ UNCHANGED ring

\* handle_resp_for_user(), copy_resp_to_buf(): the instance that matches, if one does
HandleRespForUser(m) ==
  LET matching == { u \in instances : Source(m, u) }
  IN /\ ring' = [u \in Units |->
                   IF u \in matching THEN ring[u] \cup {[from |-> m.from, unit |-> m.unit,
                                                         sent |-> m.sent]}
                   ELSE ring[u]]
     /\ UNCHANGED call

\* Lines 245-255, without snd_efw_resp_buf_debug
Response(m) ==
  /\ m \in responses
  /\ responses' = responses \ {m}
  /\ IF m.seq > UserMax + 1 THEN HandleRespForKernel(m) ELSE HandleRespForUser(m)
  /\ UNCHANGED <<busVars, cardVars, seqnum, pc, made, transaction_queues, commands, users>>

\* hwdep_write(): sequence numbers above UserMax are refused (line 142).
UserWrites(u) ==
  /\ card[u] = "bound" /\ users < MaxUser
  /\ \E n \in 0 .. UserMax :
       Transmit([unit |-> u, from |-> User, sent |-> "command", seq |-> n])
  /\ users' = users + 1
  /\ UNCHANGED <<busVars, cardVars, seqnum, pc, call, made, transaction_queues, responses,
                 ring>>

----------------------------------------------------------------------------
(* External: the devices and the bus *)

\* A command is answered soon, late or never.
Answer(m) ==
  /\ m \in commands
  /\ commands' = commands \ {m}
  /\ responses' = responses \cup
       {[unit |-> m.unit, node |-> bus.node[m.unit], gen |-> bus.gen, from |-> m.from,
         sent |-> m.sent, seq |-> IF m.seq = SeqMax THEN 0 ELSE m.seq + 1]}
  /\ UNCHANGED <<busVars, cardVars, seqnum, pc, call, made, transaction_queues, ring, users>>

\* Any node may get any number.
BusReset ==
  /\ bus.gen < MaxGen
  /\ \E n \in Numberings : bus' = [gen |-> bus.gen + 1, node |-> n]
  /\ resets' = { u \in Units : card[u] \in {"probe", "bound"} }
  /\ UNCHANGED <<dev, cardVars, seqnum, pc, call, made, transaction_queues, wireVars>>

CoreUpdates(u) ==
  /\ dev[u].gen # bus.gen
  /\ dev' = [dev EXCEPT ![u] = [gen |-> bus.gen, node |-> bus.node[u]]]
  /\ UNCHANGED <<bus, resets, cardVars, seqnum, pc, call, made, transaction_queues, wireVars>>

----------------------------------------------------------------------------
(* fireworks.c *)

\* efw_update(), snd_efw_transaction_bus_reset(); the core waits for a probe to end.
Update(u) ==
  /\ u \in resets /\ dev[u].gen = bus.gen /\ card[u] # "probe"
  /\ resets' = resets \ {u}
  /\ call' = [c \in Callers |->
                IF /\ card[u] = "bound" /\ c \in transaction_queues /\ UnitOf[c] = u
                   /\ call[c].state = "PENDING"
                THEN [call[c] EXCEPT !.state = "BUS_RESET"] ELSE call[c]]
  /\ UNCHANGED <<bus, dev, cardVars, seqnum, pc, made, transaction_queues, wireVars>>

\* efw_probe() up to line 246
Probe(u) ==
  /\ card[u] = "none"
  /\ card' = [card EXCEPT ![u] = "probe"]
  /\ instances' = instances \cup {u}
  /\ seqnum' = [seqnum EXCEPT ![u] = 0]
  /\ ring' = [ring EXCEPT ![u] = {}]
  /\ UNCHANGED <<busVars, pc, call, made, transaction_queues, commands, responses, users>>

Quiet(u) == \A c \in Callers : UnitOf[c] = u => pc[c] = "idle"

\* Lines 248-288: the transactions of the probe are over; no second probe.
ProbeEnds(u) ==
  /\ card[u] = "probe" /\ Quiet(u)
  /\ \/ card' = [card EXCEPT ![u] = "bound"] /\ UNCHANGED instances
     \/ card' = [card EXCEPT ![u] = "freed"] /\ instances' = instances \ {u}
  /\ UNCHANGED <<busVars, seqnum, pc, call, made, transaction_queues, wireVars>>

\* efw_remove(): the card is freed when nobody has it open any more.
Remove(u) ==
  /\ card[u] = "bound"
  /\ card' = [card EXCEPT ![u] = "removed"]
  /\ resets' = resets \ {u}
  /\ UNCHANGED <<bus, dev, instances, seqnum, pc, call, made, transaction_queues, wireVars>>

\* efw_card_free(); the device does not come back.
CardFree(u) ==
  /\ card[u] = "removed" /\ Quiet(u)
  /\ card' = [card EXCEPT ![u] = "freed"]
  /\ instances' = instances \ {u}
  /\ ring' = [ring EXCEPT ![u] = {}]
  /\ UNCHANGED <<busVars, seqnum, pc, call, made, transaction_queues, commands, responses,
                 users>>

----------------------------------------------------------------------------
Step(c) ==
  Send(c) \/ SendFails(c) \/ Retry(c) \/ Succeed(c)

Next ==
  \/ \E c \in Callers : Begin(c) \/ Step(c)
  \/ \E m \in commands : Answer(m)
  \/ \E m \in responses : Response(m)
  \/ \E u \in Units :
       \/ UserWrites(u) \/ CoreUpdates(u)
       \/ Update(u) \/ Probe(u) \/ ProbeEnds(u) \/ Remove(u) \/ CardFree(u)
  \/ BusReset

\* Threads run and time passes; nothing is expected of the devices.
Spec == Init /\ [][Next]_vars /\ \A c \in Callers : WF_vars(Step(c))

----------------------------------------------------------------------------
(* Properties *)

\* An answer gets to whoever asked for it, and to nobody else: a transaction of the
\* driver only succeeds with the answer to a command of its own, from any try, and user
\* space only reads what answers a command of user space to that unit - though both
\* kinds share the address handler, sequence numbers of two units are the same, and node
\* ids move to other devices at a bus reset.  The exception is a command that is
\* repeated just when its answer comes: the answer is sent, as a command, and if its
\* number is the last one the answer to it is taken for one to user space.
AnswersReachSenders ==
  /\ \A c \in Callers :
       call[c].state = "COMPLETE" => call[c].answer.from = [who |-> c, call |-> made[c]]
  /\ \A u \in Units : \A r \in ring[u] : r.unit = u /\ (r.from = User \/ r.sent = "answer")

\* A transaction returns after at most ERROR_RETRIES tries, whatever becomes of commands
\* and answers, unless it meets a bus reset: then it goes on until a command fails.
TransactionsReturn ==
  \A c \in Callers : []<>(pc[c] = "idle" \/ call[c].state = "BUS_RESET")
=============================================================================
