------------------------ MODULE DiceTransactionProofs ------------------------
(***************************************************************************)
(* Proofs about DiceTransaction: the enable bit, the clock and the owner,  *)
(* for all rates, node ids, retries and bus resets, as long as no          *)
(* generation of the bus comes back.                                       *)
(***************************************************************************)
EXTENDS DiceTransaction, TLAPS

\* What is needed of the types
Types ==
  /\ DOMAIN bus = {"gen", "node", "known", "resets", "this", "earlier"}
  /\ bus.this \in Nat /\ bus.earlier \in Nat
  /\ bus.gen \in Generations /\ bus.known \in Generations /\ bus.node \in Nodes
  /\ bus.resets \in 0 .. MaxResets
  /\ DOMAIN device = {"owner", "enabled", "rate", "request"}
  /\ DOMAIN dice = {"ownerGen", "enabled", "done", "handler"}
  /\ dice.ownerGen \in Generations \cup {-1}
  /\ DOMAIN pc = Threads /\ DOMAIN reg = Threads
  /\ \A t \in Threads : DOMAIN reg[t] = {"node", "again", "table"}
  /\ DOMAIN call = {"rate", "left", "asked", "late"}
  /\ DOMAIN past = {"table", "lost", "failed", "overtaken", "stale"}

\* The first registration is over before the handler runs, and the handler before the
\* card is freed.
Places ==
  /\ pc["update"] \in {"idle", "node", "gen", "swap", "mutex"}
  /\ pc["user"] \in {"probe", "freed"} => pc["update"] = "idle"
  /\ reg["user"].table =>
       pc["user"] \in {"node", "gen", "swap"} /\ pc["update"] = "idle" /\ past.table
  /\ ~reg["update"].table
  /\ pc["user"] = "probe" => past.table

\* A generation of at most as many resets ago
Dist(g) ==
  \E d \in 0 .. bus.resets : bus.gen = g + d \/ bus.gen = g + d - (MaxGen + 1)

\* Before the first registration, and after the card, owner_generation means nothing.
Fresh ==
  \/ pc["user"] \in {"probe", "freed"}
  \/ pc["user"] \in {"node", "gen"} /\ reg["user"].table

\* The driver holds no generation that it has not seen.
Gens ==
  /\ Dist(bus.known)
  /\ ~Fresh => /\ dice.ownerGen = -1 \/ Dist(dice.ownerGen)
               /\ bus.known # bus.gen => dice.ownerGen # bus.gen

\* A device that is enabled was enabled in this generation.
Enabled ==
  /\ device.enabled => dice.enabled \/ past.lost \/ past.failed \/ past.overtaken
  /\ device.enabled => Reaches \/ past.lost \/ past.failed
  /\ dice.enabled => device.enabled \/ ~Settled

InCall ==
  \/ pc["user"] \in {"read", "write", "wait", "enable"}
  \/ pc["user"] \in {"node", "gen", "swap"} /\ ~reg["user"].table

\* Once the call has written the clock, what the device has yet to accept or has
\* accepted and not yet told of is that clock; the completion tells of it, or it was
\* one of an earlier call that arrived late.
Clock ==
  /\ InCall /\ call.asked => device.request \in {"none", call.rate}
  /\ InCall /\ bus.this > 0 => call.asked /\ device.rate = call.rate
  /\ pc["user"] \in {"write", "wait"} /\ dice.done
       => call.late \/ (call.asked /\ device.rate = call.rate)
  /\ pc["user"] \in {"wait", "enable"} => call.asked
  /\ pc["user"] = "enable" => device.rate = call.rate \/ call.late

\* Who registers with success owns the device in the generation the driver holds.
Owner ==
  /\ ~Fresh /\ ~past.table /\ bus.known = bus.gen /\ dice.ownerGen = bus.gen
       /\ pc["user"] # "swap" /\ pc["update"] # "swap"
       => device.owner = bus.node \/ past.stale
  /\ pc["user"] = "probe" => device.owner \in {NoOwner, "other"}
  /\ pc["user"] # "freed" /\ device.owner \notin {NoOwner, "other"} => Reaches \/ past.failed
  /\ pc["user"] = "freed" /\ device.owner = bus.node => past.lost \/ past.failed

IInv == Types /\ Places /\ Gens /\ Enabled /\ Clock /\ Owner

----------------------------------------------------------------------------
LEMMA NextGen ==
  ASSUME NEW g \in Generations
  PROVE  (g + 1) % (MaxGen + 1) = IF g = MaxGen THEN 0 ELSE g + 1
BY DiceAssumption DEF Generations

LEMMA InitInv == Init => IInv
<1> SUFFICES ASSUME Init PROVE IInv
  OBVIOUS
<1>1. Types
  BY DiceAssumption DEF Init, Types, Threads, Generations, NoReg, NoCall, NewCall
<1>2. Gens
  BY DiceAssumption DEF Init, Gens, Dist, Generations, Fresh
<1>3. Places /\ Enabled /\ Clock
  BY DEF Init, Places, Enabled, Clock, InCall, Threads, NoReg
<1>4. Owner
  BY DiceAssumption DEF Init, Owner, Fresh
<1>5. QED
  BY <1>1, <1>2, <1>3, <1>4 DEF IInv

\* After a reset the generation is none the driver holds.
LEMMA ResetInv == IInv /\ BusReset => IInv'
<1> SUFFICES ASSUME IInv, BusReset PROVE IInv'
  OBVIOUS
<1>1. PICK n \in Nodes, k \in 0 .. bus.this, e \in 0 .. bus.earlier :
        bus' = [bus EXCEPT !.gen = (@ + 1) % (MaxGen + 1), !.node = n, !.resets = @ + 1,
                           !.this = k, !.earlier = e]
  BY DEF BusReset
<1>2. /\ DOMAIN bus' = DOMAIN bus /\ bus'.node = n /\ bus'.known = bus.known
      /\ bus'.gen = (bus.gen + 1) % (MaxGen + 1) /\ bus'.resets = bus.resets + 1
      /\ bus'.this = k /\ bus'.earlier = e
  BY <1>1 DEF IInv, Types
<1>3. bus'.gen = IF bus.gen = MaxGen THEN 0 ELSE bus.gen + 1
  BY <1>2, NextGen DEF IInv, Types
<1>4. /\ DOMAIN device' = DOMAIN device /\ device'.owner = NoOwner /\ ~device'.enabled
      /\ device'.request = "none" /\ device'.rate = device.rate
      /\ UNCHANGED <<dice, pc, reg, call, due, past>> /\ bus.resets < MaxResets
  BY DEF BusReset, IInv, Types
<1>5. Types'
  BY <1>2, <1>3, <1>4, DiceAssumption DEF IInv, Types, Generations
<1>6. ASSUME NEW g \in Generations, Dist(g) PROVE Dist(g)' /\ g # bus'.gen
  <2>1. PICK d \in 0 .. bus.resets : bus.gen = g + d \/ bus.gen = g + d - (MaxGen + 1)
    BY <1>6 DEF Dist
  <2>2. d + 1 \in 0 .. bus'.resets /\ d + 1 \in 1 .. MaxGen
    BY <1>2, <1>4, DiceAssumption DEF IInv, Types
  <2>3. bus'.gen = g + (d + 1) \/ bus'.gen = g + (d + 1) - (MaxGen + 1)
    BY <1>3, <2>1, DiceAssumption DEF IInv, Types, Generations
  <2>4. QED
    BY <1>2, <2>2, <2>3, DiceAssumption DEF Dist, Generations
<1>7. bus'.known # bus'.gen
  BY <1>2, <1>6 DEF IInv, Types, Gens
<1>8. Gens'
  BY <1>2, <1>4, <1>6, <1>7, DiceAssumption DEF IInv, Types, Gens, Fresh, Generations
<1>9. Places' /\ Enabled' /\ Clock'
  BY <1>2, <1>4, <1>7 DEF IInv, Types, Places, Enabled, Clock, InCall, Settled
<1>10. Owner'
  BY <1>2, <1>4, <1>7, DiceAssumption DEF IInv, Owner
<1>11. QED
  BY <1>5, <1>8, <1>9, <1>10 DEF IInv
----------------------------------------------------------------------------
(* Steps of the bus and the device *)

BusStep ==
  CoreUpdates \/ OtherOwns \/ Accept \/ \E kind \in {"this", "earlier"} : Notify(kind)

LEMMA BusInv == IInv /\ BusStep => IInv'
<1> SUFFICES ASSUME IInv, BusStep PROVE IInv'
  OBVIOUS
<1> USE DEF IInv, Places
<1>1. CASE CoreUpdates
  <2>1. /\ DOMAIN bus' = DOMAIN bus /\ bus'.gen = bus.gen /\ bus'.known = bus.gen
        /\ bus'.node = bus.node /\ bus'.resets = bus.resets /\ bus.known # bus.gen /\ due'
        /\ bus'.this = bus.this /\ bus'.earlier = bus.earlier
        /\ UNCHANGED <<device, dice, pc, reg, call, past>>
    BY <1>1 DEF CoreUpdates, Types
  <2>2. Types'
    BY <2>1 DEF Types
  <2>3. Gens'
    BY <2>1 DEF Types, Gens, Dist, Fresh, Generations
  <2>4. QED
    BY <2>1, <2>2, <2>3 DEF Enabled, Clock, InCall, Owner, Reaches, FixedGeneration, Settled,
      Fresh, Gens
<1>2. CASE OtherOwns
  <2>1. /\ DOMAIN device' = DOMAIN device /\ device'.owner = "other" /\ device.owner = NoOwner
        /\ device'.enabled = device.enabled /\ device'.rate = device.rate
        /\ device'.request = device.request
        /\ UNCHANGED <<bus, dice, pc, reg, call, due, past>>
    BY <1>2 DEF OtherOwns, Types
  <2>2. bus.node \notin {NoOwner, "other"}
    BY DiceAssumption DEF Types
  <2>3. Types' /\ Gens' /\ Enabled' /\ Clock'
    BY <2>1 DEF Types, Gens, Dist, Fresh, Enabled, Clock, InCall, Reaches, FixedGeneration,
      Settled
  <2>4. Owner'
    BY <2>1, <2>2 DEF Owner, Fresh, Reaches, FixedGeneration
  <2>5. QED
    BY <2>1, <2>3, <2>4
<1>3. CASE Accept
  <2>1. /\ DOMAIN device' = DOMAIN device /\ device'.rate = device.request
        /\ device'.request = "none" /\ device'.owner = device.owner
        /\ device'.enabled = device.enabled /\ device.request # "none"
        /\ UNCHANGED <<dice, pc, reg, call, due, past>>
    BY <1>3 DEF Accept, Types
  <2>2. /\ DOMAIN bus' = DOMAIN bus /\ bus'.gen = bus.gen /\ bus'.known = bus.known
        /\ bus'.node = bus.node /\ bus'.resets = bus.resets
        /\ bus'.this \in Nat /\ bus'.earlier \in Nat
        /\ bus'.this > 0 => bus.this > 0 \/ call.asked
    BY <1>3 DEF Accept, Types
  <2>3. Clock'
    BY <2>1, <2>2 DEF Clock, InCall, Types
  <2>4. QED
    BY <2>1, <2>2, <2>3 DEF Types, Gens, Dist, Enabled, Owner, Reaches, FixedGeneration,
      Settled,
      Fresh
<1>4. ASSUME NEW kind, Notify(kind)
      PROVE  IInv'
  <2>1. /\ DOMAIN bus' = DOMAIN bus /\ bus'.gen = bus.gen /\ bus'.known = bus.known
        /\ bus'.node = bus.node /\ bus'.resets = bus.resets
        /\ bus'.this \in Nat /\ bus'.earlier \in Nat
        /\ bus'.this > 0 => bus.this > 0
        /\ kind = "earlier" \/ bus.this > 0
    BY <1>4 DEF Notify, Types
  <2>2. /\ DOMAIN dice' = DOMAIN dice /\ dice'.ownerGen = dice.ownerGen
        /\ dice'.enabled = dice.enabled
        /\ DOMAIN call' = DOMAIN call /\ call'.rate = call.rate
        /\ call'.asked = call.asked /\ (call.late => call'.late)
        /\ kind = "earlier" /\ pc["user"] \in {"write", "wait"} => call'.late
        /\ UNCHANGED <<device, pc, reg, due, past>>
    BY <1>4 DEF Notify, Types
  <2>3. Clock'
    BY <2>1, <2>2 DEF Clock, InCall
  <2>4. QED
    BY <2>1, <2>2, <2>3 DEF Types, Gens, Dist, Enabled, Owner, Reaches, FixedGeneration,
      Settled,
      Fresh
<1>5. QED
  BY <1>1, <1>2, <1>3, <1>4 DEF BusStep

----------------------------------------------------------------------------
(* Registration *)

LEMMA NodeInv == ASSUME IInv, NEW t \in Threads, RegisterNode(t) PROVE IInv'
BY DEF RegisterNode, Goto, IInv, Types, Places, Gens, Dist, Enabled, Clock, InCall, Owner,
  Reaches,
  FixedGeneration, Settled, Fresh, Threads

LEMMA GenerationInv == ASSUME IInv, NEW t \in Threads, RegisterGeneration(t) PROVE IInv'
BY DEF RegisterGeneration, Goto, IInv, Types, Places, Gens, Dist, Enabled, Clock, InCall,
  Owner, Reaches,
  FixedGeneration, Settled, Fresh, Threads, Generations

LEMMA UnregisteredInv ==
  ASSUME IInv, NEW t \in Threads, pc[t] = "swap", Unregistered(t),
         UNCHANGED <<bus, device, due>>
  PROVE  IInv'
BY DEF Unregistered, Return, NoCall, NewCall, NoReg, Goto, IInv, Types, Places, Gens, Dist,
  Enabled, Clock, InCall,
  Owner, Reaches, FixedGeneration, Settled, Fresh, Threads, Generations

\* The owner is who registers, except that the first registration tells nothing.
LEMMA SwapInv == ASSUME IInv, NEW t \in Threads, RegisterSwap(t) PROVE IInv'
<1> DEFINE l == IF t = "update" THEN "mutex" ELSE IF reg[t].table THEN "idle" ELSE "read"
<1>1. /\ pc[t] = "swap" /\ Reaches /\ UNCHANGED <<bus, due, dice, call>>
      /\ pc' = [pc EXCEPT ![t] = l]
      /\ reg' = [reg EXCEPT ![t] = NoReg]
  BY DEF RegisterSwap, Registered, Goto
<1>2. /\ DOMAIN past' = DOMAIN past /\ past'.lost = past.lost
      /\ past'.failed = past.failed /\ past'.overtaken = past.overtaken
      /\ past'.table <=> past.table /\ reg[t].table
      /\ past'.stale <=> ~reg[t].table /\ reg[t].node # bus.node
  BY DEF RegisterSwap, Registered, IInv, Types
<1>3. /\ DOMAIN device' = DOMAIN device /\ device'.enabled = device.enabled
      /\ device'.rate = device.rate /\ device'.request = device.request
      /\ reg[t].table => device'.owner = device.owner
      /\ ~reg[t].table => device'.owner = reg[t].node
  BY DEF RegisterSwap, IInv, Types
<1>4. DOMAIN NoReg = {"node", "again", "table"} /\ ~NoReg.table
  BY DEF NoReg
<1>5. /\ DOMAIN pc' = Threads /\ DOMAIN reg' = Threads
      /\ \A v \in Threads : reg'[v] = IF v = t THEN NoReg ELSE reg[v]
      /\ \A v \in Threads : pc'[v] = IF v = t THEN l ELSE pc[v]
  BY <1>1 DEF IInv, Types
<1>6. reg[t].table => t = "user" /\ past.table
  BY DEF IInv, Places, Threads
<1> HIDE DEF l
<1>7. l = IF t = "update" THEN "mutex" ELSE IF reg[t].table THEN "idle" ELSE "read"
  BY DEF l
<1>8. Types'
  BY <1>1, <1>2, <1>3, <1>4, <1>5 DEF IInv, Types
<1>9. Places'
  BY <1>1, <1>2, <1>4, <1>5, <1>6, <1>7 DEF IInv, Places, Threads
<1>10. Gens' /\ Enabled'
  BY <1>1, <1>2, <1>3, <1>5, <1>7 DEF IInv, Places, Gens, Dist, Fresh, Enabled, Reaches,
    FixedGeneration, Settled, Threads
<1>11. Clock'
  BY <1>1, <1>2, <1>3, <1>5, <1>7 DEF IInv, Clock, InCall, Threads
<1>12. Owner'
  BY <1>1, <1>2, <1>3, <1>5, <1>6, <1>7 DEF IInv, Places, Owner, Fresh, Reaches,
    FixedGeneration, Threads
<1>13. QED
  BY <1>8, <1>9, <1>10, <1>11, <1>12 DEF IInv

LEMMA AgainInv == ASSUME IInv, NEW t \in Threads, RegisterAgain(t) PROVE IInv'
<1>1. CASE reg[t].again /\ ~reg[t].table
  <2>1. /\ pc[t] = "swap" /\ FixedGeneration # bus.gen
        /\ UNCHANGED <<bus, device, dice, call, due, past>>
        /\ pc' = [pc EXCEPT ![t] = "node"]
        /\ reg' = [reg EXCEPT ![t].again = FALSE]
    BY <1>1 DEF RegisterAgain, Goto
  <2>2. /\ DOMAIN pc' = Threads /\ DOMAIN reg' = Threads
        /\ \A v \in Threads : pc'[v] = IF v = t THEN "node" ELSE pc[v]
        /\ \A v \in Threads : DOMAIN reg'[v] = DOMAIN reg[v] /\ reg'[v].table = reg[v].table
    BY <2>1 DEF IInv, Types
  <2>3. dice.ownerGen # bus.gen
    BY <2>1 DEF FixedGeneration, IInv, Types, Generations
  <2>4. Types' /\ Places'
    BY <1>1, <2>1, <2>2 DEF IInv, Types, Places, Threads
  <2>5. Gens' /\ Enabled' /\ Clock'
    BY <1>1, <2>1, <2>2 DEF IInv, Gens, Dist, Enabled, Clock, InCall, Reaches, FixedGeneration,
      Settled,
      Fresh, Threads
  <2>6. Owner'
    BY <1>1, <2>1, <2>2, <2>3 DEF IInv, Owner, Reaches, FixedGeneration, Fresh, Threads
  <2>7. QED
    BY <2>4, <2>5, <2>6 DEF IInv
<1>2. CASE ~(reg[t].again /\ ~reg[t].table)
  BY <1>2, UnregisteredInv DEF RegisterAgain
<1>3. QED
  BY <1>1, <1>2

LEMMA RegisterInv == ASSUME IInv, NEW t \in Threads, RegisterStep(t) PROVE IInv'
BY NodeInv, GenerationInv, SwapInv, AgainInv, UnregisteredInv DEF RegisterStep, RegisterFails

----------------------------------------------------------------------------
(* The thread of a substream *)

LEMMA CallInv == IInv /\ CallStep => IInv'
<1> SUFFICES ASSUME IInv, CallStep PROVE IInv'
  OBVIOUS
<1> USE DEF IInv, Types, Places, Gens, Dist, Enabled, Clock, InCall, Owner, Reaches,
  FixedGeneration,
  Settled, Fresh, Threads, Goto, Return, NoCall, NewCall
<1>1. CASE RegisterStep("user")
  BY <1>1, RegisterInv
<1>2. CASE ReadClock
  BY <1>2 DEF ReadClock
<1>3. CASE WriteClock
  BY <1>3 DEF WriteClock
<1>4. CASE WriteFails
  BY <1>4 DEF WriteFails
<1>5. CASE ClockAccepted
  BY <1>5 DEF ClockAccepted
<1>6. CASE ClockTimeout
  BY <1>6 DEF ClockTimeout, Register
<1>7. CASE SetEnable
  <2>1. /\ pc["user"] = "enable" /\ (dice.enabled \/ Reaches)
        /\ UNCHANGED <<bus, reg, due, past>>
        /\ pc' = [pc EXCEPT !["user"] = "running"] /\ DOMAIN call' = DOMAIN call
    BY <1>7 DEF SetEnable
  <2>2. /\ DOMAIN device' = DOMAIN device /\ device'.owner = device.owner
        /\ device'.rate = device.rate /\ device'.request = device.request
        /\ device'.enabled <=> device.enabled \/ ~dice.enabled
    BY <1>7 DEF SetEnable
  <2>3. /\ DOMAIN dice' = DOMAIN dice /\ dice'.ownerGen = dice.ownerGen
        /\ dice'.done = dice.done /\ dice'.enabled
    BY <1>7 DEF SetEnable
  <2>4. Types' /\ Places' /\ Gens'
    BY <2>1, <2>2, <2>3
  <2>5. Enabled' /\ Clock' /\ Owner'
    BY <2>1, <2>2, <2>3
  <2>6. QED
    BY <2>4, <2>5
<1>8. CASE SetEnableFails
  BY <1>8 DEF SetEnableFails
<1>9. QED
  BY <1>1, <1>2, <1>3, <1>4, <1>5, <1>6, <1>7, <1>8 DEF CallStep

LEMMA UserInv == IInv /\ (Probe \/ Start \/ Stop \/ CardFree) => IInv'
<1> SUFFICES ASSUME IInv, Probe \/ Start \/ Stop \/ CardFree PROVE IInv'
  OBVIOUS
<1> USE DEF IInv, Types, Places, Gens, Dist, Enabled, Clock, InCall, Owner, Reaches,
  FixedGeneration,
  Settled, Fresh, Threads, Goto, MutexFree
<1>1. CASE Probe
  <2>1. CASE Register("user", TRUE) /\ dice' = [dice EXCEPT !.handler = TRUE]
    BY <1>1, <2>1 DEF Probe, Register
  <2>2. CASE Goto("user", "freed") /\ UNCHANGED <<dice, reg>>
    BY <1>1, <2>2, DiceAssumption DEF Probe, Register
  <2>3. QED
    BY <1>1, <2>1, <2>2 DEF Probe
<1>2. ASSUME ClearEnable
      PROVE  /\ DOMAIN dice' = DOMAIN dice /\ ~dice'.enabled
             /\ dice'.ownerGen = dice.ownerGen /\ dice'.done = dice.done
             /\ DOMAIN device' = DOMAIN device /\ DOMAIN past' = DOMAIN past
             /\ device'.owner = device.owner /\ device'.rate = device.rate
             /\ device'.request = device.request
             /\ device'.enabled => device.enabled /\ (~Reaches \/ past'.lost)
             /\ past'.table = past.table /\ (past.lost => past'.lost)
             /\ past'.failed = past.failed /\ past'.overtaken = past.overtaken
             /\ past'.stale = past.stale
  BY <1>2 DEF ClearEnable
<1>3. CASE Start \/ Stop
  <2>0. /\ Stop => UNCHANGED <<bus, call>>
        /\ Start => /\ bus' = [bus EXCEPT !.earlier = @ + bus.this, !.this = 0]
                    /\ DOMAIN call' = {"rate", "left", "asked", "late"} /\ ~call'.asked
    BY DEF Start, Stop, NewCall
  <2>1. /\ ClearEnable /\ UNCHANGED <<reg, due>> /\ DOMAIN call' = DOMAIN call
        /\ pc["user"] \in {"idle", "running"}
        /\ \E l \in {"idle", "read"} :
             /\ pc' = [pc EXCEPT !["user"] = l]
             /\ l = "read" => ~call'.asked /\ bus'.this = 0
    BY <1>3, <2>0 DEF Start, Stop
  <2>2. /\ DOMAIN bus' = DOMAIN bus /\ bus'.gen = bus.gen /\ bus'.known = bus.known
        /\ bus'.node = bus.node /\ bus'.resets = bus.resets
        /\ bus'.this \in Nat /\ bus'.earlier \in Nat
    <3>1. CASE Start
      <4>1. bus' = [bus EXCEPT !.earlier = bus.earlier + bus.this, !.this = 0]
        BY <2>0, <3>1
      <4>2. bus.earlier + bus.this \in Nat
        BY DEF Types
      <4>3. QED
        BY <4>1, <4>2
    <3>2. CASE Stop
      BY <2>0, <3>2
    <3>3. QED
      BY <1>3, <3>1, <3>2
  <2>3. Types' /\ Places' /\ Gens'
    BY <1>2, <2>1, <2>2
  <2>4. Enabled' /\ Clock' /\ Owner'
    BY <1>2, <2>1, <2>2
  <2>5. QED
    BY <2>3, <2>4
<1>4. CASE CardFree
  <2>1. /\ UNCHANGED <<bus, reg, call, due>> /\ pc["update"] = "idle"
        /\ pc["user"] \in {"idle", "running"}
        /\ pc' = [pc EXCEPT !["user"] = "freed"]
    BY <1>4 DEF CardFree
  <2>2. /\ DOMAIN dice' = DOMAIN dice /\ ~dice'.enabled /\ dice'.ownerGen = -1
    BY <1>4 DEF CardFree
  <2>3. /\ DOMAIN device' = DOMAIN device /\ DOMAIN past' = DOMAIN past
        /\ past'.failed = past.failed /\ (past.lost => past'.lost)
        /\ past'.overtaken = past.overtaken
        /\ device'.enabled => device.enabled /\ (~Reaches \/ past'.lost)
        /\ device'.owner = bus.node => device.owner = bus.node /\ (~Reaches \/ past'.lost)
    <3>1. bus.node # NoOwner
      BY DiceAssumption
    <3>2. CASE ~Reaches /\ UNCHANGED <<device, past>>
      BY <3>2
    <3>3. CASE /\ device' = [device EXCEPT
                    !.owner = IF device.owner = bus.node THEN NoOwner ELSE device.owner,
                    !.enabled = FALSE]
               /\ UNCHANGED past
      BY <3>1, <3>3
    <3>4. CASE Reaches /\ UNCHANGED device /\ past' = [past EXCEPT !.lost = TRUE]
      BY <3>4
    <3>5. QED
      BY <1>4, <3>2, <3>3, <3>4 DEF CardFree
  <2>4. Types' /\ Places' /\ Gens'
    BY <2>1, <2>2, <2>3
  <2>5. Enabled' /\ Clock'
    BY <2>1, <2>2, <2>3
  <2>6. Owner'
    BY <2>1, <2>2, <2>3, DiceAssumption
  <2>7. QED
    BY <2>4, <2>5, <2>6
<1>5. QED
  BY <1>1, <1>3, <1>4

LEMMA UpdateInv == IInv /\ (UpdateStarts \/ UpdateStep) => IInv'
<1> SUFFICES ASSUME IInv, UpdateStarts \/ UpdateStep PROVE IInv'
  OBVIOUS
<1> USE DEF IInv, Types, Places, Gens, Dist, Enabled, Clock, InCall, Owner, Reaches,
  FixedGeneration,
  Settled, Fresh, Threads, Goto, MutexFree
<1>1. CASE UpdateStarts
  BY <1>1 DEF UpdateStarts, Register
<1>2. CASE RegisterStep("update")
  BY <1>2, RegisterInv
<1>3. CASE UpdateEnds
  BY <1>3 DEF UpdateEnds
<1>4. QED
  BY <1>1, <1>2, <1>3 DEF UpdateStep
----------------------------------------------------------------------------
\* The device, the driver and the bus fit each other in every reachable state of the
\* transactions of dice-transaction.c.
THEOREM Invariance == Spec => []IInv
<1>1. Init => IInv
  BY InitInv
<1>2. IInv /\ [Next]_vars => IInv'
  <2>1. CASE UNCHANGED vars
    BY <2>1 DEF vars, IInv, Types, Places, Gens, Dist, Enabled, Clock, InCall, Owner, Reaches,
      FixedGeneration, Settled, Fresh
  <2>2. QED
    BY <2>1, ResetInv, BusInv, UserInv, CallInv, UpdateInv DEF Next, BusStep
<1>3. QED
  BY <1>1, <1>2, PTL DEF Spec

\* snd_dice_transaction_set_enable() and snd_dice_transaction_clear_enable(): a device
\* that sends is known to send, and once a bus reset is dealt with one that is taken for
\* enabled is enabled.
THEOREM EnableKnown == Spec => []EnableIsKnown
<1>1. IInv => EnableIsKnown
  BY DEF IInv, Enabled, EnableIsKnown
<1>2. QED
  BY <1>1, Invariance, PTL

\* set_clock_info(): no acceptance is taken for this call's clock but its own and,
\* which the driver cannot tell, one of an earlier call that arrives late.
THEOREM ClockAsked == Spec => []ClockIsAsked
<1>1. IInv => ClockIsAsked
  BY DEF IInv, Clock, InCall, ClockIsAsked
<1>2. QED
  BY <1>1, Invariance, PTL

\* register_notification_address() and unregister_notification_address(): who holds the
\* generation of the bus is the owner, and a card that is gone is not.
THEOREM OwnerUs == Spec => []OwnerIsUs
<1>1. IInv => OwnerIsUs
  BY DEF IInv, Owner, OwnerIsUs, Fresh, Settled
<1>2. QED
  BY <1>1, Invariance, PTL
=============================================================================
