----------------------------- MODULE AmdtpProofs ------------------------------
(***************************************************************************)
(* Proofs about AmdtpIn and AmdtpOut.                                      *)
(*                                                                         *)
(* Of in-streams, for all modes, that is flags, sizes of data blocks and   *)
(* of buffers that the drivers use: a discontinuity is seen if and only if *)
(* there was one, MIDI bytes reach their port, and the PCM pointers are in *)
(* their ranges.                                                           *)
(*                                                                         *)
(* Of out-streams, for all rates in both modes and any number of packets:  *)
(* rate and timestamps are exactly those of the formulas they come from,   *)
(* and the FIFO of a MIDI port does not overflow.                          *)
(***************************************************************************)
EXTENDS AmdtpIn, AmdtpOut, TLAPS

----------------------------------------------------------------------------
(* The in-stream: what a packet may be, and where the PCM pointers are *)

Kinds == {"none", "first empty", "empty", "unchecked", "checked"}

PacketOK ==
  last \in [kind : Kinds, blocks : Int, port : Int, wire : Int, end : Int]

\* The pointers are in the buffer and in the period, and what the last packet wrote as well;
\* with two frames in a data block the buffer and the blocks keep both aligned.
PointerInv ==
  /\ mode \in Modes /\ Constraints /\ PacketOK
  /\ bufPtr \in 0 .. mode.buffer - 1 /\ perPtr \in 0 .. mode.period - 1
  /\ last.end <= mode.buffer
  /\ tasklet => earned
  /\ mode.double => bufPtr % 32 = 0

\* The counters as numbers: an interval of literals is a long case split for the provers.
LEMMA CounterIs == \A x : x \in Counters <=> x \in Int /\ 0 <= x /\ x <= 255
BY DEF Counters

----------------------------------------------------------------------------
(* Arithmetic of the data block counter, modulo 256 *)

\* The counter of the first empty packet, eight too many, is never that of a good packet:
\* what is missed after it is a multiple of 16.
LEMMA WrongEmpty ==
  ASSUME NEW x \in Int, 0 <= x, x <= 255, NEW n \in Nat, n % 16 = 0
  PROVE  x # (x + n - 8) % 256
<1>1. SUFFICES ASSUME x = (x + n - 8) % 256 PROVE FALSE
  OBVIOUS
<1>2. PICK q \in Int : n = 16 * q
  OBVIOUS
<1>3. PICK p \in Int : p = (x + n - 8) \div 256
  OBVIOUS
<1>4. x + n - 8 = 256 * p + x
  BY <1>1, <1>3
<1>5. 2 * q - 1 = 32 * p
  BY <1>2, <1>4
<1> QED BY <1>5

\* The counter is the expected one if nothing, or a whole turn of it, was missed.
LEMMA NothingMissed ==
  ASSUME NEW x \in Int, 0 <= x, x <= 255, NEW n \in Nat
  PROVE  x = (x + n) % 256 <=> n % 256 = 0
OBVIOUS

LEMMA NoGap ==
  ASSUME NEW x \in Int, 0 <= x, x <= 255
  PROVE  (x + 0) % 256 = x
OBVIOUS

\* The same after the same data blocks, the same before them
LEMMA SameStep ==
  ASSUME NEW x \in Int, 0 <= x, x <= 255, NEW y \in Int, 0 <= y, y <= 255, NEW a \in Nat,
         (x + a) % 256 = (y + a) % 256
  PROVE  x = y
OBVIOUS

----------------------------------------------------------------------------
(* Modes and packets *)

\* What AmdtpInAssumption says of the mode of the stream
LEMMA ModeIs ==
  ASSUME mode \in Modes
  PROVE  /\ \A b \in mode.blocks : b \in Int /\ 0 <= b /\ b <= 255
         /\ mode.dbs \in Nat \ {0} /\ mode.interval \in Nat /\ mode.double \in BOOLEAN
         /\ mode.buffer \in Nat \ {0} /\ mode.period \in 1 .. mode.buffer
         /\ mode.maxMissed \in Nat
         /\ Has("WRONG_DBS") \/ mode.dbs = Quadlets
         /\ mode.interval > 0 \/ Has("SKIP_DBC_ZERO_CHECK") => Has("DBC_IS_END_EVENT")
         /\ Has("EMPTY_HAS_WRONG_DBC") =>
              ~Has("DBC_IS_END_EVENT") /\ \A b \in mode.blocks : b % 16 = 0
         /\ mode.double => Has("BLOCKING") /\ mode.blocks \subseteq {0, 16}
         /\ FramesPerBlock = IF mode.double THEN 2 ELSE 1
BY AmdtpInAssumption DEF Has, FramesPerBlock

\* The driver counts as many data blocks as there are.
LEMMA BlocksAre ==
  ASSUME mode \in Modes, NEW b \in mode.blocks
  PROVE  DataBlocks(b) = b /\ b \in Int /\ 0 <= b /\ b <= 255
<1>1. b \in Int /\ 0 <= b /\ b <= 255
  BY ModeIs
<1>2. (b * 2) \div 2 = b
  BY <1>1
<1> QED BY <1>1, <1>2, ModeIs DEF DataBlocks, Quadlets

LEMMA PacketType ==
  ASSUME NEW k \in Kinds, NEW x \in Int, NEW y \in Int, NEW z \in Int, NEW e \in Int
  PROVE  LET p == [kind |-> k, blocks |-> x, port |-> y, wire |-> z, end |-> e]
         IN  /\ p \in [kind : Kinds, blocks : Int, port : Int, wire : Int, end : Int]
             /\ p.kind = k /\ p.port = y /\ p.wire = z /\ p.end = e
OBVIOUS

LEMMA PacketAfterNothing ==
  ASSUME PacketOK, Nothing
  PROVE  PacketOK' /\ last'.end = 0 /\ last'.kind \in {"none", "first empty"}
         /\ (last'.kind = "first empty" <=> last.kind = "first empty")
<1>1. last.kind \in Kinds
  BY DEF PacketOK
<1>2. PICK k \in Kinds :
        /\ last' = [kind |-> k, blocks |-> 0, port |-> 0, wire |-> 0, end |-> 0]
        /\ k \in {"none", "first empty"} /\ (k = "first empty" <=> last.kind = "first empty")
  BY <1>1 DEF PacketOK, Nothing, Kinds
<1>3. 0 \in Int
  OBVIOUS
<1>4. /\ last' \in [kind : Kinds, blocks : Int, port : Int, wire : Int, end : Int]
      /\ last'.end = 0 /\ last'.kind = k
  BY <1>2, <1>3, PacketType, Zenon
<1> QED BY <1>2, <1>4 DEF PacketOK

\* The frames of a packet are no more than a period, and end in the buffer.
LEMMA FramesFit ==
  ASSUME PointerInv, NEW b \in mode.blocks
  PROVE  /\ b * FramesPerBlock \in 0 .. mode.period
         /\ mode.double => b \in {0, 16} /\ mode.buffer % 32 = 0
         /\ TransferEnd(b) \in Int /\ TransferEnd(b) <= mode.buffer
<1>1. mode \in Modes /\ b \in Int /\ 0 <= b /\ b <= 255
  BY BlocksAre DEF PointerInv
<1>2. b * FramesPerBlock <= mode.period
  BY DEF PointerInv, Constraints
<1>3. /\ mode.double => FramesPerBlock = 2 /\ b \in {0, 16} /\ mode.buffer % 32 = 0
      /\ ~mode.double => FramesPerBlock = 1
  BY <1>1, ModeIs DEF PointerInv, Constraints
<1>4. /\ mode.buffer \in Nat /\ mode.period \in Nat /\ mode.period <= mode.buffer
      /\ bufPtr \in Nat /\ bufPtr < mode.buffer
  BY <1>1, ModeIs DEF PointerInv
<1>5. CASE mode.double
  <2>1. bufPtr % 32 = 0
    BY <1>5 DEF PointerInv
  <2>2. bufPtr + 32 <= mode.buffer
    BY <1>3, <1>4, <1>5, <2>1
  <2> QED BY <1>1, <1>2, <1>3, <1>4, <1>5, <2>2 DEF TransferEnd
<1>6. CASE ~mode.double
  <2>1. FramesPerBlock = 1
    BY <1>3, <1>6
  <2> QED BY <1>1, <1>2, <1>4, <1>6, <2>1 DEF TransferEnd
<1> QED BY <1>5, <1>6, <1>1, <1>2, <1>3, <1>4, ModeIs

\* What handle_in_packet() has made of a packet it takes
LEMMA PacketAccepted ==
  ASSUME PointerInv, sent \in Counters, dbc \in Counters \cup {UINT_MAX},
         NEW b \in mode.blocks, Accept(b)
  PROVE  /\ PacketOK' /\ last'.end <= mode.buffer
         /\ last'.kind = "checked" =>
              b > 0 /\ ~Unchecked(b) /\ last'.port = dbc % 8 /\ last'.wire = sent % 8
         /\ b = 0 /\ (dbc = UINT_MAX \/ last.kind = "first empty") =>
              last'.kind = "first empty"
<1>1. /\ mode \in Modes /\ DataBlocks(b) = b /\ b \in Int /\ 0 <= b /\ b <= 255
      /\ last.kind \in Kinds
  BY BlocksAre DEF PointerInv, PacketOK
<1> DEFINE k == CASE DataBlocks(b) = 0 /\ dbc = UINT_MAX -> "first empty"
                  [] DataBlocks(b) = 0 /\ dbc # UINT_MAX ->
                       IF last.kind = "first empty" THEN last.kind ELSE "empty"
                  [] DataBlocks(b) > 0 /\ Unchecked(b) -> "unchecked"
                  [] OTHER -> "checked"
           x == DataBlocks(b)
           y == MidiPort
           z == sent % 8
           e == IF pcm THEN TransferEnd(DataBlocks(b)) ELSE 0
<1>2. /\ k \in Kinds
      /\ k = "checked" => b > 0 /\ ~Unchecked(b)
      /\ b = 0 /\ (dbc = UINT_MAX \/ last.kind = "first empty") => k = "first empty"
  <2>1. CASE b = 0 /\ dbc = UINT_MAX
    <3>1. k = "first empty"
      BY <1>1, <2>1
    <3> HIDE DEF k
    <3> QED BY <2>1, <3>1 DEF Kinds
  <2>2. CASE b = 0 /\ dbc # UINT_MAX
    <3>1. DataBlocks(b) = 0 /\ ~(DataBlocks(b) > 0)
      BY <1>1, <2>2
    <3>2. k = IF last.kind = "first empty" THEN last.kind ELSE "empty"
      BY <2>2, <3>1, Zenon
    <3> HIDE DEF k
    <3> QED BY <2>2, <3>2 DEF Kinds
  <2>3. CASE b > 0 /\ Unchecked(b)
    <3>1. DataBlocks(b) # 0 /\ DataBlocks(b) > 0 /\ b # 0
      BY <1>1, <2>3
    <3>2. k = "unchecked"
      BY <2>3, <3>1, Zenon
    <3> HIDE DEF k
    <3> QED BY <2>3, <3>1, <3>2 DEF Kinds
  <2>4. CASE b > 0 /\ ~Unchecked(b)
    <3>1. DataBlocks(b) # 0 /\ DataBlocks(b) > 0 /\ b # 0
      BY <1>1, <2>4
    <3>2. k = "checked"
      BY <2>4, <3>1, Zenon
    <3> HIDE DEF k
    <3> QED BY <2>4, <3>1, <3>2 DEF Kinds
  <2>5. b = 0 \/ b > 0
    BY <1>1
  <2> HIDE DEF k
  <2> QED BY <2>1, <2>2, <2>3, <2>4, <2>5
<1>3. x \in Int /\ y \in Int /\ z \in Int
  BY <1>1, CounterIs DEF MidiPort, UINT_MAX
<1>4. mode.buffer \in Nat
  BY <1>1, ModeIs
<1>5. e \in Int /\ e <= mode.buffer
  BY FramesFit, <1>1, <1>4
<1>6. last' = [kind |-> k, blocks |-> x, port |-> y, wire |-> z, end |-> e]
  BY DEF Accept
<1> HIDE DEF k, x, z, e
<1>7. /\ last' \in [kind : Kinds, blocks : Int, port : Int, wire : Int, end : Int]
      /\ last'.kind = k /\ last'.port = y /\ last'.wire = z /\ last'.end = e
  BY <1>2, <1>3, <1>5, <1>6, PacketType, Zenon
<1> QED BY <1>2, <1>5, <1>7 DEF PacketOK, z, MidiPort

\* update_pcm_pointers()
LEMMA PointersMove ==
  ASSUME PointerInv, NEW b \in mode.blocks, UpdatePcmPointers(b)
  PROVE  /\ bufPtr' \in 0 .. mode.buffer - 1 /\ perPtr' \in 0 .. mode.period - 1
         /\ tasklet' => earned'
         /\ mode.double => bufPtr' % 32 = 0
<1>1. /\ mode \in Modes /\ bufPtr \in 0 .. mode.buffer - 1 /\ perPtr \in 0 .. mode.period - 1
      /\ tasklet => earned
      /\ mode.double => bufPtr % 32 = 0
  BY DEF PointerInv
<1>2. /\ mode.buffer \in Nat /\ mode.period \in Nat /\ mode.period <= mode.buffer
      /\ mode.double => FramesPerBlock = 2
  BY <1>1, ModeIs
<1>3. PICK f \in 0 .. mode.period : f = b * FramesPerBlock
  BY FramesFit
<1>4. mode.double => f % 32 = 0 /\ mode.buffer % 32 = 0
  BY <1>2, <1>3, FramesFit
<1>5. /\ bufPtr' = IF bufPtr + f >= mode.buffer THEN bufPtr + f - mode.buffer ELSE bufPtr + f
      /\ \/ perPtr + f >= mode.period /\ perPtr' = perPtr + f - mode.period /\ earned'
         \/ /\ perPtr + f < mode.period /\ perPtr' = perPtr + f
            /\ tasklet' = tasklet /\ earned' = earned
  BY <1>1, <1>2, <1>3 DEF UpdatePcmPointers
<1> QED BY <1>1, <1>2, <1>4, <1>5

----------------------------------------------------------------------------
(* The counters of the device and of the driver *)

\* As long as the driver follows the device and nothing else has happened to it, the counter
\* it expects is behind that of the device by the data blocks it has missed; or, if
\* the stream began with an empty packet of M-Audio, by eight more.
CounterInv ==
  /\ sent \in Counters /\ dbc \in Counters \cup {UINT_MAX}
  /\ missed \in Nat /\ unexplained \in BOOLEAN /\ restarted \in BOOLEAN
  /\ restarted => Has("SKIP_DBC_ZERO_CHECK")
  /\ Has("EMPTY_HAS_WRONG_DBC") => missed % 16 = 0
  /\ dead = "no" /\ dbc # UINT_MAX /\ ~unexplained =>
       \/ sent = (dbc + missed) % 256
       \/ /\ Has("EMPTY_HAS_WRONG_DBC") /\ sent = (dbc + missed - 8) % 256
          /\ missed = 0 => last.kind = "first empty"

InInv == PointerInv /\ CounterInv /\ LossIsNoticed /\ MidiPortIsRight

LEMMA CounterTypes ==
  ASSUME CounterInv
  PROVE  /\ sent \in Int /\ 0 <= sent /\ sent <= 255
         /\ dbc \in Int /\ -1 <= dbc /\ dbc <= 255
         /\ missed \in Nat /\ unexplained \in BOOLEAN
<1>1. sent \in Counters /\ missed \in Nat /\ unexplained \in BOOLEAN
  BY DEF CounterInv
<1>2. dbc \in Counters \/ dbc = -1
  BY DEF CounterInv, UINT_MAX
<1>3. dbc \in Int /\ -1 <= dbc /\ dbc <= 255
  BY <1>2, CounterIs
<1> QED BY <1>1, <1>3, CounterIs

\* The step of the device, under the quirks it has
LEMMA Device ==
  ASSUME PointerInv, CounterInv, NEW b \in mode.blocks
  PROVE  /\ DataBlocks(b) = b /\ b \in Int /\ 0 <= b /\ b <= 255 /\ Advance(b) \in Nat
         /\ SentAfter(b) \in Counters
         /\ ~restarted => SentAfter(b) = (sent + Advance(b)) % 256
         /\ b = 0 => Advance(b) = 0
         /\ Advance(b) = IF DataBlocks(b) > 0 /\ mode.interval > 0
                         THEN mode.interval ELSE DataBlocks(b)
         /\ Has("EMPTY_HAS_WRONG_DBC") => ~Has("DBC_IS_END_EVENT")
         /\ ~Has("DBC_IS_END_EVENT") =>
              ~restarted /\ ~Has("SKIP_DBC_ZERO_CHECK") /\ Advance(b) = b
         /\ Has("EMPTY_HAS_WRONG_DBC") => Advance(b) = b /\ b % 16 = 0
<1>1. /\ mode \in Modes /\ DataBlocks(b) = b /\ b \in Int /\ 0 <= b /\ b <= 255
  BY BlocksAre DEF PointerInv
<1>2. mode.interval \in Nat
  BY <1>1, ModeIs
<1>3. /\ Has("EMPTY_HAS_WRONG_DBC") => ~Has("DBC_IS_END_EVENT") /\ b % 16 = 0
      /\ ~Has("DBC_IS_END_EVENT") => mode.interval = 0 /\ ~Has("SKIP_DBC_ZERO_CHECK")
  BY <1>1, <1>2, ModeIs
<1>4. /\ Advance(b) \in Nat /\ (b = 0 => Advance(b) = 0)
      /\ Advance(b) = IF DataBlocks(b) > 0 /\ mode.interval > 0
                      THEN mode.interval ELSE DataBlocks(b)
      /\ mode.interval = 0 => Advance(b) = b
  BY <1>1, <1>2 DEF Advance
<1>5. PICK a \in Nat : Advance(b) = a
  BY <1>4
<1>6. /\ SentAfter(b) \in Counters
      /\ ~restarted => SentAfter(b) = (sent + Advance(b)) % 256
  <2>1. sent \in Int /\ 0 <= sent /\ sent <= 255
    BY CounterIs DEF CounterInv
  <2>2. (sent + a) % 256 \in Counters
    <3>1. 0 <= (sent + a) % 256 /\ (sent + a) % 256 <= 255
      BY <2>1
    <3> QED BY <2>1, <3>1, CounterIs
  <2>3. SentAfter(b) = IF restarted THEN 0 ELSE (sent + a) % 256
    BY <1>5 DEF SentAfter
  <2> QED BY <1>5, <2>2, <2>3, CounterIs
<1> QED BY <1>1, <1>3, <1>4, <1>6 DEF CounterInv

\* The counter handle_in_packet() gets out of the packet, and when it is not looked at
LEMMA PacketSeen ==
  ASSUME PointerInv, CounterInv, NEW b \in mode.blocks
  PROVE  /\ Has("DBC_IS_END_EVENT") =>
              PacketCounter(b) = SentAfter(b) /\ (restarted => Unchecked(b))
         /\ ~Has("DBC_IS_END_EVENT") /\ (b > 0 \/ ~Has("EMPTY_HAS_WRONG_DBC")) =>
              PacketCounter(b) = sent
         /\ b = 0 /\ Has("EMPTY_HAS_WRONG_DBC") =>
              PacketCounter(b) = IF dbc # UINT_MAX THEN dbc ELSE (sent + 8) % 256
         /\ ~Has("DBC_IS_END_EVENT") => (Unchecked(b) <=> dbc = UINT_MAX)
<1>1. /\ DataBlocks(b) = b /\ b \in Int /\ 0 <= b /\ b <= 255
      /\ Has("EMPTY_HAS_WRONG_DBC") => ~Has("DBC_IS_END_EVENT")
      /\ ~Has("DBC_IS_END_EVENT") => ~restarted /\ ~Has("SKIP_DBC_ZERO_CHECK")
  BY Device
<1>2. restarted => Has("SKIP_DBC_ZERO_CHECK")
  BY DEF CounterInv
<1>3. Has("DBC_IS_END_EVENT") => PacketCounter(b) = SentAfter(b)
  BY <1>1 DEF PacketCounter, Field
<1>4. Has("DBC_IS_END_EVENT") /\ restarted => Unchecked(b)
  BY <1>2, <1>3 DEF Unchecked, SentAfter
<1>5. ~Has("DBC_IS_END_EVENT") /\ (b > 0 \/ ~Has("EMPTY_HAS_WRONG_DBC")) =>
        PacketCounter(b) = sent
  BY <1>1 DEF PacketCounter, Field
<1>6. b = 0 /\ Has("EMPTY_HAS_WRONG_DBC") =>
        PacketCounter(b) = IF dbc # UINT_MAX THEN dbc ELSE (sent + 8) % 256
  BY <1>1 DEF PacketCounter, Field
<1>7. ~Has("DBC_IS_END_EVENT") => (Unchecked(b) <=> dbc = UINT_MAX)
  BY <1>1 DEF Unchecked
<1> QED BY <1>3, <1>4, <1>5, <1>6, <1>7

\* A packet whose counter is looked at is continuous only if the driver knows the counter
\* and has missed nothing; and discontinuous only if there was something to miss.
LEMMA CheckedPacket ==
  ASSUME PointerInv, CounterInv, dead = "no", NEW b \in mode.blocks, ~Unchecked(b)
  PROVE  /\ dbc # UINT_MAX
         /\ ~Lost(b) /\ (b > 0 \/ ~Has("EMPTY_HAS_WRONG_DBC")) =>
              sent = dbc /\ (unexplained \/ missed % 256 = 0)
         /\ Lost(b) => \/ missed > 0 \/ unexplained
                       \/ Has("EMPTY_HAS_WRONG_DBC") /\ last.kind = "first empty"
<1>1. dbc # UINT_MAX
  BY DEF Unchecked
<1>2. /\ sent \in Int /\ 0 <= sent /\ sent <= 255
      /\ dbc \in Int /\ 0 <= dbc /\ dbc <= 255 /\ missed \in Nat
  BY <1>1, CounterIs DEF CounterInv
<1>3. /\ Has("EMPTY_HAS_WRONG_DBC") => missed % 16 = 0
      /\ ~unexplained =>
           \/ sent = (dbc + missed) % 256
           \/ /\ Has("EMPTY_HAS_WRONG_DBC") /\ sent = (dbc + missed - 8) % 256
              /\ missed = 0 => last.kind = "first empty"
  BY <1>1 DEF CounterInv
<1>4. ~unexplained /\ sent = dbc => missed % 256 = 0
  <2>1. sent = (dbc + missed) % 256 /\ sent = dbc => missed % 256 = 0
    BY <1>2, NothingMissed
  <2>2. sent = (dbc + missed - 8) % 256 /\ missed % 16 = 0 => sent # dbc
    BY <1>2, WrongEmpty
  <2> QED BY <1>3, <2>1, <2>2
<1>5. ~unexplained /\ missed = 0 =>
        sent = dbc \/ (Has("EMPTY_HAS_WRONG_DBC") /\ last.kind = "first empty")
  <2>1. missed = 0 /\ sent = (dbc + missed) % 256 => sent = dbc
    BY <1>2, NoGap
  <2> QED BY <1>3, <2>1
<1>6. missed = 0 \/ missed > 0
  BY <1>2
<1>7. CASE Has("DBC_IS_END_EVENT")
  <2>1. /\ ~restarted /\ ~Has("EMPTY_HAS_WRONG_DBC")
        /\ PacketCounter(b) = (sent + Advance(b)) % 256
    BY <1>7, Device, PacketSeen
  <2>2. Lost(b) <=> PacketCounter(b) # (dbc + Advance(b)) % 256
    BY <1>7, Device DEF Lost
  <2>3. PICK a \in Nat : Advance(b) = a
    BY Device
  <2>4. ~Lost(b) => sent = dbc
    <3>1. (sent + a) % 256 = (dbc + a) % 256 => sent = dbc
      BY <1>2, SameStep
    <3> QED BY <2>1, <2>2, <2>3, <3>1, Zenon
  <2>5. sent = dbc => ~Lost(b)
    BY <2>1, <2>2
  <2> QED BY <1>1, <1>4, <1>5, <1>6, <2>4, <2>5, Zenon
<1>8. CASE ~Has("DBC_IS_END_EVENT") /\ (b > 0 \/ ~Has("EMPTY_HAS_WRONG_DBC"))
  <2>1. PacketCounter(b) = sent
    BY <1>8, PacketSeen
  <2>2. Lost(b) <=> sent # dbc
    BY <1>8, <2>1 DEF Lost
  <2> QED BY <1>1, <1>4, <1>5, <1>6, <2>2, Zenon
<1>9. CASE ~Has("DBC_IS_END_EVENT") /\ b = 0 /\ Has("EMPTY_HAS_WRONG_DBC")
  <2>1. PacketCounter(b) = dbc
    BY <1>1, <1>9, PacketSeen
  <2>2. ~Lost(b)
    BY <1>9, <2>1 DEF Lost
  <2>3. ~(b > 0)
    BY <1>9
  <2> QED BY <1>1, <1>9, <2>2, <2>3, Zenon
<1>10. b = 0 \/ b > 0
  BY Device
<1>11. Has("DBC_IS_END_EVENT") \/ ~Has("DBC_IS_END_EVENT")
  OBVIOUS
<1> QED BY <1>7, <1>8, <1>9, <1>10, <1>11

\* A packet that is taken keeps the two counters in step.
LEMMA CounterTaken ==
  ASSUME PointerInv, CounterInv, dead = "no", NEW b \in mode.blocks, Accept(b),
         sent' = SentAfter(b), restarted' = FALSE, mode' = mode
  PROVE  CounterInv'
<1>1. /\ sent \in Int /\ 0 <= sent /\ sent <= 255
      /\ dbc \in Int /\ -1 <= dbc /\ dbc <= 255
      /\ missed \in Nat /\ unexplained \in BOOLEAN
  BY CounterTypes
<1>2. sent \in Counters /\ dbc \in Counters \cup {UINT_MAX}
  BY DEF CounterInv
<1>3. /\ DataBlocks(b) = b /\ b \in Int /\ 0 <= b /\ b <= 255
      /\ Has("EMPTY_HAS_WRONG_DBC") => missed % 16 = 0
  BY Device DEF CounterInv
<1>4. sent' \in Int /\ 0 <= sent' /\ sent' <= 255
  <2>1. sent' \in Counters
    BY Device
  <2> QED BY <2>1, CounterIs
<1>5. \A flag : Has(flag)' <=> Has(flag)
  BY DEF Has
<1>6. dbc' = NextCounter(b) /\ ~Lost(b)
  BY DEF Accept
<1>7. \/ Unchecked(b) /\ missed' = 0 /\ unexplained' = FALSE
      \/ ~Unchecked(b) /\ missed' = missed /\ unexplained' = unexplained
  BY DEF Accept
<1>8. missed' \in Nat /\ unexplained' \in BOOLEAN
  <2>1. 0 \in Nat
    OBVIOUS
  <2> QED BY <1>1, <1>7, <2>1, Zenon
<1>9. Has("EMPTY_HAS_WRONG_DBC") => missed' % 16 = 0
  BY <1>3, <1>7
<1>10. \/ Has("DBC_IS_END_EVENT")
       \/ ~Has("DBC_IS_END_EVENT") /\ b > 0
       \/ ~Has("DBC_IS_END_EVENT") /\ b = 0 /\ ~Has("EMPTY_HAS_WRONG_DBC")
       \/ ~Has("DBC_IS_END_EVENT") /\ b = 0 /\ Has("EMPTY_HAS_WRONG_DBC")
  BY <1>3
<1> DEFINE Seen == ~(b = 0 /\ Has("EMPTY_HAS_WRONG_DBC"))
<1>11. Seen => dbc' = sent'
  <2>1. CASE Has("DBC_IS_END_EVENT")
    BY <1>6, <2>1, PacketSeen DEF NextCounter
  <2>2. CASE ~Has("DBC_IS_END_EVENT") /\ Seen
    <3>1. PacketCounter(b) = sent
      BY <1>10, <2>2, PacketSeen
    <3>2. SentAfter(b) = (sent + b) % 256
      BY <2>2, Device
    <3> QED BY <1>3, <1>6, <2>2, <3>1, <3>2 DEF NextCounter
  <2> QED BY <2>1, <2>2
<1>12. ~unexplained' /\ Seen => missed' % 256 = 0
  <2>1. CASE Unchecked(b)
    <3>1. missed' = 0
      BY <1>7, <2>1
    <3> QED BY <3>1
  <2>2. CASE ~Unchecked(b)
    <3>1. Seen => b > 0 \/ ~Has("EMPTY_HAS_WRONG_DBC")
      BY <1>3
    <3>2. ~unexplained /\ Seen => missed % 256 = 0
      BY <1>6, <2>2, <3>1, CheckedPacket, Zenon
    <3>3. missed' = missed /\ unexplained' = unexplained
      BY <1>7, <2>2
    <3> QED BY <3>2, <3>3, Zenon
  <2> QED BY <2>1, <2>2
<1>13. CASE Seen
  <2>1. ~unexplained' => sent' = (dbc' + missed') % 256
    <3>1. missed' % 256 = 0 => sent' = (sent' + missed') % 256
      <4>1. PICK x \in Int : x = sent' /\ 0 <= x /\ x <= 255
        BY <1>4
      <4>2. PICK n \in Nat : n = missed'
        BY <1>8
      <4>3. x = (x + n) % 256 <=> n % 256 = 0
        BY <4>1, NothingMissed
      <4> QED BY <4>1, <4>2, <4>3, Zenon
    <3> QED BY <1>11, <1>12, <1>13, <3>1
  <2>2. sent' \in Counters /\ dbc' \in Counters
    BY <1>4, <1>11, <1>13, CounterIs
  <2> QED BY <1>5, <1>8, <1>9, <2>1, <2>2 DEF CounterInv
<1>14. CASE ~Seen
  <2>1. ~Has("DBC_IS_END_EVENT") /\ b = 0 /\ Has("EMPTY_HAS_WRONG_DBC")
    BY <1>14, Device
  <2>2. sent' = sent
    <3>1. SentAfter(b) = (sent + 0) % 256
      BY <2>1, Device
    <3> QED BY <1>1, <3>1
  <2>3. CASE dbc = UINT_MAX
    <3>1. last'.kind = "first empty"
      BY <1>1, <2>1, <2>3, <1>2, PacketAccepted
    <3>2. Unchecked(b) /\ PacketCounter(b) = (sent + 8) % 256
      BY <2>1, <2>3, PacketSeen
    <3>3. dbc' = (((sent + 8) % 256) + 0) % 256 /\ missed' = 0
      BY <1>3, <1>6, <1>7, <2>1, <3>2 DEF NextCounter
    <3>4. dbc' \in Int /\ 0 <= dbc' /\ dbc' <= 255 /\ sent' = (dbc' + 0 - 8) % 256
      BY <1>1, <2>2, <3>3
    <3>5. sent' = (dbc' + missed' - 8) % 256
      BY <3>3, <3>4
    <3>6. sent' \in Counters /\ dbc' \in Counters
      BY <1>4, <3>4, CounterIs
    <3> QED BY <1>5, <1>8, <1>9, <2>1, <3>1, <3>5, <3>6, Zenon DEF CounterInv
  <2>4. CASE dbc # UINT_MAX
    <3>1. ~Unchecked(b) /\ PacketCounter(b) = dbc
      BY <2>1, <2>4, PacketSeen
    <3>2. dbc' = (dbc + 0) % 256 /\ missed' = missed /\ unexplained' = unexplained
      BY <1>3, <1>6, <1>7, <2>1, <3>1 DEF NextCounter
    <3>3. dbc' = dbc
      BY <1>1, <2>4, <3>2 DEF UINT_MAX
    <3>4. last.kind = "first empty" => last'.kind = "first empty"
      BY <1>1, <2>1, <1>2, PacketAccepted
    <3>5. ~unexplained =>
            \/ sent = (dbc + missed) % 256
            \/ /\ Has("EMPTY_HAS_WRONG_DBC") /\ sent = (dbc + missed - 8) % 256
               /\ missed = 0 => last.kind = "first empty"
      BY <2>4 DEF CounterInv
    <3>6. ~unexplained' =>
            \/ sent' = (dbc' + missed') % 256
            \/ /\ Has("EMPTY_HAS_WRONG_DBC")' /\ sent' = (dbc' + missed' - 8) % 256
               /\ missed' = 0 => last'.kind = "first empty"
      <4>1. missed' = missed /\ unexplained' = unexplained
        BY <3>2
      <4> QED BY <1>5, <2>2, <3>3, <3>4, <3>5, <4>1, Zenon
    <3>7. sent' \in Counters /\ dbc' \in Counters \cup {UINT_MAX}
      BY <2>2, <3>3 DEF CounterInv
    <3> QED BY <1>5, <1>8, <1>9, <3>6, <3>7, Zenon DEF CounterInv
  <2> QED BY <2>3, <2>4
<1> QED BY <1>13, <1>14

\* A packet that is lost or ignored is counted as missed.
LEMMA CounterMissed ==
  ASSUME PointerInv, CounterInv, dead = "no", NEW b \in mode.blocks, Miss(b), Nothing,
         sent' = SentAfter(b), restarted' = FALSE, mode' = mode, dbc' = dbc
  PROVE  CounterInv'
<1>1. /\ sent \in Int /\ 0 <= sent /\ sent <= 255
      /\ dbc \in Int /\ -1 <= dbc /\ dbc <= 255
      /\ missed \in Nat /\ unexplained \in BOOLEAN
  BY CounterTypes
<1>2. PICK a \in Nat : a = Advance(b)
  BY Device
<1>3. /\ ~restarted => sent' = (sent + a) % 256
      /\ Has("EMPTY_HAS_WRONG_DBC") => a % 16 = 0
  BY <1>2, Device
<1>4. missed' = missed + a /\ unexplained' = (unexplained \/ restarted)
  BY <1>2 DEF Miss
<1>5. \A flag : Has(flag)' <=> Has(flag)
  BY DEF Has
<1>6. missed' \in Nat /\ (missed % 16 = 0 /\ a % 16 = 0 => missed' % 16 = 0)
      /\ (missed' = 0 => missed = 0)
  BY <1>1, <1>4
<1>7. last.kind = "first empty" => last'.kind = "first empty"
  BY PacketAfterNothing DEF PointerInv
<1>8. dbc # -1 =>
        /\ sent = (dbc + missed) % 256 => (sent + a) % 256 = (dbc + missed') % 256
        /\ sent = (dbc + missed - 8) % 256 => (sent + a) % 256 = (dbc + missed' - 8) % 256
  BY <1>1, <1>4
<1>9. sent' \in Counters /\ dbc' \in Counters \cup {UINT_MAX} /\ unexplained' \in BOOLEAN
  BY <1>1, <1>4, Device, CounterIs DEF UINT_MAX
<1>10. dbc # UINT_MAX /\ ~unexplained' =>
        \/ sent' = (dbc' + missed') % 256
        \/ /\ Has("EMPTY_HAS_WRONG_DBC") /\ sent' = (dbc' + missed' - 8) % 256
           /\ missed' = 0 => last'.kind = "first empty"
  <2> SUFFICES ASSUME dbc # UINT_MAX, ~unexplained'
               PROVE  \/ sent' = (dbc' + missed') % 256
                      \/ /\ Has("EMPTY_HAS_WRONG_DBC") /\ sent' = (dbc' + missed' - 8) % 256
                         /\ missed' = 0 => last'.kind = "first empty"
    OBVIOUS
  <2>1. ~unexplained /\ ~restarted
    BY <1>4, Zenon
  <2>2. dbc # -1 /\ dbc' = dbc /\ sent' = (sent + a) % 256
    BY <1>3, <2>1 DEF UINT_MAX
  <2>3. \/ sent = (dbc + missed) % 256
        \/ /\ Has("EMPTY_HAS_WRONG_DBC") /\ sent = (dbc + missed - 8) % 256
           /\ missed = 0 => last.kind = "first empty"
    BY <2>1, Zenon DEF CounterInv
  <2>4. CASE sent = (dbc + missed) % 256
    <3>1. (sent + a) % 256 = (dbc + missed') % 256
      BY <1>8, <2>2, <2>4
    <3> QED BY <2>2, <3>1, Zenon
  <2>5. CASE /\ Has("EMPTY_HAS_WRONG_DBC") /\ sent = (dbc + missed - 8) % 256
             /\ missed = 0 => last.kind = "first empty"
    <3>1. (sent + a) % 256 = (dbc + missed' - 8) % 256
      BY <1>8, <2>2, <2>5
    <3>2. missed' = 0 => last'.kind = "first empty"
      BY <1>6, <1>7, <2>5
    <3>3. sent' = (dbc' + missed' - 8) % 256
      BY <2>2, <3>1
    <3>4. Has("EMPTY_HAS_WRONG_DBC")
      BY <2>5
    <3> QED BY <3>2, <3>3, <3>4
  <2> QED BY <2>3, <2>4, <2>5
<1> QED BY <1>3, <1>5, <1>6, <1>9, <1>10 DEF CounterInv

----------------------------------------------------------------------------
(* The steps *)

LEMMA PointersStay ==
  ASSUME PointerInv, PacketOK', mode' = mode, last'.end <= mode.buffer,
         \/ UNCHANGED <<bufPtr, perPtr, tasklet, earned>>
         \/ /\ bufPtr' \in 0 .. mode.buffer - 1 /\ perPtr' \in 0 .. mode.period - 1
            /\ tasklet' => earned'
            /\ mode.double => bufPtr' % 32 = 0
  PROVE  PointerInv'
<1>1. Constraints' <=> Constraints
  BY DEF Constraints, FramesPerBlock, Has
<1> QED BY <1>1 DEF PointerInv

\* handle_in_packet(), whatever becomes of the packet
LEMMA Arrives ==
  ASSUME InInv, NEW b \in mode.blocks, HandleInPacket(b)
  PROVE  InInv'
<1> USE DEF InInv
<1>1. /\ dead = "no" /\ sent' = SentAfter(b) /\ restarted' = FALSE /\ mode' = mode
      /\ PointerInv /\ CounterInv
  BY DEF HandleInPacket
<1>2. PacketOK /\ mode.buffer \in Nat /\ (\A flag : Has(flag)' <=> Has(flag))
  BY <1>1, ModeIs DEF PointerInv, Has
<1>3. CASE Discontinuity(b)
  <2>1. /\ Lost(b) /\ dead' = "lost" /\ Nothing
        /\ UNCHANGED <<dbc, bufPtr, perPtr, flush, tasklet, earned, missed, unexplained, overlooked>>
    BY <1>3 DEF Discontinuity, Die
  <2>2. /\ PacketOK' /\ last'.end = 0 /\ last'.kind # "checked"
        /\ (last'.kind = "first empty" <=> last.kind = "first empty")
    BY <1>2, <2>1, PacketAfterNothing
  <2>3. last'.end <= mode.buffer
    <3>1. 0 <= mode.buffer
      BY <1>2
    <3> QED BY <2>2, <3>1
  <2>4. PointerInv'
    BY <1>1, <2>1, <2>2, <2>3, PointersStay
  <2>5. \/ missed > 0 \/ unexplained
        \/ Has("EMPTY_HAS_WRONG_DBC") /\ last.kind = "first empty"
    <3>1. ~Unchecked(b)
      BY <2>1 DEF Lost
    <3> QED BY <1>1, <2>1, <3>1, CheckedPacket
  <2>6. LossIsNoticed' /\ MidiPortIsRight'
    BY <1>2, <2>1, <2>2, <2>5 DEF LossIsNoticed, MidiPortIsRight
  <2>7. sent' \in Counters
    BY <1>1, Device
  <2>8. CounterInv'
    BY <1>1, <1>2, <2>1, <2>7 DEF CounterInv
  <2> QED BY <2>4, <2>6, <2>8
<1>4. ASSUME Accept(b)
      PROVE  /\ PacketOK' /\ last'.end <= mode.buffer /\ CounterInv'
             /\ dead' # "lost" => LossIsNoticed' /\ MidiPortIsRight'
  <2>1. sent \in Counters /\ dbc \in Counters \cup {UINT_MAX}
    BY <1>1 DEF CounterInv
  <2>2. /\ PacketOK' /\ last'.end <= mode.buffer
        /\ last'.kind = "checked" =>
              b > 0 /\ ~Unchecked(b) /\ last'.port = dbc % 8 /\ last'.wire = sent % 8
    BY <1>1, <1>4, <2>1, PacketAccepted
  <2>3. CounterInv'
    BY <1>1, <1>4, CounterTaken
  <2>4. last'.kind = "checked" =>
          sent = dbc /\ (unexplained \/ missed % 256 = 0)
    <3>1. ~Lost(b)
      BY <1>4 DEF Accept
    <3> QED BY <1>1, <2>2, <3>1, CheckedPacket
  <2>5. last'.kind = "checked" => missed' = missed /\ unexplained' = unexplained
    BY <1>4, <2>2 DEF Accept
  <2>6. last'.kind = "checked" => unexplained' \/ missed' % 256 = 0
    BY <2>4, <2>5
  <2>7. last'.kind = "checked" => last'.port = last'.wire
    BY <2>2, <2>4
  <2>8. overlooked' => Has("SKIP_DBC_ZERO_CHECK")'
    <3>1. CASE overlooked
      BY <1>2, <3>1 DEF LossIsNoticed
    <3>2. CASE OverLoss(b) /\ Unchecked(b)
      BY <1>2, <3>2 DEF OverLoss, Unchecked
    <3>3. CASE OverLoss(b) /\ ~Unchecked(b)
      <4>1. b > 0 /\ ~Lost(b) /\ ~unexplained /\ missed % 256 # 0
        BY <1>1, <1>4, <3>3, Device DEF OverLoss, Accept
      <4> QED BY <1>1, <3>3, <4>1, CheckedPacket
    <3>4. overlooked' => overlooked \/ OverLoss(b)
      BY <1>4 DEF Accept
    <3> QED BY <3>1, <3>2, <3>3, <3>4
  <2> QED BY <2>2, <2>3, <2>6, <2>7, <2>8 DEF LossIsNoticed, MidiPortIsRight
<1>5. CASE Take(b)
  <2>1. /\ Accept(b) /\ dead' = dead
        /\ \/ pcm /\ b > 0 /\ UpdatePcmPointers(b)
           \/ UNCHANGED <<bufPtr, perPtr, flush, tasklet, earned>>
    BY <1>1, <1>5, BlocksAre DEF Take, PointerInv
  <2>2. PointerInv'
    BY <1>1, <1>4, <2>1, PointersMove, PointersStay
  <2> QED BY <1>1, <1>4, <2>1, <2>2
<1>6. CASE TakeQueueFails(b)
  <2>1. Accept(b) /\ dead' = "queue" /\ UNCHANGED <<bufPtr, perPtr, flush, tasklet, earned>>
    BY <1>6 DEF TakeQueueFails, Die
  <2>2. PointerInv'
    BY <1>1, <1>4, <2>1, PointersStay
  <2> QED BY <1>1, <1>4, <2>1, <2>2
<1> QED BY <1>3, <1>5, <1>6 DEF HandleInPacket

\* A packet that is lost on the bus, or has no valid header or a zero dbs
LEMMA NotSeen ==
  ASSUME InInv, NEW b \in mode.blocks, Lose(b) \/ InvalidHeader(b) \/ ZeroDbs(b)
  PROVE  InInv'
<1>1. /\ dead = "no" /\ sent' = SentAfter(b) /\ restarted' = FALSE /\ mode' = mode
      /\ Miss(b) /\ Nothing /\ dbc' = dbc /\ dead' # "lost"
      /\ UNCHANGED <<bufPtr, perPtr, tasklet, earned>>
  BY DEF Lose, InvalidHeader, ZeroDbs, Die, pcmVars
<1>0. overlooked' = overlooked /\ (\A flag : Has(flag)' <=> Has(flag)) /\ LossIsNoticed
  BY <1>1 DEF Miss, Has, InInv
<1>2. /\ PointerInv /\ CounterInv /\ PacketOK /\ mode.buffer \in Nat
  BY ModeIs DEF InInv, PointerInv
<1>3. PacketOK' /\ last'.end = 0 /\ last'.kind # "checked"
  BY <1>1, <1>2, PacketAfterNothing
<1>4. PointerInv'
  <2>1. last'.end <= mode.buffer
    BY <1>2, <1>3
  <2> QED BY <1>1, <1>2, <1>3, <2>1, PointersStay
<1>5. CounterInv'
  BY <1>1, <1>2, CounterMissed
<1>6. LossIsNoticed' /\ MidiPortIsRight'
  BY <1>0, <1>1, <1>3 DEF LossIsNoticed, MidiPortIsRight
<1> QED BY <1>4, <1>5, <1>6 DEF InInv

LEMMA PcmSteps ==
  ASSUME InInv, PcmPrepare \/ PcmTrigger \/ PcmPointer \/ PeriodTasklet
  PROVE  InInv'
<1>1. UNCHANGED <<deviceVars, dbc, dead, missed, unexplained, overlooked, last>>
  BY DEF PcmPrepare, PcmTrigger, PcmPointer, PeriodTasklet
<1>2. \A flag : Has(flag)' <=> Has(flag)
  BY <1>1 DEF Has, deviceVars
<1>3. PointerInv /\ mode.buffer \in Nat \ {0} /\ mode.period \in 1 .. mode.buffer
  BY ModeIs DEF InInv, PointerInv
<1>4. PacketOK' /\ mode' = mode /\ last'.end <= mode.buffer
  BY <1>1, <1>3 DEF PacketOK, PointerInv, deviceVars
<1>5. /\ bufPtr' \in 0 .. mode.buffer - 1 /\ perPtr' \in 0 .. mode.period - 1
      /\ tasklet' => earned'
      /\ mode.double => bufPtr' % 32 = 0
  <2>1. CASE PcmPrepare
    <3>1. bufPtr' = 0 /\ perPtr' = 0 /\ tasklet' = FALSE
      BY <2>1 DEF PcmPrepare
    <3> QED BY <1>3, <3>1
  <2>2. CASE PcmTrigger \/ PcmPointer
    BY <1>3, <2>2 DEF PcmTrigger, PcmPointer, PointerInv
  <2>3. CASE PeriodTasklet
    <3>1. bufPtr' = bufPtr /\ perPtr' = perPtr /\ tasklet' = FALSE
      BY <2>3 DEF PeriodTasklet
    <3> QED BY <1>3, <3>1 DEF PointerInv
  <2> QED BY <2>1, <2>2, <2>3
<1>6. PointerInv'
  BY <1>3, <1>4, <1>5, PointersStay
<1>7. CounterInv'
  BY <1>1, <1>2 DEF InInv, CounterInv, deviceVars
<1>8. LossIsNoticed' /\ MidiPortIsRight'
  BY <1>1, <1>2 DEF InInv, LossIsNoticed, MidiPortIsRight
<1> QED BY <1>6, <1>7, <1>8 DEF InInv

LEMMA Initially == Init => InInv
<1> SUFFICES ASSUME Init PROVE InInv
  OBVIOUS
<1>1. /\ mode \in Modes /\ Constraints /\ last = NoPacket /\ bufPtr = 0 /\ perPtr = 0
      /\ tasklet = FALSE /\ restarted = FALSE /\ dead = "no" /\ missed = 0
      /\ unexplained = FALSE /\ overlooked = FALSE
      /\ \/ dbc = UINT_MAX /\ sent \in Counters
         \/ dbc = 0 /\ sent = 0
  BY DEF Init
<1>2. mode.buffer \in Nat \ {0} /\ mode.period \in 1 .. mode.buffer
  BY <1>1, ModeIs
<1>3. PacketOK /\ last.end = 0 /\ last.kind = "none"
  <2>1. "none" \in Kinds /\ 0 \in Int
    BY DEF Kinds
  <2>2. last = [kind |-> "none", blocks |-> 0, port |-> 0, wire |-> 0, end |-> 0]
    BY <1>1 DEF NoPacket
  <2>3. last \in [kind : Kinds, blocks : Int, port : Int, wire : Int, end : Int]
    BY <2>1, <2>2, PacketType, Zenon
  <2> QED BY <2>2, <2>3 DEF PacketOK
<1>4. PointerInv
  BY <1>1, <1>2, <1>3 DEF PointerInv
<1>5. CounterInv
  <2>1. 0 \in Counters /\ 0 \in Nat /\ 0 % 16 = 0 /\ 0 = (0 + 0) % 256
    BY CounterIs
  <2>2. sent \in Counters /\ dbc \in Counters \cup {UINT_MAX}
    BY <1>1, <2>1
  <2>3. dbc # UINT_MAX => sent = (dbc + missed) % 256
    BY <1>1, <2>1, Zenon
  <2> QED BY <1>1, <2>1, <2>2, <2>3, Zenon DEF CounterInv
<1>6. LossIsNoticed /\ MidiPortIsRight
  BY <1>1, <1>3 DEF LossIsNoticed, MidiPortIsRight
<1> QED BY <1>4, <1>5, <1>6 DEF InInv

LEMMA Restarts == ASSUME InInv, DeviceRestarts PROVE InInv'
<1>1. /\ restarted' = TRUE /\ Has("SKIP_DBC_ZERO_CHECK")
      /\ UNCHANGED <<mode, sent, pcmVars, dbc, dead, missed, unexplained, overlooked, last>>
  BY DEF DeviceRestarts
<1>2. \A flag : Has(flag)' <=> Has(flag)
  BY <1>1 DEF Has
<1>3. PointerInv'
  BY <1>1, PointersStay DEF InInv, PointerInv, PacketOK, pcmVars
<1>4. CounterInv'
  BY <1>1, <1>2 DEF InInv, CounterInv
<1>5. LossIsNoticed' /\ MidiPortIsRight'
  BY <1>1, <1>2 DEF InInv, LossIsNoticed, MidiPortIsRight
<1> QED BY <1>3, <1>4, <1>5 DEF InInv

\* The inductive invariant of in-streams: handle_in_packet() and the PCM callbacks, with
\* every quirk, keep the counters in step and the pointers in the buffer.
THEOREM InInvariance == Spec => []InInv
<1>1. InInv /\ [Next]_vars => InInv'
  <2> SUFFICES ASSUME InInv, [Next]_vars PROVE InInv'
    OBVIOUS
  <2>1. CASE UNCHANGED vars
    <3>1. \A flag : Has(flag)' <=> Has(flag)
      BY <2>1 DEF Has, vars, deviceVars
    <3>2. PointerInv'
      BY <2>1, PointersStay DEF InInv, PointerInv, PacketOK, vars, deviceVars, pcmVars
    <3>3. CounterInv'
      BY <2>1, <3>1 DEF InInv, CounterInv, vars, deviceVars
    <3>4. LossIsNoticed' /\ MidiPortIsRight'
      BY <2>1, <3>1 DEF InInv, LossIsNoticed, MidiPortIsRight, vars, deviceVars
    <3> QED BY <3>2, <3>3, <3>4 DEF InInv
  <2> QED BY <2>1, Arrives, NotSeen, PcmSteps, Restarts DEF Next
<1> QED BY <1>1, Initially, PTL DEF Spec

\* No discontinuity is reported but for packets that were missed; and a packet is taken
\* over a loss, of anything but a whole turn of the counter, only where the check of a
\* counter of 0 is skipped: handle_in_packet(), amdtp.c.
THEOREM LossNoticed == Spec => []LossIsNoticed
BY InInvariance, PTL DEF InInv

\* The MIDI bytes of a packet go to the port they are of: amdtp_pull_midi() takes the
\* counter of the driver, which is that of the device.
THEOREM MidiPortRight == Spec => []MidiPortIsRight
BY InInvariance, PTL DEF InInv

\* update_pcm_pointers() keeps both pointers in their ranges, nothing is written past the end
\* of the buffer, and the tasklet is only scheduled when a period has elapsed.
THEOREM PointersRight == Spec => []PointersAreRight
<1>1. InInv => PointersAreRight
  BY ModeIs DEF InInv, PointerInv, PointersAreRight
<1> QED BY <1>1, InInvariance, PTL

\* The rest of the types
Rest ==
  /\ dead \in {"no", "lost", "dbs", "queue"}
  /\ pcm \in BOOLEAN /\ flush \in BOOLEAN /\ tasklet \in BOOLEAN /\ earned \in BOOLEAN
  /\ overlooked \in BOOLEAN
  /\ missed \in 0 .. mode.maxMissed

LEMMA RestStep ==
  ASSUME mode \in Modes, missed \in Nat, Rest, Next
  PROVE  Rest' /\ mode' = mode
<1>1. mode.maxMissed \in Nat
  BY ModeIs
<1>2. ASSUME NEW b \in mode.blocks, HandleInPacket(b) PROVE Rest' /\ mode' = mode
  <2>1. mode' = mode
    BY <1>2 DEF HandleInPacket
  <2>2. dead' \in {"no", "lost", "dbs", "queue"} /\ pcm' \in BOOLEAN
    BY <1>2 DEF HandleInPacket, Discontinuity, Take, TakeQueueFails, Die, Rest
  <2>3. missed' = missed \/ missed' = 0
    BY <1>2 DEF HandleInPacket, Discontinuity, Take, TakeQueueFails, Accept
  <2>4. flush' \in BOOLEAN /\ tasklet' \in BOOLEAN /\ earned' \in BOOLEAN
    <3>1. \/ UNCHANGED <<flush, tasklet, earned>>
          \/ flush' = FALSE /\ tasklet' = TRUE /\ earned' = TRUE
      BY <1>2 DEF HandleInPacket, Discontinuity, Take, TakeQueueFails, UpdatePcmPointers
    <3> QED BY <3>1 DEF Rest
  <2>5. missed' \in 0 .. mode.maxMissed
    BY <1>1, <2>3 DEF Rest
  <2>6. overlooked' \in BOOLEAN
    BY <1>2, Zenon DEF HandleInPacket, Discontinuity, Take, TakeQueueFails, Accept, Rest
  <2> QED BY <2>1, <2>2, <2>4, <2>5, <2>6 DEF Rest
<1>3. ASSUME NEW b \in mode.blocks, Lose(b) \/ InvalidHeader(b) \/ ZeroDbs(b)
      PROVE  Rest' /\ mode' = mode
  <2>1. /\ mode' = mode /\ Miss(b) /\ UNCHANGED <<flush, tasklet, earned>>
        /\ dead' \in {"no", "lost", "dbs", "queue"} /\ pcm' \in BOOLEAN
    BY <1>3 DEF Lose, InvalidHeader, ZeroDbs, Die, pcmVars, Rest
  <2>3. overlooked' = overlooked
    BY <2>1 DEF Miss
  <2>2. missed' \in 0 .. mode.maxMissed
    <3>1. PICK a : a = Advance(b)
      OBVIOUS
    <3>2. a \in Nat
      BY <3>1, ModeIs DEF Advance
    <3>3. missed' = missed + a /\ missed + a <= mode.maxMissed
      BY <2>1, <3>1 DEF Miss
    <3> QED BY <1>1, <3>2, <3>3
  <2> QED BY <2>1, <2>2, <2>3 DEF Rest
<1>4. CASE DeviceRestarts \/ PcmPrepare \/ PcmTrigger \/ PcmPointer \/ PeriodTasklet
  <2>1. UNCHANGED <<mode, dead, missed, overlooked>>
    BY <1>4 DEF DeviceRestarts, PcmPrepare, PcmTrigger, PcmPointer, PeriodTasklet, deviceVars
  <2>2. /\ pcm' \in BOOLEAN /\ flush' \in BOOLEAN /\ tasklet' \in BOOLEAN
        /\ earned' \in BOOLEAN
    BY <1>4 DEF DeviceRestarts, PcmPrepare, PcmTrigger, PcmPointer, PeriodTasklet, pcmVars, Rest
  <2> QED BY <2>1, <2>2 DEF Rest
<1> QED BY <1>2, <1>3, <1>4 DEF Next

\* The types of all variables
THEOREM InTypeCorrect == Spec => []TypeOK
<1>1. Init => Rest
  <2> SUFFICES ASSUME Init PROVE Rest
    OBVIOUS
  <2>1. mode \in Modes
    BY DEF Init
  <2>2. mode.maxMissed \in Nat
    BY <2>1, ModeIs
  <2>3. 0 \in 0 .. mode.maxMissed
    BY <2>2
  <2> QED BY <2>3 DEF Init, Rest
<1>2. InInv /\ Rest /\ [Next]_vars => Rest'
  <2> SUFFICES ASSUME InInv, Rest, [Next]_vars PROVE Rest'
    OBVIOUS
  <2>1. mode \in Modes /\ missed \in Nat
    BY DEF InInv, PointerInv, CounterInv
  <2>2. CASE UNCHANGED vars
    BY <2>2 DEF vars, deviceVars, pcmVars, Rest
  <2> QED BY <2>1, <2>2, RestStep
<1>3. InInv /\ Rest => TypeOK
  <2> SUFFICES ASSUME InInv, Rest PROVE TypeOK
    OBVIOUS
  <2>1. /\ mode \in Modes /\ sent \in Counters /\ restarted \in BOOLEAN
        /\ dbc \in Counters \cup {UINT_MAX} /\ unexplained \in BOOLEAN
    BY DEF InInv, PointerInv, CounterInv
  <2>2. bufPtr \in Nat /\ perPtr \in Nat
    BY <2>1, ModeIs DEF InInv, PointerInv
  <2> QED BY <2>1, <2>2 DEF Rest, TypeOK
<1> QED BY <1>1, <1>2, <1>3, InInvariance, PTL DEF Spec

----------------------------------------------------------------------------
(* The out-stream: what the tables say of a rate *)

Base(i, hundreds, interval, phases) ==
  /\ sfc = i /\ IsBase44100 /\ Period = 640
  /\ Rate = 100 * hundreds /\ SytInterval = interval
  /\ InitialState[sfc].block = 0 /\ InitialState[sfc].syt = 67
  /\ 80 \div 2 ^ Multiple = phases

Other(i, hundreds, interval, block, syt, ticks) ==
  /\ sfc = i /\ ~IsBase44100 /\ Period = 4
  /\ Rate = 100 * hundreds /\ SytInterval = interval
  /\ InitialState[sfc].block = block /\ InitialState[sfc].syt = syt
  /\ SytInterval * (TICKS_PER_SECOND \div Rate) = ticks

LEMMA Tables ==
  ASSUME sfc \in SFCs
  PROVE  \/ Base(1, 441, 8, 80) /\ Multiple = 0
         \/ Base(3, 882, 16, 40) /\ Multiple = 1
         \/ Base(5, 1764, 32, 20) /\ Multiple = 2
         \/ Other(0, 320, 8, 4, 3072, 6144)
         \/ Other(2, 480, 8, 6, 1024, 4096)
         \/ Other(4, 960, 16, 12, 1024, 4096)
         \/ Other(6, 1920, 32, 24, 1024, 4096)
<1> USE DEF Base, Other, Rate, SytInterval, IsBase44100, Period, Multiple, InitialState,
            amdtp_rate_table, amdtp_syt_intervals, SFCs, TICKS_PER_SECOND, TICKS_PER_CYCLE,
            CYCLES_PER_SECOND
<1>0. 80 \div 2 ^ 0 = 80 /\ 80 \div 2 ^ 1 = 40 /\ 80 \div 2 ^ 2 = 20
  OBVIOUS
<1>1. ASSUME sfc = 1 PROVE Base(1, 441, 8, 80) /\ Multiple = 0
  BY <1>0, <1>1
<1>2. ASSUME sfc = 3 PROVE Base(3, 882, 16, 40) /\ Multiple = 1
  BY <1>0, <1>2
<1>3. ASSUME sfc = 5 PROVE Base(5, 1764, 32, 20) /\ Multiple = 2
  BY <1>0, <1>3
<1>4. ASSUME sfc = 0 PROVE Other(0, 320, 8, 4, 3072, 6144)
  BY <1>4
<1>5. ASSUME sfc = 2 PROVE Other(2, 480, 8, 6, 1024, 4096)
  BY <1>5
<1>6. ASSUME sfc = 4 PROVE Other(4, 960, 16, 12, 1024, 4096)
  BY <1>6
<1>7. ASSUME sfc = 6 PROVE Other(6, 1920, 32, 24, 1024, 4096)
  BY <1>7
<1> QED BY <1>1, <1>2, <1>3, <1>4, <1>5, <1>6, <1>7 DEF SFCs

----------------------------------------------------------------------------
(* The timestamps of the 44.1 kHz family *)

\* The tick of the k-th timestamp, rounded, and the steps of it that are a tick longer
Tick(k) == (1310720 * k + 147) \div 294
Long(s) == (s % 13 # 0 /\ (s % 13) % 4 = 0) \/ s = 146

LEMMA TickBounds ==
  ASSUME NEW k \in Int, k >= 0
  PROVE  /\ Tick(k) \in Int
         /\ 147 * Tick(k) <= 655360 * k + 73 /\ 147 * Tick(k) >= 655360 * k - 73
BY DEF Tick

LEMMA TickStep ==
  ASSUME NEW k \in Int, k >= 0
  PROVE  Tick(k + 1) = Tick(k) + 4458 + IF Long((67 + k) % 147) THEN 1 ELSE 0
<1>1. PICK q \in Int, r \in Int : k = 147 * q + r /\ 0 <= r /\ r <= 146
  <2>1. k = 147 * (k \div 147) + (k % 147) /\ 0 <= k % 147 /\ k % 147 <= 146
    OBVIOUS
  <2>2. k \div 147 \in Int /\ k % 147 \in Int
    OBVIOUS
  <2> QED BY <2>1, <2>2
<1>2. PICK s \in Int : s = (67 + r) % 147
  BY <1>1
<1>3. s = (67 + k) % 147
  BY <1>1, <1>2
<1>4. (1310720 * (r + 1) + 147) \div 294 = (1310720 * r + 147) \div 294 + 4458
             + IF (s % 13 # 0 /\ (s % 13) % 4 = 0) \/ s = 146 THEN 1 ELSE 0
  BY <1>1, <1>2
<1>5. /\ Tick(k) = 655360 * q + (1310720 * r + 147) \div 294
      /\ Tick(k + 1) = 655360 * q + (1310720 * (r + 1) + 147) \div 294
  BY <1>1 DEF Tick
<1> QED BY <1>3, <1>4, <1>5 DEF Long

\* What holds after c packets with k timestamps, if l and s are the states
BaseClock(c, k, l, s) ==
  /\ 441 * c <= 640 * k /\ 640 * k < 441 * c + 640
  /\ \/ 0 <= l /\ l < 3072 /\ k > 0 /\ Tick(k - 1) = (c - 1) * 3072 + l /\ s = (66 + k) % 147
     \/ 3072 <= l /\ l < 4460 /\ Tick(k) = (c - 1) * 3072 + l /\ s = (67 + k) % 147

NextOffset(l, s) == IF l >= 3072 THEN l - 3072 ELSE l + 1386 + IF Long(s) THEN 1 ELSE 0
NextState(l, s) == IF l >= 3072 THEN s ELSE IF s + 1 >= 147 THEN 0 ELSE s + 1

BaseClockAfter(c, k, o, t) ==
  /\ 0 <= o
  /\ o < 3072 => BaseClock(c + 1, k + 1, o, t) /\ Tick(k) = c * 3072 + o
  /\ o >= 3072 => BaseClock(c + 1, k, o, t)

LEMMA BaseClockStep ==
  ASSUME NEW c \in Nat, NEW k \in Nat, NEW l \in Int, NEW s \in Int, NEW o \in Int, NEW t \in Int,
         BaseClock(c, k, l, s),
         o = NextOffset(l, s), t = NextState(l, s)
  PROVE  BaseClockAfter(c, k, o, t)
<1> USE DEF NextOffset, NextState, BaseClockAfter
<1>1. /\ Tick(k) \in Int
      /\ 147 * Tick(k) <= 655360 * k + 73 /\ 147 * Tick(k) >= 655360 * k - 73
  BY TickBounds
<1>2. CASE l >= 3072
  <2>1. /\ 441 * c <= 640 * k /\ 640 * k < 441 * c + 640
        /\ l < 4460 /\ Tick(k) = (c - 1) * 3072 + l /\ s = (67 + k) % 147
    BY <1>2 DEF BaseClock
  <2>2. o = l - 3072 /\ t = s
    BY <1>2
  <2>3. 441 * (c + 1) <= 640 * (k + 1) /\ 640 * (k + 1) < 441 * (c + 1) + 640
    BY <1>1, <1>2, <2>1, <2>2
  <2>4. 0 <= o /\ o < 3072 /\ Tick(k) = c * 3072 + o
    BY <1>2, <2>1, <2>2
  <2>5. k + 1 > 0 /\ (k + 1) - 1 = k /\ (c + 1) - 1 = c /\ t = (66 + (k + 1)) % 147
    BY <2>1, <2>2
  <2>6. BaseClock(c + 1, k + 1, o, t)
    BY <2>3, <2>4, <2>5 DEF BaseClock
  <2> QED BY <2>4, <2>6
<1>3. CASE l < 3072
  <2>1. /\ 441 * c <= 640 * k /\ 640 * k < 441 * c + 640
        /\ 0 <= l /\ k > 0 /\ Tick(k - 1) = (c - 1) * 3072 + l /\ s = (66 + k) % 147
    BY <1>3 DEF BaseClock
  <2>2. Tick(k) = Tick(k - 1) + 4458 + IF Long(s) THEN 1 ELSE 0
    <3>1. k - 1 \in Int /\ k - 1 >= 0 /\ (k - 1) + 1 = k /\ 67 + (k - 1) = 66 + k
      BY <2>1
    <3>2. Tick((k - 1) + 1) = Tick(k - 1) + 4458 + IF Long((67 + (k - 1)) % 147) THEN 1 ELSE 0
      BY <3>1, TickStep
    <3> QED BY <2>1, <3>1, <3>2
  <2>3. /\ 1386 <= o /\ o <= 4458 /\ Tick(k) = c * 3072 + o
        /\ o = l + 1386 + IF Long(s) THEN 1 ELSE 0
    BY <1>3, <2>1, <2>2
  <2>4. t = (67 + k) % 147 /\ (c + 1) - 1 = c /\ (k + 1) - 1 = k /\ 67 + k = 66 + (k + 1)
    BY <1>3, <2>1
  <2>5. CASE o < 3072
    <3>1. 441 * (c + 1) <= 640 * (k + 1) /\ 640 * (k + 1) < 441 * (c + 1) + 640
      BY <1>1, <2>1, <2>3, <2>5
    <3> QED BY <2>3, <2>4, <2>5, <3>1 DEF BaseClock
  <2>6. CASE o >= 3072
    <3>1. 441 * (c + 1) <= 640 * k /\ 640 * k < 441 * (c + 1) + 640
      BY <1>1, <2>1, <2>3, <2>6
    <3> QED BY <2>3, <2>4, <2>6, <3>1 DEF BaseClock
  <2> QED BY <2>3, <2>5, <2>6
<1> QED BY <1>2, <1>3

LEMMA BaseClockPeriod ==
  ASSUME NEW k \in Nat, NEW l \in Int, NEW s \in Int, BaseClock(640, k, l, s)
  PROVE  BaseClock(0, 0, l, s)
<1>1. k = 441
  BY DEF BaseClock
<1>2. Tick(440) < 639 * 3072 /\ Tick(441) = 639 * 3072 + 3072 /\ Tick(0) = 0
  BY DEF Tick
<1>3. l = 3072 /\ s = 67
  BY <1>1, <1>2 DEF BaseClock
<1> QED BY <1>2, <1>3 DEF BaseClock

----------------------------------------------------------------------------
(* The timestamps of the other rates *)

OtherClock(c, k, l, v) ==
  /\ IF v = 3072 THEN c <= 2 * k /\ 2 * k < c + 2 ELSE 3 * c <= 4 * k /\ 4 * k < 3 * c + 4
  /\ \/ 0 <= l /\ l < 3072 /\ k > 0 /\ (k - 1) * (v + 3072) = (c - 1) * 3072 + l
     \/ l = 3072 /\ k * (v + 3072) = (c - 1) * 3072 + l

SytSteps == {1024, 3072}
OtherOffset(l, v) == IF l >= 3072 THEN l - 3072 ELSE l + v

OtherClockAfter(c, k, o, v) ==
  /\ 0 <= o
  /\ o < 3072 => OtherClock(c + 1, k + 1, o, v) /\ k * (v + 3072) = c * 3072 + o
  /\ o >= 3072 => OtherClock(c + 1, k, o, v)

LEMMA OtherClockStep ==
  ASSUME NEW c \in Nat, NEW k \in Nat, NEW l \in Int, NEW v \in SytSteps, NEW o \in Int,
         OtherClock(c, k, l, v),
         o = OtherOffset(l, v)
  PROVE  OtherClockAfter(c, k, o, v)
<1>1. CASE v = 3072
  BY <1>1 DEF OtherClock, OtherOffset, OtherClockAfter
<1>2. CASE v = 1024
  BY <1>2 DEF OtherClock, OtherOffset, OtherClockAfter
<1> QED BY <1>1, <1>2 DEF SytSteps

LEMMA OtherClockPeriod ==
  ASSUME NEW k \in Nat, NEW l \in Int, NEW v \in SytSteps, OtherClock(4, k, l, v)
  PROVE  OtherClock(0, 0, l, v)
<1>1. CASE v = 3072
  BY <1>1 DEF OtherClock
<1>2. CASE v = 1024
  BY <1>2 DEF OtherClock
<1> QED BY <1>1, <1>2 DEF SytSteps

----------------------------------------------------------------------------
(* The clock of the stream *)

Clock(c, k, l, s) ==
  IF IsBase44100 THEN BaseClock(c, k, l, s)
  ELSE OtherClock(c, k, l, s) /\ s = InitialState[sfc].syt

\* k timestamps after c packets, in terms of the rate
InStep(c, k) ==
  /\ (Rate \div 100) * c <= 80 * (SytInterval * k)
  /\ 80 * (SytInterval * k) < (Rate \div 100) * c + 80 * SytInterval

LEMMA ClockInStep ==
  ASSUME sfc \in SFCs, NEW c \in Nat, NEW k \in Nat, NEW l, NEW s, Clock(c, k, l, s)
  PROVE  InStep(c, k)
<1>1. ASSUME NEW r \in Int, NEW n \in Int, NEW i, NEW p, Base(i, r, n, p),
             \/ r = 441 /\ n = 8
             \/ r = 882 /\ n = 16
             \/ r = 1764 /\ n = 32
      PROVE  InStep(c, k)
  <2>1. 441 * c <= 640 * k /\ 640 * k < 441 * c + 640
    BY <1>1 DEF Base, Clock, BaseClock
  <2>2. Rate \div 100 = r /\ SytInterval = n
    BY <1>1 DEF Base
  <2>3. r * c <= 80 * (n * k) /\ 80 * (n * k) < r * c + 80 * n
    BY <1>1, <2>1
  <2> QED BY <2>2, <2>3 DEF InStep
<1>2. ASSUME NEW r \in Int, NEW n \in Int, NEW i, NEW b, NEW v \in Int, NEW t,
             Other(i, r, n, b, v, t),
             \/ r = 320 /\ n = 8 /\ v = 3072
             \/ r = 480 /\ n = 8 /\ v = 1024
             \/ r = 960 /\ n = 16 /\ v = 1024
             \/ r = 1920 /\ n = 32 /\ v = 1024
      PROVE  InStep(c, k)
  <2>1. IF v = 3072 THEN c <= 2 * k /\ 2 * k < c + 2 ELSE 3 * c <= 4 * k /\ 4 * k < 3 * c + 4
    BY <1>2 DEF Other, Clock, OtherClock
  <2>2. Rate \div 100 = r /\ SytInterval = n
    BY <1>2 DEF Other
  <2>3. r * c <= 80 * (n * k) /\ 80 * (n * k) < r * c + 80 * n
    BY <1>2, <2>1
  <2> QED BY <2>2, <2>3 DEF InStep
<1>3. CASE IsBase44100
  BY <1>1, <1>3, Tables DEF Other
<1>4. CASE ~IsBase44100
  BY <1>2, <1>4, Tables DEF Base
<1> QED BY <1>3, <1>4

LEMMA ClockStep ==
  ASSUME sfc \in SFCs, cycles \in Nat, stamps \in Nat,
         lastSytOffset \in Int, sytOffsetState \in Int,
         Clock(cycles, stamps, lastSytOffset, sytOffsetState)
  PROVE  /\ SytOffset \in Int /\ NextSytOffsetState \in Int /\ 0 <= SytOffset
         /\ SytOffset < 3072 =>
              /\ Clock(cycles + 1, stamps + 1, SytOffset, NextSytOffsetState)
              /\ StampTick(stamps) = cycles * 3072 + SytOffset
         /\ SytOffset >= 3072 =>
              Clock(cycles + 1, stamps, SytOffset, NextSytOffsetState)
<1>1. CASE IsBase44100
  <2>1. BaseClock(cycles, stamps, lastSytOffset, sytOffsetState)
    BY <1>1 DEF Clock
  <2>2. PICK o \in Int : o = SytOffset
    BY DEF SytOffset, TICKS_PER_CYCLE, Truth
  <2>b. o = NextOffset(lastSytOffset, sytOffsetState)
    BY <1>1, <2>2 DEF NextOffset, SytOffset, TICKS_PER_CYCLE, Long, Truth
  <2>3. PICK t \in Int : t = NextSytOffsetState
    BY DEF NextSytOffsetState, TICKS_PER_CYCLE
  <2>c. t = NextState(lastSytOffset, sytOffsetState)
    BY <1>1, <2>3 DEF NextState, NextSytOffsetState, TICKS_PER_CYCLE
  <2>4. StampTick(stamps) = Tick(stamps)
    BY <1>1 DEF StampTick, Nearest, Tick
  <2>5. BaseClockAfter(cycles, stamps, o, t)
    BY <2>1, <2>b, <2>c, BaseClockStep, Zenon
  <2> QED BY <1>1, <2>2, <2>3, <2>4, <2>5 DEF Clock, BaseClockAfter
<1>2. CASE ~IsBase44100
  <2>1. /\ OtherClock(cycles, stamps, lastSytOffset, sytOffsetState)
        /\ sytOffsetState = InitialState[sfc].syt
    BY <1>2 DEF Clock
  <2>2. PICK o \in Int : o = SytOffset
    BY DEF SytOffset, TICKS_PER_CYCLE, Truth
  <2>b. o = OtherOffset(lastSytOffset, sytOffsetState)
    BY <1>2, <2>2 DEF OtherOffset, SytOffset, TICKS_PER_CYCLE
  <2>3. NextSytOffsetState = sytOffsetState
    BY <1>2 DEF NextSytOffsetState
  <2>4. /\ InitialState[sfc].syt \in {1024, 3072}
        /\ SytInterval * (TICKS_PER_SECOND \div Rate)
             = InitialState[sfc].syt + 3072
        /\ SytInterval \in Int /\ (TICKS_PER_SECOND \div Rate) \in Int
    BY <1>2, Tables DEF Base, Other, TICKS_PER_SECOND, TICKS_PER_CYCLE, CYCLES_PER_SECOND
  <2>5. StampTick(stamps) = stamps * (sytOffsetState + 3072)
    <3>1. PICK x \in Int, y \in Int, z \in Int :
            /\ x = SytInterval /\ y = TICKS_PER_SECOND \div Rate
            /\ z = InitialState[sfc].syt + 3072 /\ x * y = z
      BY <2>4
    <3>2. stamps * x * y = stamps * z
      <4>1. stamps * x * y = stamps * (x * y)
        OBVIOUS
      <4> QED BY <3>1, <4>1
    <3>3. StampTick(stamps) = stamps * SytInterval * (TICKS_PER_SECOND \div Rate)
      BY <1>2 DEF StampTick
    <3>4. z = sytOffsetState + 3072
      BY <2>1, <3>1
    <3>5. StampTick(stamps) = stamps * x * y
      BY <3>1, <3>3
    <3> QED BY <3>2, <3>4, <3>5
  <2>6. OtherClockAfter(cycles, stamps, o, sytOffsetState)
    <3>1. sytOffsetState \in SytSteps
      BY <2>1, <2>4 DEF SytSteps
    <3> QED BY <2>1, <2>b, <3>1, OtherClockStep, Zenon
  <2> QED BY <1>2, <2>1, <2>2, <2>3, <2>5, <2>6 DEF Clock, OtherClockAfter
<1> QED BY <1>1, <1>2

LEMMA ClockPeriod ==
  ASSUME sfc \in SFCs, NEW k \in Nat, NEW l \in Int, NEW s \in Int, Clock(Period, k, l, s)
  PROVE  Clock(0, 0, l, s)
<1>1. CASE IsBase44100
  BY <1>1, BaseClockPeriod DEF Clock, Period
<1>2. CASE ~IsBase44100
  <2>1. InitialState[sfc].syt \in SytSteps
    BY <1>2, Tables DEF Base, Other, SytSteps
  <2> QED BY <1>2, <2>1, OtherClockPeriod DEF Clock, Period
<1> QED BY <1>1, <1>2

----------------------------------------------------------------------------
(* The data blocks *)

Phases == 80 \div 2 ^ Multiple

\* b data blocks in c packets, rounded up
BlocksDue(c, b) ==
  (Rate \div 100) * c <= 80 * b /\ 80 * b < (Rate \div 100) * c + 80

Blocks(c, k, b, d) ==
  IF blocking THEN b = SytInterval * k
  ELSE BlocksDue(c, b) /\ d = IF IsBase44100 THEN c % Phases ELSE InitialState[sfc].block

LEMMA Phase80 ==
  ASSUME NEW c \in Nat, NEW b \in Nat, NEW d \in Int, NEW n \in Int,
         441 * c <= 80 * b, 80 * b < 441 * c + 80, d = c % 80,
         n = 5 + (((d % 2) + (IF d = 0 \/ d >= 40 THEN 1 ELSE 0)) % 2)
  PROVE  441 * (c + 1) <= 80 * (b + n) /\ 80 * (b + n) < 441 * (c + 1) + 80
OBVIOUS

LEMMA Phase40 ==
  ASSUME NEW c \in Nat, NEW b \in Nat, NEW d \in Int, NEW n \in Int,
         882 * c <= 80 * b, 80 * b < 882 * c + 80, d = c % 40,
         n = 11 + (IF d = 0 THEN 1 ELSE 0)
  PROVE  882 * (c + 1) <= 80 * (b + n) /\ 80 * (b + n) < 882 * (c + 1) + 80
OBVIOUS

LEMMA Phase20 ==
  ASSUME NEW c \in Nat, NEW b \in Nat, NEW d \in Int, NEW n \in Int,
         1764 * c <= 80 * b, 80 * b < 1764 * c + 80, d = c % 20,
         n = 22 + (IF d = 0 THEN 1 ELSE 0)
  PROVE  1764 * (c + 1) <= 80 * (b + n) /\ 80 * (b + n) < 1764 * (c + 1) + 80
OBVIOUS

\* A packet of a stream that is not blocking
LEMMA BlocksStep ==
  ASSUME sfc \in SFCs, ~blocking, cycles \in Nat, blocks \in Nat, dataBlockState \in Int,
         Blocks(cycles, stamps, blocks, dataBlockState)
  PROVE  /\ OutBlocks \in Nat /\ OutBlocks > 0 /\ NextDataBlockState \in Int
         /\ \A k : Blocks(cycles + 1, k, blocks + OutBlocks, NextDataBlockState)
<1> DEFINE c == cycles
           d == dataBlockState
<1>1. ASSUME NEW r \in Int, NEW n \in Int, NEW i, NEW p \in Int, Base(i, r, n, p),
             \/ i = 1 /\ r = 441 /\ p = 80 /\ Multiple = 0
             \/ i = 3 /\ r = 882 /\ p = 40 /\ Multiple = 1
             \/ i = 5 /\ r = 1764 /\ p = 20 /\ Multiple = 2
      PROVE  /\ OutBlocks \in Nat /\ OutBlocks > 0 /\ NextDataBlockState \in Int
             /\ \A k : Blocks(cycles + 1, k, blocks + OutBlocks, NextDataBlockState)
  <2>1. Rate \div 100 = r /\ Phases = p /\ IsBase44100 /\ sfc = i
    BY <1>1 DEF Base, Phases
  <2>2. r * c <= 80 * blocks /\ 80 * blocks < r * c + 80 /\ d = c % p
    BY <2>1 DEF Blocks, BlocksDue
  <2>3. NextDataBlockState = IF d + 1 >= p THEN 0 ELSE d + 1
    BY <2>1 DEF NextDataBlockState, Phases
  <2>4. NextDataBlockState \in Int /\ NextDataBlockState = (c + 1) % p
    BY <1>1, <2>2, <2>3
  <2>5. PICK m \in Nat : m = OutBlocks /\ m > 0 /\ r * (c + 1) <= 80 * (blocks + m)
                         /\ 80 * (blocks + m) < r * (c + 1) + 80
    <3>1. CASE i = 1
      <4>1. OutBlocks = 5 + (((d % 2) + (IF d = 0 \/ d >= 40 THEN 1 ELSE 0)) % 2)
        BY <2>1, <3>1 DEF OutBlocks, Truth
      <4>2. PICK m \in Nat : m = OutBlocks /\ m > 0
        BY <4>1
      <4> QED BY <1>1, <2>2, <3>1, <4>1, <4>2, Phase80
    <3>2. CASE i = 3
      <4>1. OutBlocks = 11 + (IF d = 0 THEN 1 ELSE 0)
        BY <1>1, <2>1, <3>2 DEF OutBlocks, Truth
      <4>2. PICK m \in Nat : m = OutBlocks /\ m > 0
        BY <4>1
      <4> QED BY <1>1, <2>2, <3>2, <4>1, <4>2, Phase40
    <3>3. CASE i = 5
      <4>1. OutBlocks = 22 + (IF d = 0 THEN 1 ELSE 0)
        BY <1>1, <2>1, <3>3 DEF OutBlocks, Truth
      <4>2. PICK m \in Nat : m = OutBlocks /\ m > 0
        BY <4>1
      <4> QED BY <1>1, <2>2, <3>3, <4>1, <4>2, Phase20
    <3> QED BY <1>1, <3>1, <3>2, <3>3
  <2> QED BY <2>1, <2>4, <2>5 DEF Blocks, BlocksDue
<1>2. ASSUME NEW r \in Int, NEW n \in Int, NEW i, NEW q \in Int, NEW v, NEW t,
             Other(i, r, n, q, v, t),
             \/ r = 320 /\ q = 4
             \/ r = 480 /\ q = 6
             \/ r = 960 /\ q = 12
             \/ r = 1920 /\ q = 24
      PROVE  /\ OutBlocks \in Nat /\ OutBlocks > 0 /\ NextDataBlockState \in Int
             /\ \A k : Blocks(cycles + 1, k, blocks + OutBlocks, NextDataBlockState)
  <2>1. Rate \div 100 = r /\ ~IsBase44100 /\ InitialState[sfc].block = q
    BY <1>2 DEF Other
  <2>2. r * c <= 80 * blocks /\ 80 * blocks < r * c + 80 /\ d = q
    BY <2>1 DEF Blocks, BlocksDue
  <2>3. OutBlocks = q /\ NextDataBlockState = q
    BY <2>1, <2>2 DEF OutBlocks, NextDataBlockState
  <2>4. r * (c + 1) <= 80 * (blocks + q) /\ 80 * (blocks + q) < r * (c + 1) + 80
    BY <1>2, <2>2
  <2> QED BY <1>2, <2>1, <2>3, <2>4 DEF Blocks, BlocksDue
<1>3. CASE IsBase44100
  BY <1>1, <1>3, Tables DEF Other
<1>4. CASE ~IsBase44100
  BY <1>2, <1>4, Tables DEF Base
<1> QED BY <1>3, <1>4

\* A packet has a timestamp if it has the first block of an interval.
LEMMA StampedBlock ==
  ASSUME NEW b \in Int, NEW n \in Nat, NEW k \in Int, NEW j \in Int,
         NEW s \in {8, 16, 32}, j = k \/ j = k + 1,
         s * (k - 1) < b, b <= s * k, s * (j - 1) < b + n, b + n <= s * j
  PROVE  j = k + 1 <=> \E x \in b .. b + n - 1 : x % s = 0
<1>1. ASSUME j = k + 1 PROVE \E x \in b .. b + n - 1 : x % s = 0
  <2>1. s * k \in b .. b + n - 1
    BY <1>1
  <2>2. (s * k) % s = 0
    OBVIOUS
  <2> QED BY <2>1, <2>2
<1>2. ASSUME j = k, NEW x \in b .. b + n - 1 PROVE x % s # 0
  <2>1. s * (k - 1) < x /\ x < s * k
    BY <1>2
  <2> QED BY <2>1
<1> QED BY <1>1, <1>2

----------------------------------------------------------------------------
(* The stream *)

\* The two state machines are where the time of the bus says, whatever the rate.
OutInv ==
  /\ sfc \in SFCs /\ blocking \in BOOLEAN
  /\ cycles \in Nat /\ cycles < Period /\ stamps \in Nat /\ blocks \in Nat
  /\ lastSytOffset \in Int /\ sytOffsetState \in Int /\ dataBlockState \in Int
  /\ Clock(cycles, stamps, lastSytOffset, sytOffsetState)
  /\ Blocks(cycles, stamps, blocks, dataBlockState)
  /\ TimestampIsNearest

LEMMA DelayIs == ASSUME sfc \in SFCs PROVE TransferDelay \in Int
<1>1. (TICKS_PER_SECOND * SytInterval) \div Rate \in Int
  BY Tables DEF Base, Other, TICKS_PER_SECOND, TICKS_PER_CYCLE, CYCLES_PER_SECOND
<1> QED BY <1>1 DEF TransferDelay, TRANSFER_DELAY_TICKS, TICKS_PER_CYCLE

\* The field of a presentation time
SytField(due) == ((due \div 3072) * 4096 + (due % 3072)) % 65536

LEMMA SytIs ==
  ASSUME sfc \in SFCs, NEW c \in Nat, SytOffset \in Int, 0 <= SytOffset
  PROVE  /\ SytOffset < 3072 =>
              /\ Syt(c) # NO_INFO
              /\ Syt(c) = SytField(c * 3072 + SytOffset + TransferDelay)
         /\ SytOffset >= 3072 => Syt(c) = NO_INFO
<1>1. PICK o \in Int, d \in Int : o = SytOffset /\ d = TransferDelay
  BY DelayIs
<1>2. CASE SytOffset >= 3072
  BY <1>2 DEF Syt, TICKS_PER_CYCLE
<1>3. CASE SytOffset < 3072
  <2>1. Syt(c) = ((c + (o + d) \div 3072) * 4096 + ((o + d) % 3072)) % 65536
    BY <1>1, <1>3, SMT DEF Syt, TICKS_PER_CYCLE
  <2>2. PICK y \in Int : y = ((c + (o + d) \div 3072) * 4096 + ((o + d) % 3072)) % 65536 /\ y >= 0
    OBVIOUS
  <2>3. /\ (c * 3072 + o + d) \div 3072 = c + (o + d) \div 3072
        /\ (c * 3072 + o + d) % 3072 = (o + d) % 3072
    OBVIOUS
  <2>4. y = (((c * 3072 + o + d) \div 3072) * 4096 + ((c * 3072 + o + d) % 3072)) % 65536
    BY <2>2, <2>3, SMT
  <2>5. Syt(c) # NO_INFO
    BY <2>1, <2>2, SMT DEF NO_INFO
  <2>6. y = SytField(c * 3072 + o + d)
    BY <2>4, SMT DEF SytField
  <2>7. Syt(c) = y
    BY <2>1, <2>2, SMT
  <2> QED BY <1>1, <1>3, <2>5, <2>6, <2>7, SMT
<1> QED BY <1>2, <1>3

\* A stream in step has its blocks in the intervals of its timestamps.
LEMMA BlocksInIntervals ==
  ASSUME sfc \in SFCs, NEW c \in Nat, NEW k \in Nat, NEW b \in Nat, NEW d,
         InStep(c, k), Blocks(c, k, b, d)
  PROVE  /\ SytInterval * (k - 1) < b /\ b <= SytInterval * k
         /\ SytInterval \in {8, 16, 32}
<1>1. PICK s \in {8, 16, 32}, r \in Int : s = SytInterval /\ r = Rate \div 100
  BY Tables DEF Base, Other
<1>2. r * c <= 80 * (s * k) /\ 80 * (s * k) < r * c + 80 * s
  BY <1>1 DEF InStep
<1>3. CASE blocking
  BY <1>1, <1>3 DEF Blocks
<1>4. CASE ~blocking
  <2>1. r * c <= 80 * b /\ 80 * b < r * c + 80
    BY <1>1, <1>4 DEF Blocks, BlocksDue
  <2>2. PICK x \in Int : x = r * c
    BY <1>1
  <2>3. s * (k - 1) < b /\ b <= s * k
    BY <1>1, <1>2, <2>1, <2>2
  <2> QED BY <1>1, <2>3
<1> QED BY <1>3, <1>4

LEMMA RateOfInv == OutInv => RateIsExact
<1> SUFFICES ASSUME OutInv PROVE RateIsExact
  OBVIOUS
<1>1. PICK s \in {8, 16, 32}, r \in Int : s = SytInterval /\ r = Rate \div 100
  BY Tables DEF Base, Other, OutInv
<1>2. PICK x \in Int : x = cycles * r
  BY DEF OutInv
<1>3. Ceiling(cycles * (Rate \div 100), 80) = (x + 79) \div 80
  BY <1>1, <1>2 DEF Ceiling
<1>4. r * cycles = x /\ stamps \in Nat /\ blocks \in Nat
  BY <1>2 DEF OutInv
<1>5. CASE blocking
  <2>1. x <= 80 * (s * stamps) /\ 80 * (s * stamps) < x + 80 * s /\ blocks = s * stamps
    BY <1>1, <1>4, <1>5, ClockInStep DEF OutInv, InStep, Blocks
  <2>2. (x + 79) \div 80 <= blocks /\ blocks < (x + 79) \div 80 + s
    BY <1>1, <1>4, <2>1
  <2> QED BY <1>1, <1>3, <1>5, <2>2 DEF RateIsExact
<1>6. CASE ~blocking
  <2>1. x <= 80 * blocks /\ 80 * blocks < x + 80
    BY <1>1, <1>4, <1>6 DEF OutInv, Blocks, BlocksDue
  <2>2. blocks = (x + 79) \div 80
    BY <1>4, <2>1
  <2> QED BY <1>3, <1>6, <2>2 DEF RateIsExact
<1> QED BY <1>5, <1>6

LEMMA InitOut == OutInit => OutInv
<1> SUFFICES ASSUME OutInit PROVE OutInv
  OBVIOUS
<1>1. sfc \in SFCs /\ blocking \in BOOLEAN
  <2>1. PICK m \in OutModes : sfc = m[1] /\ blocking = m[2]
    BY DEF OutInit
  <2>2. m \in SFCs \X BOOLEAN \X BOOLEAN
    BY AmdtpOutAssumption
  <2> QED BY <2>1, <2>2
<1>2. /\ cycles = 0 /\ stamps = 0 /\ blocks = 0 /\ lastSytOffset = 3072
      /\ sytOffsetState = InitialState[sfc].syt
      /\ dataBlockState = InitialState[sfc].block
      /\ packet = [cycle |-> 0, blocks |-> 0, syt |-> NO_INFO, first |-> 0, stamp |-> 0]
  BY DEF OutInit, TICKS_PER_CYCLE
<1>3. /\ InitialState[sfc].syt \in Int /\ InitialState[sfc].block \in Int
      /\ IsBase44100 => InitialState[sfc].syt = 67 /\ InitialState[sfc].block = 0
      /\ Period > 0
      /\ Phases \in {20, 40, 80} \/ ~IsBase44100
  BY <1>1, Tables DEF Base, Other, Phases
<1>4. Clock(0, 0, 3072, InitialState[sfc].syt)
  <2>1. Tick(0) = 0
    BY DEF Tick
  <2> QED BY <1>3, <2>1 DEF Clock, BaseClock, OtherClock
<1>5. Blocks(0, 0, 0, InitialState[sfc].block)
  <2>1. SytInterval \in Int /\ Rate \div 100 \in Int
    BY <1>1, Tables DEF Base, Other
  <2>2. (Rate \div 100) * 0 = 0 /\ SytInterval * 0 = 0
    BY <2>1
  <2> QED BY <1>3, <2>2 DEF Blocks, BlocksDue
<1>6. TimestampIsNearest
  BY <1>2 DEF TimestampIsNearest
<1> QED BY <1>1, <1>2, <1>3, <1>4, <1>5, <1>6 DEF OutInv

LEMMA PacketOut == OutInv /\ Packet => OutInv'
<1> SUFFICES ASSUME OutInv, Packet PROVE OutInv'
  OBVIOUS
<1> DEFINE o == SytOffset
           t == NextSytOffsetState
           c == cycles
           k == stamps
           n == IF ~blocking \/ o < 3072 THEN OutBlocks ELSE 0
           j == IF o < 3072 THEN k + 1 ELSE k
           d == IF n > 0 THEN NextDataBlockState ELSE dataBlockState
<1>1. /\ sfc \in SFCs /\ blocking \in BOOLEAN
      /\ c \in Nat /\ c < Period /\ k \in Nat /\ blocks \in Nat
      /\ lastSytOffset \in Int /\ sytOffsetState \in Int /\ dataBlockState \in Int
      /\ Clock(c, k, lastSytOffset, sytOffsetState)
      /\ Blocks(c, k, blocks, dataBlockState)
  BY DEF OutInv
<1>2. /\ o \in Int /\ t \in Int /\ 0 <= o /\ j \in Nat
      /\ Clock(c + 1, j, o, t)
      /\ o < 3072 => StampTick(k) = c * 3072 + o
  BY <1>1, ClockStep
<1>3. /\ o < 3072 =>
           Syt(c) # NO_INFO /\ Syt(c) = SytField(c * 3072 + o + TransferDelay)
      /\ o >= 3072 => Syt(c) = NO_INFO
  BY <1>1, <1>2, SytIs
<1>4. n \in Nat /\ d \in Int /\ Blocks(c + 1, j, blocks + n, d)
  <2>1. CASE ~blocking
    BY <1>1, <2>1, BlocksStep
  <2>2. CASE blocking
    <3>1. PICK s \in {8, 16, 32} : s = SytInterval
      BY <1>1, Tables DEF Base, Other
    <3>2. blocks = s * k /\ OutBlocks = s /\ NextDataBlockState = dataBlockState
      BY <2>2, <1>1, <3>1 DEF Blocks, OutBlocks, NextDataBlockState
    <3>3. n \in Nat /\ d \in Int /\ blocks + n = s * j
      BY <1>1, <2>2, <3>1, <3>2
    <3> QED BY <2>2, <3>1, <3>3 DEF Blocks
  <2> QED BY <2>1, <2>2
<1>5. o < 3072 <=> \E x \in blocks .. blocks + n - 1 : x % SytInterval = 0
  <2>1. InStep(c, k) /\ InStep(c + 1, j)
    BY <1>1, <1>2, ClockInStep
  <2>2. /\ SytInterval * (k - 1) < blocks /\ blocks <= SytInterval * k
        /\ SytInterval \in {8, 16, 32}
    BY <1>1, <2>1, BlocksInIntervals
  <2>3. SytInterval * (j - 1) < blocks + n /\ blocks + n <= SytInterval * j
    BY <1>1, <1>2, <1>4, <2>1, BlocksInIntervals
  <2>4. (j = k \/ j = k + 1) /\ (o < 3072 <=> j = k + 1)
    BY <1>1
  <2>5. j = k + 1 <=> \E x \in blocks .. blocks + n - 1 : x % SytInterval = 0
    <3> HIDE DEF n, j, o
    <3>1. PICK bb \in Int, nn \in Nat, kk \in Int, jj \in Int, ss \in {8, 16, 32} :
            bb = blocks /\ nn = n /\ kk = k /\ jj = j /\ ss = SytInterval
      BY <1>1, <1>2, <1>4, <2>2
    <3>2. /\ jj = kk \/ jj = kk + 1
          /\ ss * (kk - 1) < bb /\ bb <= ss * kk
          /\ ss * (jj - 1) < bb + nn /\ bb + nn <= ss * jj
      BY <2>2, <2>3, <2>4, <3>1
    <3>3. jj = kk + 1 <=> \E x \in bb .. bb + nn - 1 : x % ss = 0
      BY <3>2, StampedBlock
    <3> QED BY <3>1, <3>3
  <2> QED BY <2>4, <2>5
<1>6. /\ lastSytOffset' = o /\ sytOffsetState' = t
      /\ dataBlockState' = d
      /\ packet' = [cycle |-> c, blocks |-> n, syt |-> Syt(c), first |-> blocks, stamp |-> k]
      /\ cycles' = IF c + 1 = Period THEN 0 ELSE c + 1
      /\ stamps' = IF c + 1 = Period THEN 0 ELSE j
      /\ blocks' = IF c + 1 = Period THEN 0 ELSE blocks + n
      /\ UNCHANGED <<sfc, blocking>>
  BY <1>1, <1>2, <1>3 DEF Packet, confVars, Truth
<1> HIDE DEF n, j, o, t, d
<1>7. /\ Clock(cycles', stamps', lastSytOffset', sytOffsetState')
      /\ Blocks(cycles', stamps', blocks', dataBlockState')
      /\ cycles' \in Nat /\ cycles' < Period /\ stamps' \in Nat /\ blocks' \in Nat
  <2>1. CASE c + 1 = Period
    <3>1. Clock(0, 0, o, t)
      BY <1>1, <1>2, <2>1, ClockPeriod
    <3>2. Blocks(0, 0, 0, d)
      <4>1. SytInterval \in Int /\ Rate \div 100 \in Int
        BY <1>1, Tables DEF Base, Other
      <4>2. (Rate \div 100) * 0 = 0 /\ SytInterval * 0 = 0
        BY <4>1
      <4>3. IsBase44100 => Period % Phases = 0 /\ 0 % Phases = 0
        BY <1>1, Tables DEF Base, Other, Phases
      <4> QED BY <1>4, <2>1, <4>2, <4>3 DEF Blocks, BlocksDue
    <3>3. 0 \in Nat /\ 0 < Period
      BY DEF Period
    <3> QED BY <1>6, <2>1, <3>1, <3>2, <3>3
  <2>2. CASE c + 1 # Period
    <3>1. c + 1 \in Nat /\ c + 1 < Period /\ blocks + n \in Nat
      BY <1>1, <1>4, <2>2 DEF Period
    <3> QED BY <1>2, <1>4, <1>6, <2>2, <3>1
  <2> QED BY <2>1, <2>2
<1>8. /\ Clock(cycles, stamps, lastSytOffset, sytOffsetState)'
      /\ Blocks(cycles, stamps, blocks, dataBlockState)'
      /\ cycles' < Period'
  BY <1>6, <1>7 DEF Clock, Blocks, BlocksDue, Rate, SytInterval, Phases, Multiple, IsBase44100,
                    Period
<1>9. TimestampIsNearest'
  <2>1. /\ \A x : StampTick(x)' = StampTick(x)
        /\ TransferDelay' = TransferDelay /\ SytInterval' = SytInterval
    BY <1>6, SMT DEF StampTick, Rate, SytInterval, IsBase44100, TransferDelay
  <2>2. /\ packet'.syt = Syt(c) /\ packet'.first = blocks /\ packet'.blocks = n
        /\ packet'.cycle = c /\ packet'.stamp = k
    BY <1>6
  <2>3. Syt(c) # NO_INFO <=> o < 3072
    BY <1>2, <1>3
  <2>4. Syt(c) # NO_INFO =>
          /\ StampTick(k) = c * 3072 + o /\ StampTick(k) \div 3072 = c
          /\ Syt(c) = SytField(StampTick(k) + TransferDelay)
    <3>1. ASSUME o < 3072
          PROVE  (c * 3072 + o) \div 3072 = c
      BY <1>1, <1>2, <3>1, SMT
    <3> QED BY <1>2, <1>3, <2>3, <3>1
  <2> HIDE DEF c, k
  <2>5. (packet.syt # NO_INFO)' <=>
          \E b \in packet'.first .. packet'.first + packet'.blocks - 1 : b % SytInterval' = 0
    BY <1>5, <2>1, <2>2, <2>3
  <2>6. (packet.syt # NO_INFO)' =>
          /\ StampTick(packet.stamp)' \div 3072 = packet'.cycle
          /\ packet'.syt = SytField(StampTick(packet.stamp)' + TransferDelay')
    <3>1. StampTick(packet.stamp)' = StampTick(k)
      BY <1>6, <2>2, SMT DEF StampTick, Rate, SytInterval, IsBase44100
    <3> QED BY <2>1, <2>2, <2>4, <3>1
  <2> QED BY <2>5, <2>6, SMT DEF TimestampIsNearest, SytField, TICKS_PER_CYCLE
<1> QED BY <1>1, <1>2, <1>4, <1>6, <1>7, <1>8, <1>9 DEF OutInv

\* The inductive invariant of out-streams: after every packet the states of
\* calculate_data_blocks() and calculate_syt() are functions of the cycles since they were
\* last in phase.
THEOREM OutInvariance == OutSpec => []OutInv
<1>1. OutInv /\ [OutNext]_outVars => OutInv'
  <2> SUFFICES ASSUME OutInv, [OutNext]_outVars PROVE OutInv'
    OBVIOUS
  <2>1. CASE UNCHANGED outVars
    <3>1. UNCHANGED <<sfc, blocking, cycles, stamps, blocks, packet>>
          /\ UNCHANGED <<lastSytOffset, sytOffsetState, dataBlockState>>
      BY <2>1 DEF outVars, confVars, clockVars, histVars
    <3>2. TimestampIsNearest'
      BY <3>1, SMT DEF OutInv, TimestampIsNearest, StampTick, TransferDelay, Rate, SytInterval,
                       IsBase44100
    <3>3. /\ Clock(cycles, stamps, lastSytOffset, sytOffsetState)'
          /\ Blocks(cycles, stamps, blocks, dataBlockState)'
          /\ Period' = Period
      BY <3>1, SMT DEF OutInv, Clock, Blocks, BlocksDue, Rate, SytInterval, Phases, Multiple,
                       IsBase44100, Period
    <3> QED BY <3>1, <3>2, <3>3, SMT DEF OutInv
  <2> QED BY <2>1, PacketOut DEF OutNext
<1> QED BY <1>1, InitOut, PTL DEF OutSpec

\* "the overall rate is correct and exactly synchronized to the bus clock"
\* (amdtp.c:341-345), for all rates in both modes
THEOREM RateExact == OutSpec => []RateIsExact
BY OutInvariance, RateOfInv, PTL

\* A packet has a timestamp exactly when it has a block to stamp, and it is that block's time
\* to the nearest tick: "this code generates _exactly_ the same sequence" (amdtp.c:373-380).
THEOREM TimestampNearest == OutSpec => []TimestampIsNearest
BY OutInvariance, PTL DEF OutInv

----------------------------------------------------------------------------
(* The rate limit of MIDI bytes *)

\* The modes in which a packet has no fewer samples than the rate limit assumes.
FullPackets == \A m \in OutModes : m[1] \in {0, 1, 2} \/ m[2] \/ ~m[3]

\* Data blocks until the next one that carries port 0
Wait == (8 - outDbc) % 8

\* What the device has left of x after n data blocks
Left(x, n) == IF x - 3093 * n > 0 THEN x - 3093 * n ELSE 0

\* What the rate limit allows
Limit(r, s) == r - 3093 * s + 1

\* Until the next byte may be sent the device empties at least as far as the driver thinks.
FifoInv ==
  /\ sfc \in {0, 1, 2} \/ blocking \/ ~midi
  /\ midi \in BOOLEAN
  /\ outDbc \in Int /\ 0 <= outDbc /\ outDbc <= 7 /\ (blocking => outDbc = 0)
  /\ fifoUsed \in Nat /\ fill \in Nat /\ drained \in Nat
  /\ ~midi => fill = 0
  /\ midi => Left(fill, drained + Wait) <= Left(fifoUsed, SytInterval)
  /\ fill <= 2 * Rate

\* Before the frame of port 0 the device drains what it should; a frame is every s blocks.
LEMMA NoFrameDrain ==
  ASSUME NEW u \in Nat, NEW f \in Nat, NEW d \in Nat, NEW w \in Nat, NEW s \in Nat, NEW n \in Nat,
         n <= w, Left(f, d + w) <= Left(u, s),
         NEW dd \in Nat, dd = IF f = 0 THEN 0 ELSE d + n
  PROVE  Left(f, dd + (w - n)) <= Left(u, s)
BY DEF Left

LEMMA SentDrain ==
  ASSUME NEW u \in Nat, NEW f \in Nat, NEW d \in Nat, NEW w \in Nat, NEW s \in Nat, NEW n \in Nat,
         NEW v \in Nat, NEW r \in Nat,
         w < n, n + v = w + s, Left(f, d + w) <= Left(u, s),
         Left(u, s) = 0 \/ Left(u, s) < Limit(r, s)
  PROVE  /\ Left(f, d + w) + r <= 2 * r
         /\ Left(Left(f, d + w) + r, (n - w) + v)
              <= Left(Left(u, s) + r, s)
BY DEF Left, Limit

LEMMA SilentDrain ==
  ASSUME NEW u \in Nat, NEW f \in Nat, NEW d \in Nat, NEW w \in Nat, NEW s \in Nat, NEW n \in Nat,
         NEW v \in Nat,
         w < n, n + v = w + s, Left(f, d + w) <= Left(u, s)
  PROVE  /\ Left(f, d + n) <= f
         /\ Left(Left(f, d + n), 0 + v) <= Left(Left(u, s), s)
BY DEF Left

\* The frames of port 0 are SYT_INTERVAL data blocks apart.
LEMMA FrameEveryInterval ==
  ASSUME NEW b \in Int, 0 <= b, b <= 7, NEW w \in Int, w = (8 - b) % 8,
         NEW s \in {8, 16, 32}, NEW n \in Nat,
         (n <= 8 /\ s = 8) \/ (b = 0 /\ (n = s \/ n = 0)),
         NEW v \in Int, v = (8 - ((b + n) % 8)) % 8
  PROVE  /\ 0 <= w /\ 0 <= v
         /\ n <= w => v = w - n
         /\ w < n => n + v = w + s
         /\ \A f \in 0 .. n - 1 : f < 8 /\ (b + f) % 8 = 0 <=> f = w
OBVIOUS

LEMMA LeftNat == ASSUME NEW x \in Nat, NEW n \in Nat PROVE Left(x, n) \in Nat
BY DEF Left

LEMMA InitFifo == FullPackets /\ OutInit => FifoInv
<1> SUFFICES ASSUME FullPackets, OutInit PROVE FifoInv
  OBVIOUS
<1>1. PICK m \in OutModes : sfc = m[1] /\ blocking = m[2] /\ midi = m[3]
  BY DEF OutInit
<1>2. /\ sfc \in SFCs /\ midi \in BOOLEAN
      /\ sfc \in {0, 1, 2} \/ blocking \/ ~midi
  BY <1>1, AmdtpOutAssumption DEF FullPackets
<1>3. outDbc = 0 /\ fifoUsed = 0 /\ fill = 0 /\ drained = 0
  BY DEF OutInit
<1>4. PICK r \in Nat, s \in Nat : r = Rate /\ s = SytInterval
  BY <1>2, Tables DEF Base, Other
<1>5. /\ Left(0, 0 + Wait) <= Left(0, s)
      /\ 0 <= 2 * r
  BY <1>3 DEF Left, Wait
<1> QED BY <1>2, <1>3, <1>4, <1>5, SMT DEF FifoInv

\* The data blocks of a packet, for the distance of the frames of port 0
LEMMA PacketBlocks ==
  ASSUME OutInv, FifoInv, midi,
         NEW n, n = OutBlocks \/ (blocking /\ n = 0)
  PROVE  /\ n \in Nat /\ SytInterval \in {8, 16, 32}
         /\ (n <= 8 /\ SytInterval = 8) \/ (outDbc = 0 /\ (n = SytInterval \/ n = 0))
         /\ blocking => (outDbc + n) % 8 = 0
<1>1. sfc \in SFCs /\ blocking \in BOOLEAN /\ dataBlockState \in Int
  BY DEF OutInv
<1>2. SytInterval \in {8, 16, 32}
  BY <1>1, Tables DEF Base, Other
<1>3. CASE blocking
  BY <1>2, <1>3 DEF OutBlocks, FifoInv
<1>4. CASE ~blocking
  <2>1. sfc \in {0, 1, 2} /\ n = OutBlocks
    BY <1>4 DEF FifoInv
  <2>2. ~IsBase44100 => dataBlockState = InitialState[sfc].block
    BY <1>4 DEF OutInv, Blocks
  <2>3. CASE sfc = 1
    BY <1>1, <1>4, <2>1, <2>3, Tables DEF OutBlocks, Base, Other, Truth
  <2>4. CASE sfc # 1
    BY <1>1, <1>4, <2>1, <2>2, <2>4, Tables DEF OutBlocks, Base, Other
  <2> QED BY <1>4, <2>3, <2>4
<1> QED BY <1>3, <1>4

LEMMA PacketFifo == OutInv /\ FifoInv /\ Packet => FifoInv'
<1> SUFFICES ASSUME OutInv, FifoInv, Packet PROVE FifoInv'
  OBVIOUS
<1>1. PICK n : /\ n = OutBlocks \/ (blocking /\ n = 0)
               /\ outDbc' = (outDbc + n) % 8
               /\ FillMidi(n)
  <2> DEFINE n == IF ~blocking \/ Syt(cycles) # NO_INFO THEN OutBlocks ELSE 0
  <2>1. outDbc' = (outDbc + n) % 8 /\ FillMidi(n)
    BY DEF Packet
  <2>2. blocking \in BOOLEAN
    BY DEF OutInv
  <2>3. n = OutBlocks \/ (blocking /\ n = 0)
    <3>1. CASE blocking
      BY <3>1, Zenon
    <3>2. CASE ~blocking
      BY <3>2, Zenon
    <3> QED BY <2>2, <3>1, <3>2
  <2> QED BY <2>1, <2>3
<1>2. /\ UNCHANGED <<sfc, blocking, midi>>
      /\ Rate' = Rate /\ SytInterval' = SytInterval
  BY DEF Packet, confVars, Rate, SytInterval
<1>3. /\ sfc \in SFCs /\ blocking \in BOOLEAN /\ midi \in BOOLEAN
      /\ sfc \in {0, 1, 2} \/ blocking \/ ~midi
  BY DEF OutInv, FifoInv
<1>4. CASE ~midi
  <2>1. n \in Nat /\ (blocking => (outDbc + n) % 8 = 0)
    <3>1. CASE blocking
      <4>1. PICK s \in {8, 16, 32} : s = SytInterval
        BY <1>3, Tables DEF Base, Other
      <4>2. n = s \/ n = 0
        BY <1>1, <3>1, <4>1 DEF OutBlocks
      <4>3. outDbc = 0
        BY <3>1 DEF FifoInv
      <4> QED BY <4>2, <4>3
    <3>2. CASE ~blocking
      <4>1. /\ dataBlockState \in Int
            /\ ~IsBase44100 => dataBlockState = InitialState[sfc].block
        BY <3>2 DEF OutInv, Blocks
      <4>2. OutBlocks \in Nat
        BY <1>3, <3>2, <4>1, Tables DEF OutBlocks, Base, Other, Truth
      <4> QED BY <1>1, <3>2, <4>2
    <3> QED BY <3>1, <3>2
  <2>2. fill' = fill /\ fifoUsed' = fifoUsed /\ drained' = 0
    BY <1>1, <1>4 DEF FillMidi, FifoInv
  <2>3. /\ outDbc' \in Int /\ 0 <= outDbc' /\ outDbc' <= 7 /\ (blocking' => outDbc' = 0)
    BY <1>1, <1>2, <2>1 DEF FifoInv
  <2> QED BY <1>2, <1>3, <1>4, <2>2, <2>3 DEF FifoInv
<1>5. CASE midi
  <2>1. /\ n \in Nat /\ SytInterval \in {8, 16, 32}
        /\ (n <= 8 /\ SytInterval = 8) \/ (outDbc = 0 /\ (n = SytInterval \/ n = 0))
        /\ blocking => (outDbc + n) % 8 = 0
    BY <1>1, <1>5, PacketBlocks
  <2>2. PICK u \in Nat, f \in Nat, d \in Nat, w \in Nat, s \in Nat, r \in Nat, v \in Nat :
          /\ u = fifoUsed /\ f = fill /\ d = drained /\ s = SytInterval /\ r = Rate
          /\ w = Wait /\ v = Wait'
    <3>1. Rate \in Nat /\ SytInterval \in Nat
      BY <1>3, Tables DEF Base, Other
    <3>2. Wait \in Nat /\ Wait' \in Nat
      BY <1>1, <2>1 DEF Wait, FifoInv
    <3> QED BY <3>1, <3>2 DEF FifoInv
  <2>3. /\ n <= w => v = w - n
        /\ w < n => n + v = w + s
        /\ MidiFrames(n) = IF w < n THEN {w} ELSE {}
    <3>1. /\ outDbc \in Int /\ 0 <= outDbc /\ outDbc <= 7 /\ w = (8 - outDbc) % 8
          /\ v = (8 - ((outDbc + n) % 8)) % 8
      BY <1>1, <2>2 DEF FifoInv, Wait
    <3>2. /\ n <= w => v = w - n
          /\ w < n => n + v = w + s
          /\ \A x \in 0 .. n - 1 : x < 8 /\ (outDbc + x) % 8 = 0 <=> x = w
      BY <2>1, <2>2, <3>1, FrameEveryInterval
    <3>3. MidiFrames(n) = { x \in 0 .. n - 1 : x = w }
      <4>1. MidiFrames(n) = { x \in 0 .. n - 1 : x < 8 /\ (outDbc + x) % 8 = 0 }
        BY DEF MidiFrames, MAX_MIDI_RX_BLOCKS
      <4> QED BY <3>2, <4>1, Zenon
    <3>4. CASE w < n
      <4>1. w \in 0 .. n - 1
        BY <2>1, <2>2, <3>4
      <4> QED BY <3>2, <3>3, <3>4, <4>1
    <3>5. CASE n <= w
      <4>1. \A x \in 0 .. n - 1 : x # w
        BY <2>1, <2>2, <3>5
      <4>2. ~(w < n)
        BY <2>1, <2>2, <3>5
      <4> QED BY <3>2, <3>3, <4>1, <4>2
    <3>6. w < n \/ n <= w
      BY <2>1, <2>2
    <3> QED BY <3>2, <3>4, <3>5, <3>6, Zenon
  <2>4. Left(f, d + w) <= Left(u, s) /\ f <= 2 * r
    BY <1>5, <2>2, SMT DEF FifoInv
  <2>5. /\ outDbc' \in Int /\ 0 <= outDbc' /\ outDbc' <= 7 /\ (blocking' => outDbc' = 0)
    BY <1>1, <1>2, <2>1 DEF FifoInv
  <2>6. /\ fifoUsed' \in Nat /\ fill' \in Nat /\ drained' \in Nat
        /\ Left(fill', drained' + v) <= Left(fifoUsed', s)
        /\ fill' <= 2 * r
    <3>1. CASE n <= w
      <4>1. fifoUsed' = u /\ fill' = f /\ drained' = IF f = 0 THEN 0 ELSE d + n
        BY <1>1, <1>5, <2>1, <2>2, <2>3, <3>1 DEF FillMidi
      <4>2. PICK dd \in Nat : dd = IF f = 0 THEN 0 ELSE d + n
        BY <2>1
      <4>3. Left(f, dd + (w - n)) <= Left(u, s)
        BY <2>1, <2>4, <3>1, <4>2, NoFrameDrain
      <4> QED BY <2>3, <2>4, <3>1, <4>1, <4>2, <4>3, SMT
    <3>2. CASE w < n
      <4>1. /\ UsedAfterPacket = Left(u, s)
            /\ \A x : FillAfter(x) = Left(f, d + x)
            /\ MidiFifoLimit = Limit(r, s)
        BY <2>2 DEF UsedAfterPacket, FillAfter, MidiFifoLimit, MIDI_BYTES_PER_SECOND, Left, Limit
      <4>2. CASE /\ Ratelimit(UsedAfterPacket)
                 /\ fifoUsed' = UsedAfterPacket + Rate
                 /\ fill' = FillAfter(w) + Rate
                 /\ drained' = n - w
        <5>1. Left(u, s) = 0 \/ Left(u, s) < Limit(r, s)
          BY <4>1, <4>2 DEF Ratelimit
        <5>2. PICK x \in Nat, y \in Nat, z \in Nat :
                x = Left(u, s) /\ y = Left(f, d + w) /\ z = n - w
          <6>1. Left(u, s) \in Nat /\ Left(f, d + w) \in Nat
            <7>1. d + w \in Nat
              BY <2>2
            <7> QED BY <7>1, LeftNat
          <6>2. n - w \in Nat
            BY <2>1, <3>2
          <6> QED BY <6>1, <6>2
        <5>3. fifoUsed' = x + r /\ fill' = y + r /\ drained' = z
          BY <2>2, <4>1, <4>2, <5>2, SMT
        <5>4. y + r <= 2 * r /\ Left(y + r, z + v) <= Left(x + r, s)
          <6>1. /\ Left(f, d + w) + r <= 2 * r
                /\ Left(Left(f, d + w) + r, (n - w) + v)
                     <= Left(Left(u, s) + r, s)
            BY <2>1, <2>3, <2>4, <3>2, <5>1, SentDrain
          <6> QED BY <5>2, <6>1, SMT
        <5> QED BY <5>2, <5>3, <5>4, SMT
      <4>3. CASE /\ fifoUsed' = UsedAfterPacket
                 /\ fill' = FillAfter(n)
                 /\ drained' = 0
        <5>1. PICK x \in Nat, y \in Nat :
                x = Left(u, s) /\ y = Left(f, d + n)
          <6>1. Left(u, s) \in Nat /\ Left(f, d + n) \in Nat
            <7>1. d + n \in Nat
              BY <2>1
            <7> QED BY <7>1, LeftNat
          <6> QED BY <6>1
        <5>2. fifoUsed' = x /\ fill' = y /\ drained' = 0
          BY <4>1, <4>3, <5>1, SMT
        <5>3. y <= f /\ Left(y, 0 + v) <= Left(x, s)
          <6>1. /\ Left(f, d + n) <= f
                /\ Left(Left(f, d + n), 0 + v)
                     <= Left(Left(u, s), s)
            BY <2>1, <2>3, <2>4, <3>2, SilentDrain
          <6> QED BY <5>1, <6>1, SMT
        <5> QED BY <2>4, <5>1, <5>2, <5>3, SMT
      <4> QED BY <1>1, <1>5, <2>3, <3>2, <4>2, <4>3 DEF FillMidi
    <3> QED BY <2>1, <3>1, <3>2
  <2> QED BY <1>2, <1>3, <1>5, <2>2, <2>5, <2>6, SMT DEF FifoInv
<1> QED BY <1>3, <1>4, <1>5

\* "assume two bytes" (amdtp.c:244): the rate limit never lets a MIDI port of the device get
\* more, if its frames are SYT_INTERVAL data blocks apart, as "One packet has
\* syt_interval samples" (amdtp.c:496) says.
THEOREM FifoKept == FullPackets => (OutSpec => []MidiFifoKept)
<1>1. OutInv /\ FifoInv /\ [OutNext]_outVars => FifoInv'
  <2> SUFFICES ASSUME OutInv, FifoInv, [OutNext]_outVars PROVE FifoInv'
    OBVIOUS
  <2>1. CASE UNCHANGED outVars
    <3>1. UNCHANGED <<sfc, blocking, midi, outDbc, fifoUsed, fill, drained>>
      BY <2>1 DEF outVars, confVars, clockVars, midiVars
    <3> QED BY <3>1, SMT DEF FifoInv, Wait, Rate, SytInterval
  <2> QED BY <2>1, PacketFifo DEF OutNext
<1>2. FifoInv => MidiFifoKept
  BY DEF FifoInv, MidiFifoKept
<1> QED BY <1>1, <1>2, OutInvariance, InitFifo, PTL DEF OutSpec
===============================================================================
