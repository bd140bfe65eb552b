------------------------------ MODULE AmdtpOut -------------------------------
(***************************************************************************)
(* The contents of the packets of an AMDTP out-stream that provides its    *)
(* own timing, sound/firewire/amdtp.c: how many data blocks each packet    *)
(* has (calculate_data_blocks), its presentation time (calculate_syt), its *)
(* data block counter, and the rate limit of MIDI bytes                    *)
(* (amdtp_midi_ratelimit_per_packet, amdtp_fill_midi).                     *)
(*                                                                         *)
(* One step is one packet, i.e. one isochronous cycle: one turn of the     *)
(* loop of out_stream_callback() with the handle_out_packet() it calls.    *)
(* The history variables count cycles, timestamps and data blocks since    *)
(* the last time all three were exactly in phase with the bus clock, which *)
(* they are every Period cycles.                                           *)
(*                                                                         *)
(* What AmdtpIn names alike is named Out... here, so that one module can   *)
(* speak of both directions.                                               *)
(***************************************************************************)
EXTENDS Integers, FiniteSets

CONSTANTS
  OutModes  \* triples <<sfc, blocking, midi>>: how streams are configured

TICKS_PER_CYCLE  == 3072
CYCLES_PER_SECOND == 8000
TICKS_PER_SECOND == TICKS_PER_CYCLE * CYCLES_PER_SECOND
MIDI_BYTES_PER_SECOND == 3093
MAX_MIDI_RX_BLOCKS == 8
TRANSFER_DELAY_TICKS == 11776
NO_INFO == -1                 \* CIP_SYT_NO_INFO

SFCs == 0 .. 6

ASSUME AmdtpOutAssumption == OutModes \subseteq SFCs \X BOOLEAN \X BOOLEAN

amdtp_rate_table ==
  [s \in SFCs |-> <<32000, 44100, 48000, 88200, 96000, 176400, 192000>>[s + 1]]
amdtp_syt_intervals == [s \in SFCs |-> <<8, 8, 8, 16, 16, 32, 32>>[s + 1]]

VARIABLES
  sfc, blocking,  \* s->sfc and s->flags & CIP_BLOCKING
  midi,           \* s->midi_ports > 0
  dataBlockState, \* s->data_block_state
  lastSytOffset,  \* s->last_syt_offset
  sytOffsetState, \* s->syt_offset_state
  outDbc,         \* s->data_block_counter modulo 8: all that a MIDI port sees
  fifoUsed,       \* s->midi_fifo_used[0]
  packet,         \* the last packet: cycle, data blocks, syt
  cycles,         \* history: packets so far in this period
  stamps,         \* history: timestamps so far in this period
  blocks,         \* history: data blocks so far in this period
  fill,           \* history: what is in the FIFO of MIDI port 0 of the device
  drained         \* history: data blocks since fill was brought up to date

confVars == <<sfc, blocking, midi>>
clockVars == <<dataBlockState, lastSytOffset, sytOffsetState, outDbc>>
midiVars == <<fifoUsed, fill, drained>>
histVars == <<packet, cycles, stamps, blocks>>
outVars == <<confVars, clockVars, midiVars, histVars>>

Rate == amdtp_rate_table[sfc]
SytInterval == amdtp_syt_intervals[sfc]
IsBase44100 == sfc % 2 = 1

\* The sampling rate is in step with the bus clock after this many cycles.
Period == IF IsBase44100 THEN 640 ELSE 4

OutTypeOK ==
  /\ sfc \in SFCs /\ blocking \in BOOLEAN /\ midi \in BOOLEAN
  /\ dataBlockState \in 0 .. 79
  /\ lastSytOffset \in 0 .. 2 * TICKS_PER_CYCLE
  /\ sytOffsetState \in 0 .. TICKS_PER_CYCLE
  /\ outDbc \in 0 .. 7
  /\ fifoUsed \in Nat /\ fill \in Int /\ drained \in Nat
  /\ cycles \in 0 .. Period - 1 /\ stamps \in Nat /\ blocks \in Nat

----------------------------------------------------------------------------
(* amdtp_stream_set_parameters() and amdtp_stream_start() *)

\* Lines 229-233
TransferDelay ==
  TRANSFER_DELAY_TICKS - TICKS_PER_CYCLE
    + (IF blocking THEN (TICKS_PER_SECOND * SytInterval) \div Rate ELSE 0)

\* Mutant: the byte that is about to be sent not counted.
MidiFifoLimitTwo == 2 * Rate - MIDI_BYTES_PER_SECOND * SytInterval + 1

\* Line 248
MidiFifoLimit == Rate - MIDI_BYTES_PER_SECOND * SytInterval + 1

\* initial_state[], lines 906-918
InitialState ==
  [s \in SFCs |-> <<[block |-> 4,  syt |-> 3072], [block |-> 0, syt |-> 67],
                    [block |-> 6,  syt |-> 1024], [block |-> 0, syt |-> 67],
                    [block |-> 12, syt |-> 1024], [block |-> 0, syt |-> 67],
                    [block |-> 24, syt |-> 1024]>>[s + 1]]

\* Lines 931-940
OutInit ==
  /\ \E m \in OutModes : sfc = m[1] /\ blocking = m[2] /\ midi = m[3]
  /\ outDbc = 0
  /\ dataBlockState = InitialState[sfc].block
  /\ sytOffsetState = InitialState[sfc].syt
  /\ lastSytOffset = TICKS_PER_CYCLE
  /\ fifoUsed = 0 /\ fill = 0 /\ drained = 0
  /\ packet = [cycle |-> 0, blocks |-> 0, syt |-> NO_INFO, first |-> 0, stamp |-> 0]
  /\ cycles = 0 /\ stamps = 0 /\ blocks = 0

----------------------------------------------------------------------------
(* calculate_data_blocks(), lines 328-361 *)

Truth(b) == IF b THEN 1 ELSE 0

\* sfc >> 1, for the rates of the 44.1 kHz family
Multiple == sfc \div 2

OutBlocks ==
  LET phase == dataBlockState
  IN  IF blocking THEN SytInterval
      ELSE IF ~IsBase44100 THEN dataBlockState
      ELSE IF sfc = 1
        THEN 5 + (((phase % 2) + Truth(phase = 0 \/ phase >= 40)) % 2)
        ELSE 11 * Multiple + Truth(phase = 0)

\* Mutant: `phase++ >= ...'
LateDataBlockState ==
  IF blocking \/ ~IsBase44100 THEN dataBlockState
  ELSE IF dataBlockState >= 80 \div 2 ^ Multiple THEN 0 ELSE dataBlockState + 1

NextDataBlockState ==
  IF blocking \/ ~IsBase44100 THEN dataBlockState
  ELSE IF dataBlockState + 1 >= 80 \div 2 ^ Multiple THEN 0 ELSE dataBlockState + 1

----------------------------------------------------------------------------
(* calculate_syt(), lines 363-404 *)

\* Mutant: the test of the last phase of the cycle, 146, left out.
SytOffsetTruncated ==
  IF lastSytOffset >= TICKS_PER_CYCLE THEN lastSytOffset - TICKS_PER_CYCLE
  ELSE IF ~IsBase44100 THEN lastSytOffset + sytOffsetState
  ELSE LET index == sytOffsetState % 13
       IN  lastSytOffset + 1386 + Truth(index # 0 /\ index % 4 = 0)

SytOffset ==
  IF lastSytOffset >= TICKS_PER_CYCLE THEN lastSytOffset - TICKS_PER_CYCLE
  ELSE IF ~IsBase44100 THEN lastSytOffset + sytOffsetState
  ELSE LET index == sytOffsetState % 13
       IN  lastSytOffset + 1386
             + Truth((index # 0 /\ index % 4 = 0) \/ sytOffsetState = 146)

NextSytOffsetState ==
  IF lastSytOffset >= TICKS_PER_CYCLE \/ ~IsBase44100 THEN sytOffsetState
  ELSE IF sytOffsetState + 1 >= 147 THEN 0 ELSE sytOffsetState + 1

\* Mutant: transfer_delay is added to the field and not to the time.
SytUncarried(cycle) ==
  IF SytOffset >= TICKS_PER_CYCLE THEN NO_INFO
  ELSE ((cycle % 16) * 4096 + SytOffset + TransferDelay) % 65536

\* The syt field of a packet that is sent in a cycle.
Syt(cycle) ==
  IF SytOffset >= TICKS_PER_CYCLE THEN NO_INFO
  ELSE LET ticks == SytOffset + TransferDelay
       IN  ((cycle + ticks \div TICKS_PER_CYCLE) * 4096
              + (ticks % TICKS_PER_CYCLE)) % 65536

----------------------------------------------------------------------------
(* amdtp_fill_midi(), lines 524-549, for port 0 *)

\* The frame of a packet of n data blocks that carries port 0, if any.
MidiFrames(n) ==
  { f \in 0 .. n - 1 : f < MAX_MIDI_RX_BLOCKS /\ (outDbc + f) % 8 = 0 }

\* amdtp_midi_ratelimit_per_packet(), lines 502-516
Ratelimit(used) == used = 0 \/ used < MidiFifoLimit

UsedAfterPacket ==
  LET used == fifoUsed - MIDI_BYTES_PER_SECOND * SytInterval
  IN  IF used > 0 THEN used ELSE 0

\* The device sends MIDI_BYTES_PER_SECOND: what is left after n data blocks.
FillAfter(n) ==
  LET left == fill - MIDI_BYTES_PER_SECOND * (drained + n)
  IN  IF left > 0 THEN left ELSE 0

\* A byte is sent when the limit allows it and there is one to send.
FillMidi(n) ==
  IF ~midi \/ MidiFrames(n) = {}
    THEN /\ UNCHANGED <<fifoUsed, fill>>
         /\ drained' = IF fill = 0 THEN 0 ELSE drained + n
    ELSE \E f \in MidiFrames(n) :
           \/ /\ Ratelimit(UsedAfterPacket)
              /\ fifoUsed' = UsedAfterPacket + Rate
              /\ fill' = FillAfter(f) + Rate
              /\ drained' = n - f
           \/ /\ fifoUsed' = UsedAfterPacket
              /\ fill' = FillAfter(n)
              /\ drained' = 0

----------------------------------------------------------------------------
(* handle_out_packet(), lines 647-689, and out_stream_callback() *)

Packet ==
  LET syt == Syt(cycles)
      n   == IF ~blocking \/ syt # NO_INFO THEN OutBlocks ELSE 0
      end == cycles + 1 = Period
  IN  /\ dataBlockState' = IF n > 0 THEN NextDataBlockState ELSE dataBlockState
      /\ lastSytOffset' = SytOffset
      /\ sytOffsetState' = NextSytOffsetState
      /\ outDbc' = (outDbc + n) % 8
      /\ FillMidi(n)
      /\ packet' = [cycle |-> cycles, blocks |-> n, syt |-> syt,
                    first |-> blocks, stamp |-> stamps]
      /\ cycles' = IF end THEN 0 ELSE cycles + 1
      /\ stamps' = IF end THEN 0 ELSE stamps + Truth(syt # NO_INFO)
      /\ blocks' = IF end THEN 0 ELSE blocks + n
      /\ UNCHANGED confVars

OutNext == Packet

OutSpec == OutInit /\ [][OutNext]_outVars

----------------------------------------------------------------------------
(* Properties *)

\* a / b rounded up, and a / b rounded to the nearest integer.
Ceiling(a, b) == (a + b - 1) \div b
Nearest(a, b) == (2 * a + b) \div (2 * b)

\* The tick of the k-th timestamp of a period: k * SYT_INTERVAL / rate seconds.
StampTick(k) ==
  IF IsBase44100 THEN Nearest(k * 655360, 147)
  ELSE k * SytInterval * (TICKS_PER_SECOND \div Rate)

\* "the overall rate is correct and exactly synchronized to the bus clock, and
\* packets with a rounded-up number of blocks occur as early as possible"
\* (amdtp.c:341-345): after n packets the device has got n * rate / 8000 data
\* blocks, rounded up; and in blocking mode less than one interval more.
RateIsExact ==
  LET due == Ceiling(cycles * (Rate \div 100), 80)
  IN  IF blocking THEN blocks >= due /\ blocks < due + SytInterval
      ELSE blocks = due

\* The two state machines of data blocks and timestamps, which nothing in the code ties
\* together, agree: a packet has a timestamp exactly when it has the block the timestamp
\* is for, the one whose number is a multiple of SYT_INTERVAL.  And "this code generates
\* _exactly_ the same sequence" (amdtp.c:373-380) as the formula: the timestamp, in the
\* packet of the cycle it falls into, is the time of that block to the nearest tick,
\* plus the transfer delay.
TimestampIsNearest ==
  /\ packet.syt # NO_INFO <=>
       \E b \in packet.first .. packet.first + packet.blocks - 1 : b % SytInterval = 0
  /\ packet.syt # NO_INFO =>
       LET tick == StampTick(packet.stamp)
           due  == tick + TransferDelay
       IN  /\ tick \div TICKS_PER_CYCLE = packet.cycle
           /\ packet.syt = ((due \div TICKS_PER_CYCLE) * 4096
                              + (due % TICKS_PER_CYCLE)) % 65536

\* "assume two bytes" (amdtp.c:244): the FIFO of a MIDI port of the device,
\* which empties at its own rate, never holds more than two bytes.
MidiFifoKept == fill <= 2 * Rate
=============================================================================
