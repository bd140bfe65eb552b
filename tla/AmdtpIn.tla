------------------------------- MODULE AmdtpIn -------------------------------
(***************************************************************************)
(* An AMDTP in-stream packet by packet, sound/firewire/amdtp.c: the check  *)
(* of the data block counter with the quirks of the devices, the transfer  *)
(* to the PCM buffer and the MIDI ports, the PCM pointers and the period   *)
(* interrupt.                                                              *)
(*                                                                         *)
(* A packet is received, or lost on the bus, or has an invalid header. The *)
(* device is the environment: it obeys IEC 61883-6 but for the quirks of   *)
(* its mode. History variables count what was lost since the stream last   *)
(* had a reason to believe the device without a check, and note when a     *)
(* packet was taken without it over such a loss.                           *)
(***************************************************************************)
EXTENDS Integers

CONSTANTS
  Modes       \* how a device sends and how the driver has set the stream up

Counters == 0 .. 255
UINT_MAX == -1          \* no counter: 0xffffffff, odd like -1
Quadlets == 2           \* s->data_block_quadlets

(* A mode has the data blocks of the packets the device sends, the size it *)
(* claims a block has, the flags of enum cip_flags, tx_dbc_interval,       *)
(* double_pcm_frames, the size of the PCM buffer and of a period, and a    *)
(* bound: the data blocks lost since the last packet that was not checked. *)
(* Of the quirks, the drivers combine those of Fireworks: only its counter *)
(* is that of the last data block, and only it has a fixed interval or is  *)
(* set back.  The empty packets of M-Audio are wrong "at high sampling     *)
(* rate" only (bebob_stream.c:471), where packets have 16 or 32 blocks;    *)
(* and two frames in a data block are those of Dice above 96 kHz.          *)
Flags == {"BLOCKING", "DBC_IS_END_EVENT", "WRONG_DBS", "SKIP_DBC_ZERO_CHECK",
          "SKIP_INIT_DBC_CHECK", "EMPTY_HAS_WRONG_DBC"}

ASSUME AmdtpInAssumption ==
  \A m \in Modes :
    /\ m.blocks \subseteq 0 .. 255 /\ m.flags \subseteq Flags
    /\ m.dbs \in Nat \ {0} /\ m.interval \in Nat /\ m.double \in BOOLEAN
    /\ m.buffer \in Nat \ {0} /\ m.period \in 1 .. m.buffer
    /\ m.maxMissed \in Nat
    /\ "WRONG_DBS" \in m.flags \/ m.dbs = Quadlets
    /\ m.interval > 0 \/ "SKIP_DBC_ZERO_CHECK" \in m.flags => "DBC_IS_END_EVENT" \in m.flags
    /\ "EMPTY_HAS_WRONG_DBC" \in m.flags =>
         "DBC_IS_END_EVENT" \notin m.flags /\ \A b \in m.blocks : b % 16 = 0
    /\ m.double => "BLOCKING" \in m.flags /\ m.blocks \subseteq {0, 16}

VARIABLES
  mode,         \* the element of Modes
  sent,         \* the device: its data block counter
  restarted,    \* the device: a bus reset has set it back, the next packet says 0
  dbc,          \* s->data_block_counter
  dead,         \* "no", or why packet_index is negative
  pcm,          \* s->pcm is not NULL
  bufPtr,       \* s->pcm_buffer_pointer
  perPtr,       \* s->pcm_period_pointer
  flush,        \* s->pointer_flush
  tasklet,      \* period_tasklet is scheduled
  missed,       \* history: data blocks the host never saw
  unexplained,  \* history: the device restarted and its word was lost
  overlooked,   \* history: a packet was taken over a loss
  earned,       \* history: a period has filled up that nobody was told of
  last          \* history: the last packet

deviceVars == <<mode, sent, restarted>>
pcmVars == <<pcm, bufPtr, perPtr, flush, tasklet, earned>>
vars == <<deviceVars, pcmVars, dbc, dead, missed, unexplained, overlooked, last>>

Has(flag) == flag \in mode.flags

\* Nothing was taken from this packet. A stream that has begun with an empty
\* packet is remembered.
Nothing ==
  last' = [last EXCEPT !.kind = IF @ = "first empty" THEN @ ELSE "none",
                       !.blocks = 0, !.port = 0, !.wire = 0, !.end = 0]

NoPacket == [kind |-> "none", blocks |-> 0, port |-> 0, wire |-> 0, end |-> 0]

TypeOK ==
  /\ mode \in Modes /\ sent \in Counters /\ restarted \in BOOLEAN
  /\ dbc \in Counters \cup {UINT_MAX}
  /\ dead \in {"no", "lost", "dbs", "queue"}
  /\ pcm \in BOOLEAN /\ flush \in BOOLEAN /\ tasklet \in BOOLEAN
  /\ bufPtr \in Nat /\ perPtr \in Nat
  /\ missed \in 0 .. mode.maxMissed
  /\ unexplained \in BOOLEAN /\ overlooked \in BOOLEAN /\ earned \in BOOLEAN

----------------------------------------------------------------------------
(* The PCM substream *)

\* Frames per data block, lines 576-582
FramesPerBlock == IF mode.double THEN 2 ELSE 1

\* Mutant: the step of the sizes taken from the data blocks of a packet.
ConstraintsOfBlocks == Has("BLOCKING") => mode.buffer % 16 = 0 /\ mode.period % 16 = 0

\* The sizes the constraints leave to user space. A period of 5 ms has more
\* frames than a packet.
Constraints ==
  /\ Has("BLOCKING") => mode.buffer % 32 = 0 /\ mode.period % 32 = 0
  /\ \A b \in mode.blocks : b * FramesPerBlock <= mode.period

\* amdtp_read_s32(): where the last frame of a packet ends in the buffer. The
\* loop counts the frames that remain down once per data block.
TransferEnd(count) ==
  LET remaining == mode.buffer - bufPtr
      from == IF count >= remaining THEN 0 ELSE bufPtr
      stored == IF count >= remaining THEN count - remaining ELSE count
      beforeWrap == IF count >= remaining
                    THEN bufPtr + remaining * FramesPerBlock ELSE 0
      afterWrap == from + stored * FramesPerBlock
  IN  IF beforeWrap > afterWrap THEN beforeWrap ELSE afterWrap

\* Mutant: the frames of a data block not doubled.
SingleAdvance(count) ==
  LET ptr == bufPtr + count
  IN  /\ bufPtr' = IF ptr >= mode.buffer THEN ptr - mode.buffer ELSE ptr
      /\ IF perPtr + count >= mode.period
         THEN perPtr' = perPtr + count - mode.period /\ flush' = FALSE
              /\ tasklet' = TRUE /\ earned' = TRUE
         ELSE perPtr' = perPtr + count /\ UNCHANGED <<flush, tasklet, earned>>

\* update_pcm_pointers()
UpdatePcmPointers(count) ==
  LET frames == count * FramesPerBlock
      ptr == bufPtr + frames
  IN  /\ bufPtr' = IF ptr >= mode.buffer THEN ptr - mode.buffer ELSE ptr
      /\ IF perPtr + frames >= mode.period
         THEN /\ perPtr' = perPtr + frames - mode.period
              /\ flush' = FALSE /\ tasklet' = TRUE /\ earned' = TRUE
         ELSE perPtr' = perPtr + frames /\ UNCHANGED <<flush, tasklet, earned>>

\* Mutant: tasklet_kill() forgotten.
PcmPrepareLeavesTasklet ==
  /\ ~pcm
  /\ bufPtr' = 0 /\ perPtr' = 0 /\ flush' = TRUE /\ earned' = FALSE
  /\ UNCHANGED <<deviceVars, pcm, tasklet, dbc, dead, missed, unexplained, overlooked, last>>

\* amdtp_stream_pcm_prepare()
PcmPrepare ==
  /\ ~pcm
  /\ tasklet' = FALSE
  /\ bufPtr' = 0 /\ perPtr' = 0 /\ flush' = TRUE /\ earned' = FALSE
  /\ UNCHANGED <<deviceVars, pcm, dbc, dead, missed, unexplained, overlooked, last>>

\* amdtp_stream_pcm_trigger(): a start follows a prepare, a stop may not be
\* followed by a start at once.
PcmTrigger ==
  /\ pcm \/ (bufPtr = 0 /\ perPtr = 0 /\ ~tasklet)
  /\ pcm' = ~pcm
  /\ UNCHANGED <<deviceVars, bufPtr, perPtr, flush, tasklet, earned, dbc, dead,
                 missed, unexplained, overlooked, last>>

\* pcm_period_tasklet(); snd_pcm_period_elapsed() asks for the position, which
\* sets pointer_flush again.
PeriodTasklet ==
  /\ tasklet
  /\ tasklet' = FALSE
  /\ IF pcm THEN flush' = TRUE /\ earned' = FALSE ELSE UNCHANGED <<flush, earned>>
  /\ UNCHANGED <<deviceVars, pcm, bufPtr, perPtr, dbc, dead, missed, unexplained, overlooked, last>>

\* amdtp_stream_pcm_pointer(): what it flushes is handled as packets below.
PcmPointer ==
  /\ ~flush
  /\ flush' = TRUE
  /\ UNCHANGED <<deviceVars, pcm, bufPtr, perPtr, tasklet, earned, dbc, dead, missed,
                 unexplained, overlooked, last>>

----------------------------------------------------------------------------
(* The device *)

\* By how much a packet with b data blocks advances the counter of the device
Advance(b) == IF b > 0 /\ mode.interval > 0 THEN mode.interval ELSE b

SentAfter(b) == IF restarted THEN 0 ELSE (sent + Advance(b)) % 256

\* The dbc field of the packet
Field(b) ==
  IF Has("DBC_IS_END_EVENT") THEN SentAfter(b)
  ELSE IF b = 0 /\ Has("EMPTY_HAS_WRONG_DBC") THEN (sent + 8) % 256
  ELSE sent

\* A bus reset sets the counter of a Fireworks back.
DeviceRestarts ==
  /\ Has("SKIP_DBC_ZERO_CHECK") /\ ~restarted
  /\ restarted' = TRUE
  /\ UNCHANGED <<mode, sent, pcmVars, dbc, dead, missed, unexplained, overlooked, last>>

Miss(b) ==
  /\ missed + Advance(b) <= mode.maxMissed
  /\ missed' = missed + Advance(b)
  /\ unexplained' = (unexplained \/ restarted)
  /\ UNCHANGED overlooked

\* A packet that does not arrive
Lose(b) ==
  /\ dead = "no"
  /\ sent' = SentAfter(b) /\ restarted' = FALSE
  /\ Miss(b)
  /\ Nothing
  /\ UNCHANGED <<mode, pcmVars, dbc, dead>>

----------------------------------------------------------------------------
(* handle_in_packet() *)

\* amdtp_stream_start() of the stream, and the device starts to send. A counter
\* that is checked from the first packet on starts with zero.
Init ==
  /\ mode \in Modes /\ Constraints
  /\ IF Has("SKIP_INIT_DBC_CHECK")
     THEN dbc = UINT_MAX /\ sent \in {s \in Counters : s % 120 = 0}
     ELSE dbc = 0 /\ sent = 0
  /\ restarted = FALSE /\ dead = "no" /\ pcm = FALSE
  /\ bufPtr = 0 /\ perPtr = 0 /\ flush = TRUE /\ tasklet = FALSE
  /\ missed = 0 /\ unexplained = FALSE /\ overlooked = FALSE /\ earned = FALSE
  /\ last = NoPacket

\* The size of a packet over the size of a data block
DataBlocks(b) ==
  IF b = 0 THEN 0
  ELSE (b * Quadlets) \div (IF Has("WRONG_DBS") THEN Quadlets ELSE mode.dbs)

\* Mutant: the counter of an empty packet believed.
ClaimedCounter(b) == Field(b)

\* data_block_counter: of the packet, or of the stream when it is an empty one
\* with a counter that is known to be wrong
PacketCounter(b) ==
  IF DataBlocks(b) = 0 /\ Has("EMPTY_HAS_WRONG_DBC") /\ dbc # UINT_MAX
  THEN dbc ELSE Field(b)

Unchecked(b) ==
  \/ Has("SKIP_DBC_ZERO_CHECK") /\ PacketCounter(b) = 0
  \/ dbc = UINT_MAX

\* Mutant: the interval of an empty packet taken to be fixed as well.
LostWithFixedInterval(b) ==
  /\ ~Unchecked(b)
  /\ IF Has("DBC_IS_END_EVENT")
     THEN PacketCounter(b) #
            (dbc + (IF mode.interval > 0 THEN mode.interval ELSE DataBlocks(b))) % 256
     ELSE PacketCounter(b) # dbc

\* Mutant: only a counter that runs ahead is looked for.
LostAhead(b) == ~Unchecked(b) /\ PacketCounter(b) > dbc

Lost(b) ==
  /\ ~Unchecked(b)
  /\ IF ~Has("DBC_IS_END_EVENT") THEN PacketCounter(b) # dbc
     ELSE LET interval == IF DataBlocks(b) > 0 /\ mode.interval > 0
                          THEN mode.interval ELSE DataBlocks(b)
          IN  PacketCounter(b) # (dbc + interval) % 256

NextCounter(b) ==
  IF Has("DBC_IS_END_EVENT") THEN PacketCounter(b)
  ELSE (PacketCounter(b) + DataBlocks(b)) % 256

\* Mutant: the first block of every packet taken for port 0.
MidiPortOfPacket == 0

\* amdtp_pull_midi(): the port of the first data block, f = 0. The counter of the
\* stream is the one before this packet.
MidiPort == dbc % 8

\* amdtp_stream_pcm_abort() stops the substream: its trigger clears s->pcm.
Die(why) == dead' = why /\ pcm' = FALSE

Discontinuity(b) ==
  /\ Lost(b)
  /\ Die("lost")
  /\ Nothing
  /\ UNCHANGED <<dbc, bufPtr, perPtr, flush, tasklet, earned, missed, unexplained, overlooked>>

\* The stream has a counter to compare with, data blocks are missing in front
\* of the packet, and no later one will tell: it has data, or is believed.
OverLoss(b) ==
  /\ dbc # UINT_MAX /\ missed % 256 # 0 /\ ~unexplained
  /\ DataBlocks(b) > 0 \/ Unchecked(b)

\* The first part of what accepting a packet does: data and counter
Accept(b) ==
  /\ dead = "no" /\ ~Lost(b)
  /\ dbc' = NextCounter(b)
  /\ last' = [kind |-> CASE DataBlocks(b) = 0 /\ dbc = UINT_MAX -> "first empty"
                         [] DataBlocks(b) = 0 /\ dbc # UINT_MAX ->
                              IF last.kind = "first empty" THEN last.kind ELSE "empty"
                         [] DataBlocks(b) > 0 /\ Unchecked(b) -> "unchecked"
                         [] OTHER -> "checked",
              blocks |-> DataBlocks(b),
              port |-> MidiPort, wire |-> sent % 8,
              end |-> IF pcm THEN TransferEnd(DataBlocks(b)) ELSE 0]
  /\ overlooked' = (overlooked \/ OverLoss(b))
  /\ IF Unchecked(b) THEN missed' = 0 /\ unexplained' = FALSE
     ELSE UNCHANGED <<missed, unexplained>>

\* A packet that is taken and queued again
Take(b) ==
  /\ Accept(b)
  /\ IF pcm /\ DataBlocks(b) > 0
     THEN UpdatePcmPointers(DataBlocks(b)) ELSE UNCHANGED <<bufPtr, perPtr, flush, tasklet, earned>>
  /\ UNCHANGED <<dead, pcm>>

\* A packet that is taken but queue_in_packet() fails
TakeQueueFails(b) ==
  /\ Accept(b)
  /\ Die("queue")
  /\ UNCHANGED <<bufPtr, perPtr, flush, tasklet, earned>>

\* One packet arrives.
HandleInPacket(b) ==
  /\ dead = "no"
  /\ sent' = SentAfter(b) /\ restarted' = FALSE /\ mode' = mode
  /\ Discontinuity(b) \/ Take(b) \/ TakeQueueFails(b)

\* An invalid CIP header: the packet is queued again and nothing else, or
\* queue_in_packet() fails for it as well (line 783).
InvalidHeader(b) ==
  /\ dead = "no"
  /\ sent' = SentAfter(b) /\ restarted' = FALSE
  /\ Miss(b)
  /\ Nothing
  /\ UNCHANGED <<dead, pcm>> \/ Die("queue")
  /\ UNCHANGED <<mode, bufPtr, perPtr, flush, tasklet, earned, dbc>>

\* A dbs field of zero in a packet with data
ZeroDbs(b) ==
  /\ dead = "no" /\ b > 0
  /\ sent' = SentAfter(b) /\ restarted' = FALSE
  /\ Miss(b)
  /\ Nothing
  /\ Die("dbs")
  /\ UNCHANGED <<mode, bufPtr, perPtr, flush, tasklet, earned, dbc>>

Next ==
  \/ \E b \in mode.blocks :
       HandleInPacket(b) \/ InvalidHeader(b) \/ ZeroDbs(b) \/ Lose(b)
  \/ DeviceRestarts
  \/ PcmPrepare \/ PcmTrigger \/ PcmPointer \/ PeriodTasklet

Spec == Init /\ [][Next]_vars

----------------------------------------------------------------------------
(* Properties *)

(* Data blocks that the host never saw are noticed at the latest by the    *)
(* next packet with data (line 748), unless their number is a multiple of  *)
(* 256 or the device restarted its counter in a packet that was lost.  A   *)
(* packet is taken over any other loss only where the check of a counter   *)
(* of 0 is skipped: on a Fireworks, what was lost in front of a packet     *)
(* whose counter happens to have wrapped to 0 goes unnoticed for good.     *)
(* And a stream is given up for a discontinuity (line 759) only when       *)
(* something was lost, whatever quirk the device has, except the M-Audio   *)
(* one when the first packet is an empty one: its wrong counter is         *)
(* believed (line 740) and the first packet with data looks like a loss.   *)
LossIsNoticed ==
  /\ dead = "no" /\ last.kind = "checked" => unexplained \/ missed % 256 = 0
  /\ overlooked => Has("SKIP_DBC_ZERO_CHECK")
  /\ dead = "lost" =>
       \/ missed > 0 \/ unexplained
       \/ Has("EMPTY_HAS_WRONG_DBC") /\ last.kind = "first empty"

(* MIDI bytes go to the port the device means (line 559), except in the    *)
(* packets whose counter was not checked.                                  *)
MidiPortIsRight ==
  last.kind = "checked" => unexplained \/ last.port = last.wire

(* PCM samples stay inside the PCM buffer (lines 465-477), also when a     *)
(* data block has two frames but the loop counts the blocks; and a period  *)
(* interrupt (line 593) is for a period that filled up since the substream *)
(* was prepared and that was not reported yet.                             *)
PointersAreRight ==
  /\ last.end <= mode.buffer /\ bufPtr < mode.buffer /\ perPtr < mode.period
  /\ tasklet => earned
=============================================================================
