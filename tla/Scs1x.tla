-------------------------------- MODULE Scs1x --------------------------------
(***************************************************************************)
(* The driver of the Stanton SCS.1x MIDI controllers                       *)
(* (sound/firewire/scs1x.c).  A tasklet takes bytes from the rawmidi       *)
(* buffer, makes packets of one command each and sends them by one         *)
(* asynchronous transaction at a time; packets the device sends become     *)
(* MIDI bytes.  What is not MIDI goes both ways in SysEx messages of       *)
(* nibbles.                                                                *)
(*                                                                         *)
(* What Isight names alike is named Scs... here, for the module of both    *)
(* that has the proofs.                                                    *)
(***************************************************************************)
EXTENDS Integers, Sequences, FiniteSets, SequencesExt

CONSTANTS
  MaxPacket,      \* HSS1394_MAX_PACKET_SIZE
  Prefix,         \* sysex_escape_prefix
  MidiBytes,      \* bytes an application writes
  DevicePackets,  \* packets the device sends
  MaxQueued       \* bound: bytes in the rawmidi buffer

ASSUME ScsAssumption ==
  /\ MaxPacket \in Nat /\ MaxPacket > 4 /\ MaxQueued \in Nat \ {0}
  /\ MidiBytes \subseteq 0 .. 255
  /\ Prefix \in Seq(MidiBytes) /\ Len(Prefix) \in 2 .. MaxPacket - 1
  /\ Prefix[1] = 240 /\ \A i \in 2 .. Len(Prefix) : Prefix[i] < 128
  \* hss_handler.length
  /\ DevicePackets \subseteq Seq(0 .. 255)
  /\ \A d \in DevicePackets : Len(d) \in 1 .. MaxPacket

VARIABLES
  scs,      \* fields of struct scs for the output
  cells,    \* scs->buffer, up to the last byte that is valid
  tasklet,  \* scheduled, and where it is
  queued,   \* bytes in the rawmidi buffer of the output
  user,     \* where the thread of the output substream is
  remove,   \* where scs_remove() is
  scsPast   \* history

scsVars == <<scs, cells, tasklet, queued, user, remove, scsPast>>

TAG == 0      \* HSS1394_TAG_USER_DATA
ADDR == 241   \* HSS1394_TAG_CHANGE_ADDRESS
ANY == -1     \* buffer[0] before it is written

ScsTypeOK ==
  /\ scs \in [stream : BOOLEAN, idle : BOOLEAN, running : BOOLEAN, status : 0 .. 255,
              bytes : 0 .. MaxPacket, escaped : BOOLEAN, high : BOOLEAN, half : 0 .. 255]
  /\ cells \in Seq(-1 .. 255) /\ Len(cells) <= MaxPacket
  /\ tasklet \in [scheduled : BOOLEAN, at : {"off", "loop", "empty"}]
  /\ queued \in 0 .. MaxQueued
  /\ user \in {"closed", "open", "write", "up", "drain"}
  /\ remove \in {"no", "idle", "kill", "gone"}
  /\ scsPast \in [escaped : BOOLEAN, crossed : BOOLEAN, late : BOOLEAN]

ScsInit ==
  /\ scs = [stream |-> FALSE, idle |-> TRUE, running |-> FALSE, status |-> 0,
            bytes |-> 0, escaped |-> FALSE, high |-> FALSE, half |-> 0]
  /\ cells = <<>>
  /\ tasklet = [scheduled |-> FALSE, at |-> "off"]
  /\ queued = 0 /\ user = "closed" /\ remove = "no"
  /\ scsPast = [escaped |-> FALSE, crossed |-> FALSE, late |-> FALSE]

----------------------------------------------------------------------------
(* scs_output_tasklet(): one byte, for the packet p that is being made *)

is_valid_running_status(s) == s \in 128 .. 239
is_one_byte_cmd(s) == s = 246 \/ s >= 248
is_two_bytes_cmd(s) == s \in 192 .. 223 \cup {241, 243}
is_three_bytes_cmd(s) == s \in 128 .. 191 \cup 224 .. 239 \cup {242}
is_invalid_cmd(s) == s \in {244, 245, 249, 253}

Fresh == <<ANY>>

\* Mutant: the last byte of the longest packet is not taken.
EscapedByteShort(p, byte) ==
  IF p.high
  THEN IF Len(p.cells) < MaxPacket - 1
       THEN [p EXCEPT !.half = (byte * 16) % 256, !.high = FALSE] ELSE p
  ELSE [p EXCEPT !.cells = Append(@, p.half + (byte % 16)), !.half = 0, !.high = TRUE]

\* Lines 165-174
EscapedByte(p, byte) ==
  IF p.high
  THEN IF Len(p.cells) < MaxPacket
       THEN [p EXCEPT !.half = (byte * 16) % 256, !.high = FALSE] ELSE p
  ELSE [p EXCEPT !.cells = Append(@, p.half + (byte % 16)), !.half = 0, !.high = TRUE]

\* Lines 176-194: a long SysEx message is dropped.
DataByte(p, byte) ==
  LET c == Append(IF Len(p.cells) = 1 THEN <<TAG, p.status>> ELSE p.cells, byte)
      prefix == Len(c) = 1 + Len(Prefix) /\ Tail(c) = Prefix
  IN IF Len(p.cells) = 1 /\ ~is_valid_running_status(p.status) THEN p
     ELSE IF \/ Len(c) = 3 /\ is_two_bytes_cmd(p.status)
             \/ Len(c) = 4 /\ is_three_bytes_cmd(p.status)
     THEN [p EXCEPT !.cells = c, !.send = TRUE]
     ELSE IF prefix THEN [p EXCEPT !.cells = <<>>, !.escaped = TRUE, !.high = TRUE]
     ELSE [p EXCEPT !.cells = IF Len(c) >= MaxPacket THEN Fresh ELSE c]

\* Mutant: whatever command is in the making is ended.
EndByteOfAny(p) ==
  IF p.escaped /\ Len(p.cells) >= 1 /\ p.high /\ Head(p.cells) # ADDR
  THEN [p EXCEPT !.send = TRUE]
  ELSE IF ~p.escaped /\ Len(p.cells) > 1
  THEN [p EXCEPT !.cells = Append(@, 247), !.send = TRUE]
  ELSE [p EXCEPT !.cells = Fresh, !.escaped = FALSE, !.half = 0]

\* Lines 196-207
EndByte(p) ==
  IF p.escaped /\ Len(p.cells) >= 1 /\ p.high /\ Head(p.cells) # ADDR
  THEN [p EXCEPT !.send = TRUE]
  ELSE IF ~p.escaped /\ Len(p.cells) > 1 /\ p.status = 240
  THEN [p EXCEPT !.cells = Append(@, 247), !.send = TRUE]
  ELSE [p EXCEPT !.cells = Fresh, !.escaped = FALSE, !.half = 0]

\* Lines 210-216
StatusByte(p, byte) ==
  [p EXCEPT !.cells = <<TAG, byte>>, !.status = byte, !.escaped = FALSE, !.half = 0,
            !.send = is_one_byte_cmd(byte)]

OutputByte(p, byte) ==
  CASE byte < 128 /\ p.escaped -> EscapedByte(p, byte)
    [] byte < 128 /\ ~p.escaped -> DataByte(p, byte)
    [] byte = 247 -> EndByte(p)
    [] byte \in 128 .. 246 /\ ~is_invalid_cmd(byte) -> StatusByte(p, byte)
    [] OTHER -> p

\* The packet in the making after some bytes.
OutputBytes(p, bytes) ==
  LET after[i \in 0 .. Len(bytes)] ==
        IF i = 0 THEN p ELSE OutputByte(after[i - 1], bytes[i])
  IN  after[Len(bytes)]

----------------------------------------------------------------------------
(* scs_input_packet(): the MIDI bytes for a packet, and input_escape_count *)

Nibbles(byte) == <<byte \div 16, byte % 16>>

scs_input_midi_byte(in, byte) ==
  IF in.count > 0
  THEN [count |-> in.count - 1,
        midi |-> in.midi \o Nibbles(byte) \o (IF in.count = 1 THEN <<247>> ELSE <<>>)]
  ELSE IF byte = 249
  THEN [count |-> 3, midi |-> in.midi \o Prefix \o Nibbles(TAG) \o Nibbles(249)]
  ELSE [in EXCEPT !.midi = Append(@, byte)]

AllNibbles(data) ==
  [i \in 1 .. 2 * Len(data) |->
     IF i % 2 = 1 THEN data[(i + 1) \div 2] \div 16 ELSE data[i \div 2] % 16]

scs_input_packet(count, data) ==
  LET none == [count |-> count, midi |-> <<>>]
      after[i \in 1 .. Len(data)] ==
        IF i = 1 THEN none ELSE scs_input_midi_byte(after[i - 1], data[i])
  IN  IF data[1] = TAG THEN after[Len(data)]
      ELSE [none EXCEPT !.midi = Prefix \o AllNibbles(data) \o <<247>>]

----------------------------------------------------------------------------
(* The tasklet and the transaction *)

\* Mutant: a transaction that runs is not looked at.
TaskletStartsAnyway ==
  /\ tasklet.scheduled /\ tasklet.at = "off"
  /\ tasklet' = [scheduled |-> FALSE, at |-> IF scs.stream THEN "loop" ELSE "off"]
  /\ scs' = [scs EXCEPT !.idle = @ \/ ~scs.stream]
  /\ cells' = IF scs.stream THEN SubSeq(cells, 1, scs.bytes) ELSE cells
  /\ UNCHANGED <<queued, user, remove, scsPast>>

\* Mutant: nobody is woken when the substream was stopped.
TaskletStartsUnstopped ==
  /\ tasklet.scheduled /\ tasklet.at = "off"
  /\ tasklet' = [scheduled |-> FALSE,
                 at |-> IF ~scs.running /\ scs.stream THEN "loop" ELSE "off"]
  /\ cells' = IF ~scs.running /\ scs.stream THEN SubSeq(cells, 1, scs.bytes) ELSE cells
  /\ UNCHANGED <<scs, queued, user, remove, scsPast>>

\* Lines 143-153: cells from output_bytes on are not read before they are written.
TaskletStarts ==
  /\ tasklet.scheduled /\ tasklet.at = "off"
  /\ tasklet' = [scheduled |-> FALSE,
                 at |-> IF ~scs.running /\ scs.stream THEN "loop" ELSE "off"]
  /\ scs' = [scs EXCEPT !.idle = @ \/ (~scs.running /\ ~scs.stream)]
  /\ cells' = IF ~scs.running /\ scs.stream THEN SubSeq(cells, 1, scs.bytes) ELSE cells
  /\ UNCHANGED <<queued, user, remove, scsPast>>

\* Lines 155-228
TaskletByte ==
  /\ tasklet.at = "loop" /\ queued > 0
  /\ queued' = queued - 1
  /\ \E byte \in MidiBytes :
       LET p == OutputByte([cells |-> cells, status |-> scs.status, escaped |-> scs.escaped,
                            high |-> scs.high, half |-> scs.half, send |-> FALSE], byte)
       IN /\ cells' = p.cells
          /\ scs' = [scs EXCEPT !.status = p.status, !.high = p.high, !.half = p.half,
                       !.escaped = p.escaped /\ ~p.send, !.running = p.send,
                       !.bytes = IF p.send THEN 1 ELSE @]
          /\ tasklet' = [tasklet EXCEPT !.at = IF p.send THEN "off" ELSE "loop"]
          /\ scsPast' = [scsPast EXCEPT !.escaped = p.send /\ p.escaped]
  /\ UNCHANGED <<user, remove>>

\* Lines 155-160: new bytes may come before output_idle is set.
TaskletFindsNothing ==
  /\ tasklet.at = "loop" /\ queued = 0
  /\ scs' = [scs EXCEPT !.bytes = Len(cells)]
  /\ tasklet' = [tasklet EXCEPT !.at = "empty"]
  /\ UNCHANGED <<cells, queued, user, remove, scsPast>>
TaskletIsIdle ==
  /\ tasklet.at = "empty"
  /\ scs' = [scs EXCEPT !.idle = TRUE]
  /\ tasklet' = [tasklet EXCEPT !.at = "off"]
  /\ scsPast' = [scsPast EXCEPT !.crossed = tasklet.scheduled]
  /\ UNCHANGED <<cells, queued, user, remove>>

\* Whatever the answer was; a packet lost to a bus reset is not sent again.
scs_write_callback ==
  /\ scs.running
  /\ scs' = [scs EXCEPT !.running = FALSE]
  /\ tasklet' = [tasklet EXCEPT !.scheduled = TRUE]
  /\ scsPast' = [scsPast EXCEPT !.escaped = FALSE]
  /\ UNCHANGED <<cells, queued, user, remove>>

----------------------------------------------------------------------------
(* The output substream and scs_remove() *)

scs_output_open ==
  /\ user = "closed" /\ remove = "no"
  /\ user' = "open"
  /\ scs' = [scs EXCEPT !.status = 0, !.bytes = 1, !.escaped = FALSE]
  /\ cells' = IF scs.running THEN cells ELSE Fresh
  /\ UNCHANGED <<tasklet, queued, remove, scsPast>>

\* The rawmidi core puts bytes into its buffer, then calls scs_output_trigger().  Once
\* the card is disconnected no write begins; one that is under way goes on.
More == \E n \in 1 .. MaxQueued - queued : queued' = queued + n
Write ==
  /\ user = "open" /\ remove = "no"
  /\ More
  /\ user' = "write"
  /\ UNCHANGED <<scs, cells, tasklet, remove, scsPast>>

\* Line 81, late when scs_remove() has been there
TriggerSets ==
  /\ user = "write"
  /\ scs' = [scs EXCEPT !.stream = TRUE]
  /\ scsPast' = [scsPast EXCEPT !.late = remove # "no"]
  /\ user' = "up"
  /\ UNCHANGED <<cells, tasklet, queued, remove>>

\* Lines 82-85.  Bound: what is left of a write then fits in once more, if this was not
\* late already.
TriggerUp ==
  /\ user = "up"
  /\ scs' = [scs EXCEPT !.idle = FALSE]
  /\ tasklet' = [tasklet EXCEPT !.scheduled = TRUE]
  /\ scsPast' = [scsPast EXCEPT !.crossed = @ /\ remove = "kill"]
  /\ \/ user' = "open" /\ UNCHANGED queued
     \/ ~scsPast.late /\ user' = "write" /\ More
  /\ UNCHANGED <<cells, remove>>
TriggerDown ==
  /\ user = "open"
  /\ scs' = [scs EXCEPT !.stream = FALSE]
  /\ queued' = 0
  /\ UNCHANGED <<cells, tasklet, user, remove, scsPast>>

\* The rawmidi core calls .drain when its buffer is empty, then stops the substream.
Drain ==
  /\ user = "open" /\ queued = 0
  /\ user' = "drain"
  /\ UNCHANGED <<scs, cells, tasklet, queued, remove, scsPast>>
scs_output_drain ==
  /\ user = "drain" /\ scs.idle
  /\ scs' = [scs EXCEPT !.stream = FALSE]
  /\ \E u \in {"open", "closed"} : user' = u
  /\ UNCHANGED <<cells, tasklet, queued, remove, scsPast>>

scs_remove ==
  /\ remove = "no"
  /\ remove' = "idle"
  /\ scs' = [scs EXCEPT !.stream = FALSE]
  /\ UNCHANGED <<cells, tasklet, queued, user, scsPast>>
RemoveWaits ==
  /\ remove = "idle" /\ scs.idle
  /\ remove' = "kill"
  /\ UNCHANGED <<scs, cells, tasklet, queued, user, scsPast>>
RemoveKills ==
  /\ remove = "kill" /\ tasklet = [scheduled |-> FALSE, at |-> "off"]
  /\ remove' = "gone"
  /\ UNCHANGED <<scs, cells, tasklet, queued, user, scsPast>>

----------------------------------------------------------------------------
TaskletStep == TaskletStarts \/ TaskletByte \/ TaskletFindsNothing \/ TaskletIsIdle
UserStep ==
  \/ scs_output_open \/ Write \/ TriggerSets \/ TriggerUp \/ TriggerDown
  \/ Drain \/ scs_output_drain
ScsRemoveStep == scs_remove \/ RemoveWaits \/ RemoveKills

ScsNext ==
  \/ TaskletStep \/ scs_write_callback \/ UserStep \/ ScsRemoveStep

\* Tasklets run, the core answers every transaction, and a thread leaves the trigger
\* it is in and returns when its condition holds.
Fairness ==
  /\ WF_scsVars(TaskletStep) /\ WF_scsVars(scs_write_callback)
  /\ WF_scsVars(TriggerSets \/ TriggerUp)
  /\ WF_scsVars(scs_output_drain) /\ WF_scsVars(RemoveWaits \/ RemoveKills)

ScsSpec == ScsInit /\ [][ScsNext]_scsVars /\ Fairness

----------------------------------------------------------------------------
(* Properties *)

Data(s) == \A i \in DOMAIN s : s[i] < 128

\* A packet of user data that is one whole command: a running status is written out,
\* and a SysEx message is not one of those that escape something else.
IsCommand(p) ==
  /\ Len(p) > 1 /\ p[1] = TAG
  /\ \/ Len(p) = 2 /\ is_one_byte_cmd(p[2])
     \/ Len(p) = 3 /\ is_two_bytes_cmd(p[2]) /\ p[3] < 128
     \/ Len(p) = 4 /\ is_three_bytes_cmd(p[2]) /\ Data(<<p[3], p[4]>>)
     \/ /\ p[2] = 240 /\ Last(p) = 247 /\ Data(SubSeq(p, 3, Len(p) - 1))
        /\ ~IsPrefix(Prefix, Tail(p))

\* "no running status, one command per packet, unescaped SysExs" (scs1x.c:161-164):
\* what the buffer holds as long as a transaction sends it, from whatever bytes were
\* written and wherever the tasklet had to stop between them; no application can
\* change the address of the notifications.
OneCommandPerPacket ==
  scs.running =>
    IF scsPast.escaped THEN Len(cells) > 0 /\ Head(cells) # ADDR ELSE IsCommand(cells)

\* What comes back as it was: a command, but for the realtime bytes, which the tasklet
\* drops; 0xf9 and its three bytes; what is not MIDI.
ComesBack(d) ==
  IF d[1] = TAG THEN (IsCommand(d) /\ d[2] < 248) \/ (Len(d) = 5 /\ d[2] = 249)
  ELSE d[1] # ADDR

\* What the device sends, written back as the MIDI bytes an application gets, reaches
\* the device as the packet it was, whatever the output was in the middle of.
EscapeRoundTrip ==
  tasklet.at = "loop" =>
    \A d \in {d \in DevicePackets : ComesBack(d)} :
      LET in == scs_input_packet(0, d)
          p == OutputBytes([cells |-> cells, status |-> scs.status, escaped |-> scs.escaped,
                            high |-> scs.high, half |-> scs.half, send |-> FALSE], in.midi)
      IN in.count = 0 /\ p.send /\ p.cells = d

\* When a drain or the removal has waited for output_idle there is nothing left to
\* send and no transaction that will call back into the card (scs1x.c:232-237, 483-485);
\* not so when the tasklet set output_idle after a trigger had cleared it, nor for the
\* removal when a write that was under way set the output again after line 480: the
\* tasklet it schedules may start a transaction before it is killed.
WaitMeansSent ==
  [][/\ user = "drain" /\ user' # "drain" => ~scs.running \/ scsPast.crossed
     /\ remove # "gone" /\ remove' = "gone"
          => ~scs.running \/ scsPast.crossed \/ scsPast.late]_scsVars

\* A drain and the removal return: somebody is always left to set output_idle.
WaitsReturn ==
  /\ user = "drain" ~> user # "drain"
  /\ remove = "idle" ~> remove = "gone"
===============================================================================
