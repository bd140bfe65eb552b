-------------------------------- MODULE Isight --------------------------------
(***************************************************************************)
(* The driver of the Apple iSight microphone (sound/firewire/isight.c).    *)
(* One isochronous context whose callback copies samples to the PCM buffer *)
(* and fills in for lost packets by the sample count of the device; the    *)
(* thread of the capture substream starts and stops it under a mutex, and  *)
(* so do the bus-reset handler and the removal of the unit.                *)
(***************************************************************************)
EXTENDS Integers

CONSTANTS
  MaxFrames,    \* MAX_FRAMES_PER_PACKET
  PeriodSize, BufferSize,
  Total,        \* sample counts are 0 .. Total - 1 (2^32)
  QueueLength,  \* QUEUE_LENGTH
  MaxGap,       \* bound: samples lost between two packets
  MaxCounter    \* bound: of period_counter

ASSUME IsightAssumption ==
  /\ MaxFrames \in Nat \ {0} /\ QueueLength \in Nat \ {0}
  /\ PeriodSize \in Nat /\ MaxFrames <= PeriodSize      \* period_bytes_min
  /\ BufferSize \in Nat /\ 2 * PeriodSize <= BufferSize \* periods_min
  /\ Total \in Nat /\ BufferSize < Total /\ MaxGap \in Nat /\ MaxGap < Total
  /\ MaxCounter \in Nat

VARIABLES
  isight,   \* context, resources.allocated, resources.generation is the bus's, and
            \* the fields of struct isight that the callback uses
  pcm,      \* state of the substream
  pc,       \* where the callback, the thread, the bus-reset handler and remove are
  packet,   \* sample_count and sample_total of the packet in the callback
  device,   \* its count, samples lost since the last good packet, unit still there
  due,      \* .update of the unit has to run
  past      \* history

vars == <<isight, pcm, pc, packet, device, due, past>>

Counts == 0 .. Total - 1

TypeOK ==
  /\ isight \in [context : BOOLEAN, allocated : BOOLEAN, current : BOOLEAN,
                 active : BOOLEAN, running : BOOLEAN, first : BOOLEAN,
                 index : -1 .. QueueLength - 1, total : Counts,
                 pointer : 0 .. BufferSize - 1, counter : Nat]
  /\ pcm \in {"closed", "open", "setup", "prepared", "running"}
  /\ pc \in [callback : {"idle", "fill", "check", "copy", "queue", "failed"},
             user : {"idle", "lock", "connect", "config", "enable", "free"},
             update : {"idle", "abort", "lock"},
             remove : {"idle", "abort", "disconnect", "lock", "done"}]
  /\ packet \in [count : 0 .. MaxFrames, total : Counts]
  /\ device \in [total : Counts, gap : 0 .. MaxGap, heard : BOOLEAN, there : BOOLEAN]
  /\ due \in BOOLEAN
  /\ past \in [want : 0 .. BufferSize - 1, early : BOOLEAN,
               crossed : BOOLEAN, equal : BOOLEAN, torn : BOOLEAN]

NoPacket == [count |-> 0, total |-> 0]

Init ==
  /\ isight = [context |-> FALSE, allocated |-> FALSE, current |-> FALSE,
               active |-> FALSE, running |-> FALSE, first |-> FALSE, index |-> 0,
               total |-> 0, pointer |-> 0, counter |-> 0]
  /\ pcm = "closed"
  /\ pc = [callback |-> "idle", user |-> "idle", update |-> "idle", remove |-> "idle"]
  /\ packet = NoPacket
  /\ device = [total |-> 0, gap |-> 0, heard |-> FALSE, there |-> TRUE]
  /\ due = FALSE
  /\ past = [want |-> 0, early |-> FALSE, crossed |-> FALSE,
             equal |-> FALSE, torn |-> FALSE]

Goto(t, l) == pc' = [pc EXCEPT ![t] = l]

\* snd_pcm_stop_xrun() calls the trigger of a substream that runs, and does nothing
\* to one that is only prepared.
isight_pcm_abort(next) ==
  IF isight.active /\ pcm = "running"
  THEN /\ pcm' = "setup"
       /\ isight' = [next EXCEPT !.running = FALSE]
       /\ UNCHANGED past
  ELSE /\ UNCHANGED pcm
       /\ isight' = next
       /\ past' = [past EXCEPT !.early = @ \/ pcm = "prepared"]

----------------------------------------------------------------------------
(* The callback of the context *)

\* isight_update_pointers(): the counter steps back by one period only.
Advanced(count) ==
  LET p == isight.pointer + count
      c == isight.counter + count
  IN [isight EXCEPT !.pointer = IF p >= BufferSize THEN p - BufferSize ELSE p,
                    !.counter = IF c >= PeriodSize THEN c - PeriodSize ELSE c]

Ready == isight.context /\ pc["callback"] = "idle"

\* A packet, or more than one, gets lost.
Lose ==
  /\ Ready /\ isight.index >= 0
  /\ \E n \in 1 .. MaxFrames :
       /\ device.gap + n <= MaxGap
       /\ device' = [device EXCEPT !.total = (@ + n) % Total,
                                   !.gap = IF device.heard THEN @ + n ELSE 0]
  /\ UNCHANGED <<isight, pcm, pc, packet, due, past>>

\* isight_packet(), lines 176-196: a good packet, and whether samples before it were
\* dropped.  The pointer should move by what the device has sent since the packet
\* before, if a substream runs.
Packet ==
  /\ Ready /\ isight.index >= 0 /\ isight.counter <= MaxCounter
  /\ \E n \in 0 .. MaxFrames :
       /\ packet' = [count |-> n, total |-> device.total]
       /\ device' = [device EXCEPT !.total = (@ + n) % Total, !.gap = 0, !.heard = TRUE]
  /\ past' = [past EXCEPT
       !.want = IF isight.running THEN (@ + device.gap) % BufferSize ELSE @,
       !.equal = @ \/ (isight.first /\ device.total = isight.total)]
  /\ Goto("callback", IF isight.running /\ device.total # isight.total /\ ~isight.first
                      THEN "fill" ELSE "check")
  /\ isight' = IF device.total = isight.total \/ pc'["callback"] = "fill" THEN isight
               ELSE [isight EXCEPT !.first = FALSE, !.total = device.total]
  /\ UNCHANGED <<pcm, due>>

\* One that is too short or not the iSight's is put back.
PacketIsBad ==
  /\ Ready /\ isight.index >= 0
  /\ Goto("callback", "queue")
  /\ UNCHANGED <<isight, pcm, packet, device, due, past>>

\* Mutant: what a signed difference of the counts comes to.
DroppedSigned == IF packet.total < isight.total THEN 0 ELSE packet.total - isight.total

\* isight_dropped_samples(): u32 arithmetic
Dropped == (packet.total - isight.total) % Total

Fill ==
  /\ pc["callback"] = "fill"
  /\ IF Dropped < BufferSize
     THEN /\ isight' = [Advanced(Dropped) EXCEPT !.total = packet.total]
          /\ UNCHANGED <<pcm, past>>
     ELSE isight_pcm_abort([isight EXCEPT !.total = packet.total])
  /\ Goto("callback", "check")
  /\ UNCHANGED <<packet, device, due>>

\* isight_samples(): pcm_running is looked at once.
Check ==
  /\ pc["callback"] = "check"
  /\ Goto("callback", IF isight.running THEN "copy" ELSE "queue")
  /\ isight' = IF isight.running THEN isight
               ELSE [isight EXCEPT !.total = (@ + packet.count) % Total]
  /\ past' = IF isight.running THEN [past EXCEPT !.want = (@ + packet.count) % BufferSize]
             ELSE past
  /\ UNCHANGED <<pcm, packet, device, due>>
Copy ==
  /\ pc["callback"] = "copy"
  /\ isight' = [Advanced(packet.count) EXCEPT !.total = (@ + packet.count) % Total]
  /\ Goto("callback", "queue")
  /\ UNCHANGED <<pcm, packet, device, due, past>>

\* Mutant: the substream is not told.
QueueSilently ==
  /\ pc["callback"] = "queue"
  /\ \/ isight' = [isight EXCEPT !.index = (@ + 1) % QueueLength] /\ Goto("callback", "idle")
     \/ UNCHANGED isight /\ Goto("callback", "failed")
  /\ packet' = NoPacket
  /\ UNCHANGED <<pcm, device, due, past>>

\* Lines 200-213; after an error the substream is stopped first.
Queue ==
  /\ pc["callback"] = "queue"
  /\ \/ /\ isight' = [isight EXCEPT !.index = (@ + 1) % QueueLength]
        /\ Goto("callback", "idle")
        /\ UNCHANGED <<pcm, past>>
     \/ isight_pcm_abort(isight) /\ Goto("callback", "failed")
  /\ packet' = NoPacket
  /\ UNCHANGED <<device, due>>
QueueFailed ==
  /\ pc["callback"] = "failed"
  /\ isight' = [isight EXCEPT !.index = -1]
  /\ Goto("callback", "idle")
  /\ UNCHANGED <<pcm, packet, device, due, past>>

----------------------------------------------------------------------------
(* The substream *)

UserFree == pc["user"] = "idle" /\ pc["remove"] \in {"idle", "abort", "disconnect"}

\* isight->mutex
Locked == pc["user"] \in {"connect", "config", "enable"}

Open ==
  /\ UserFree /\ pcm = "closed" /\ pc["remove"] = "idle"
  /\ pcm' = "open"
  /\ UNCHANGED <<isight, pc, packet, device, due, past>>
HwParams ==
  /\ UserFree /\ pcm \in {"open", "setup", "prepared"}
  /\ pcm' = "setup"
  /\ isight' = [isight EXCEPT !.active = TRUE]
  /\ UNCHANGED <<pc, packet, device, due, past>>
TriggerStart ==
  /\ UserFree /\ pcm = "prepared"
  /\ pcm' = "running"
  /\ isight' = [isight EXCEPT !.running = TRUE]
  /\ UNCHANGED <<pc, packet, device, due, past>>
TriggerStop ==
  /\ UserFree /\ pcm = "running"
  /\ pcm' = "setup"
  /\ isight' = [isight EXCEPT !.running = FALSE]
  /\ UNCHANGED <<pc, packet, device, due, past>>

\* isight_stop_streaming(): the context waits for its callback before it is gone.
Stopped(s) ==
  IF s.context THEN [s EXCEPT !.context = FALSE, !.allocated = FALSE] ELSE s
MayStop == isight.context => pc["callback"] = "idle"

\* isight_hw_free() after snd_pcm_stop(), isight_close()
HwFree ==
  /\ pc["user"] = "idle" /\ pcm \in {"setup", "prepared"}
  /\ isight' = [isight EXCEPT !.active = FALSE]
  /\ Goto("user", "free")
  /\ UNCHANGED <<pcm, packet, device, due, past>>
HwFreeStops ==
  /\ pc["user"] = "free" /\ MayStop
  /\ isight' = Stopped(isight)
  /\ pcm' = "open"
  /\ Goto("user", "idle")
  /\ UNCHANGED <<packet, device, due, past>>
Close ==
  /\ pc["user"] = "idle" /\ pcm = "open"
  /\ pcm' = "closed"
  /\ UNCHANGED <<isight, pc, packet, device, due, past>>

\* isight_prepare(): what the callback may be about to add to comes first.
Prepare ==
  /\ UserFree /\ pcm \in {"setup", "prepared"}
  /\ isight' = [isight EXCEPT !.pointer = 0, !.counter = 0]
  /\ past' = [past EXCEPT !.want = 0, !.torn = pc["callback"] \in {"fill", "copy"},
                          !.equal = @ /\ isight.first]
  /\ Goto("user", "lock")
  /\ UNCHANGED <<pcm, packet, device, due>>

\* Somebody has told the substream of an end of the stream that is still to come.
EndIsTold ==
  pc["callback"] = "failed" \/ pc["update"] = "lock" \/ pc["remove"] \in {"disconnect", "lock"}
Prepared ==
  /\ pcm' = "prepared"
  /\ past' = [past EXCEPT !.early = FALSE, !.crossed = EndIsTold]
  /\ Goto("user", "idle")
NotPrepared ==
  /\ pcm' = "setup"
  /\ Goto("user", "idle")
  /\ UNCHANGED past

\* isight_start_streaming(), lines 352-361
StreamingIsOn ==
  /\ pc["user"] = "lock" /\ isight.context /\ isight.index >= 0
  /\ Prepared
  /\ UNCHANGED <<isight, packet, device, due>>
StartStreaming ==
  /\ pc["user"] = "lock" /\ MayStop /\ ~(isight.context /\ isight.index >= 0)
  /\ isight' = Stopped(isight)
  /\ \/ device.there /\ Goto("user", "connect") /\ UNCHANGED <<pcm, past>>
     \/ NotPrepared
  /\ UNCHANGED <<packet, device, due>>

\* isight_connect()
ConnectAllocates ==
  /\ pc["user"] = "connect"
  /\ \/ /\ isight' = [isight EXCEPT !.allocated = TRUE, !.current = TRUE]
        /\ Goto("user", "config")
        /\ UNCHANGED <<pcm, past>>
     \/ UNCHANGED isight /\ NotPrepared
  /\ UNCHANGED <<packet, device, due>>
ConnectWrites ==
  /\ pc["user"] = "config"
  /\ \/ /\ isight.current /\ device.there
        /\ Goto("user", "enable")
        /\ UNCHANGED <<isight, pcm, past>>
     \/ /\ ~isight.current                    \* -EAGAIN
        /\ isight' = [isight EXCEPT !.allocated = FALSE]
        /\ Goto("user", "connect")
        /\ UNCHANGED <<pcm, past>>
     \/ /\ isight' = [isight EXCEPT !.allocated = FALSE]
        /\ NotPrepared
  /\ UNCHANGED <<packet, device, due>>

\* Lines 367-396: the device counts from any number.
StartContext ==
  /\ pc["user"] = "enable" /\ device.there
  /\ isight' = [isight EXCEPT !.context = TRUE, !.first = TRUE, !.index = 0]
  /\ \E n \in Counts :
       device' = [device EXCEPT !.total = n, !.gap = 0, !.heard = FALSE]
  /\ Prepared
  /\ UNCHANGED <<packet, due>>

\* Mutant: the resources are kept.
StartContextLeaks ==
  /\ pc["user"] = "enable"
  /\ NotPrepared
  /\ UNCHANGED <<isight, packet, device, due>>

\* Lines 400-407
StartContextFails ==
  /\ pc["user"] = "enable"
  /\ isight' = [isight EXCEPT !.allocated = FALSE]
  /\ NotPrepared
  /\ UNCHANGED <<packet, device, due>>

----------------------------------------------------------------------------
(* The bus, isight_bus_reset() and isight_remove() *)

BusReset ==
  /\ device.there
  /\ isight' = [isight EXCEPT !.current = FALSE]
  /\ due' = TRUE
  /\ UNCHANGED <<pcm, pc, packet, device, past>>

\* fw_iso_resources_update() has a mutex of its own.
Update ==
  /\ due /\ pc["update"] = "idle" /\ pc["remove"] = "idle"
  /\ due' = FALSE
  /\ \/ /\ isight' = [isight EXCEPT !.current = isight.allocated \/ @]
        /\ UNCHANGED pc
     \/ /\ isight.allocated
        /\ isight' = [isight EXCEPT !.allocated = FALSE]
        /\ Goto("update", "abort")
  /\ UNCHANGED <<pcm, packet, device, past>>

StopOf(t, next) ==
  /\ pc[t] = "lock" /\ ~Locked /\ MayStop
  /\ isight' = Stopped(isight)
  /\ Goto(t, next)
  /\ UNCHANGED <<pcm, packet, device, due, past>>
AbortOf(t, next) ==
  /\ pc[t] = "abort"
  /\ isight_pcm_abort(isight)
  /\ Goto(t, next)
  /\ UNCHANGED <<packet, device, due>>

Removed ==
  /\ pc["remove"] = "idle" /\ pc["update"] = "idle"
  /\ device' = [device EXCEPT !.there = FALSE]
  /\ Goto("remove", "abort")
  /\ UNCHANGED <<isight, pcm, packet, due, past>>

\* snd_card_disconnect(): what was open can only be closed.
Disconnect ==
  /\ pc["remove"] = "disconnect"
  /\ pcm' = IF pcm \in {"prepared", "running"} THEN "setup" ELSE pcm
  /\ Goto("remove", "lock")
  /\ UNCHANGED <<isight, packet, device, due, past>>

----------------------------------------------------------------------------
CallbackStep ==
  Packet \/ PacketIsBad \/ Fill \/ Check \/ Copy \/ Queue \/ QueueFailed
PcmStep ==
  \/ Open \/ HwParams \/ Prepare \/ TriggerStart \/ TriggerStop \/ HwFree \/ Close
StreamingStep ==
  \/ HwFreeStops \/ StreamingIsOn \/ StartStreaming
  \/ ConnectAllocates \/ ConnectWrites \/ StartContext \/ StartContextFails
UpdateStep == Update \/ AbortOf("update", "lock") \/ StopOf("update", "idle")
RemoveStep == Removed \/ AbortOf("remove", "disconnect") \/ Disconnect \/ StopOf("remove", "done")

Next ==
  \/ Lose \/ CallbackStep \/ PcmStep \/ StreamingStep
  \/ BusReset \/ UpdateStep \/ RemoveStep

Spec == Init /\ [][Next]_vars

----------------------------------------------------------------------------
(* Properties *)

\* A substream that records stays in step with the device: the pointer has moved by
\* all the samples sent since it was prepared, the lost ones included, when no packet
\* is in the callback.  Two exceptions: a stream whose first count equals the last
\* one of an earlier stream, so that its first loss is taken for its start
\* (isight.c:189-194), and a substream prepared in the middle of a packet (414-415).
PointerInStep ==
  pcm = "running" /\ pc["callback"] = "idle"
    => isight.pointer = past.want \/ past.equal \/ past.torn

\* A substream that records has a stream that gives it samples.  It is told when that
\* ends (isight.c:205, 689, 701), but not if it was only prepared then, or if it was
\* prepared anew between being told and the end.
RunningHasStream ==
  pcm = "running"
    => (isight.context /\ isight.index >= 0) \/ past.early \/ past.crossed

\* When the substream is not set up, or the unit is gone, there is neither a context
\* nor a channel of the bus that is kept.
FreedIsQuiet ==
  pcm \in {"closed", "open"} \/ (pc["remove"] = "done" /\ pc["user"] = "idle")
    => ~isight.context /\ ~isight.allocated
===============================================================================
