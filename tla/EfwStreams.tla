------------------------------ MODULE EfwStreams ------------------------------
(***************************************************************************)
(* The two AMDTP streams of a Fireworks unit: when they are started and    *)
(* stopped (sound/firewire/fireworks/fireworks_stream.c), by the callbacks *)
(* of the PCM and MIDI devices (fireworks_pcm.c, fireworks_midi.c) and by  *)
(* the bus-reset handler, and what the isochronous callbacks do meanwhile  *)
(* (amdtp_stream_start, amdtp_stream_stop and the callbacks of amdtp.c).   *)
(*                                                                         *)
(* The driver only knows the synchronisation mode CIP_SYNC_TO_DEVICE: "tx",*)
(* the stream from the device, is always the master, and its callback      *)
(* queues the packets of the slave "rx", the stream to the device, too.    *)
(*                                                                         *)
(* start_duplex(), stop_duplex() and the failure path of update_duplex()   *)
(* run under efw->mutex; the isochronous callbacks, the PCM triggers and   *)
(* cmp_connection_update() do not.  What the holder of the mutex has still *)
(* to do is the sequence `todo' of <<step, stream>>, to which a decision   *)
(* in the code prepends the calls it makes.                                *)
(***************************************************************************)
EXTENDS Naturals, Sequences

CONSTANTS
  MidiPorts,   \* directions with a MIDI port
  MaxCount,    \* bound: what a substream counter may reach
  MaxErrors,   \* bound: queueing errors and lost packets
  MaxResets    \* bound: calls of the .update handler

Streams == {"tx", "rx"}

ASSUME EfwStreamsAssumption ==
  /\ MidiPorts \subseteq Streams
  /\ MaxCount \in Nat /\ MaxErrors \in Nat /\ MaxResets \in Nat

VARIABLES
  ctx,         \* s->context: "none", "created" or "started"
  dead,        \* s->packet_index < 0
  callbacked,  \* s->callbacked
  pcm,         \* s->pcm is not NULL
  conn,        \* efw->out_conn and efw->in_conn: connected
  substreams,  \* efw->capture_substreams and efw->playback_substreams
  holder,      \* who holds efw->mutex
  todo,        \* what it has still to do
  failed,      \* it is going to return an error
  want,        \* the operation each thread is in
  alsa,        \* the state of each PCM substream
  midi,        \* the MIDI substreams that are open
  cb,          \* where the master's callback is
  missed,      \* history: an abort found no PCM running
  errors,      \* queueing errors and lost packets so far
  resets       \* calls of the .update handler so far

streamVars == <<ctx, dead, callbacked>>
lockVars == <<holder, todo, failed>>
userVars == <<alsa, midi, substreams>>
pcmVars == <<pcm, missed>>
boundVars == <<errors, resets>>
vars == <<streamVars, pcmVars, conn, lockVars, want, userVars, cb, boundVars>>

\* A PCM and a MIDI device for each direction, and the .update handler
Pcm(s) == <<"pcm", s>>
Midi(s) == <<"midi", s>>
Upd == <<"update", "both">>
Threads == ({"pcm", "midi"} \X Streams) \cup {Upd}
Nobody == <<"nobody", "both">>

Running(s) == ctx[s] # "none"

TypeOK ==
  /\ ctx \in [Streams -> {"none", "created", "started"}]
  /\ dead \in [Streams -> BOOLEAN] /\ callbacked \in [Streams -> BOOLEAN]
  /\ pcm \in [Streams -> BOOLEAN] /\ conn \in [Streams -> BOOLEAN]
  /\ substreams \in [Streams -> 0 .. MaxCount]
  /\ holder \in Threads \cup {Nobody}
  /\ todo # <<>> => holder # Nobody
  /\ failed \in BOOLEAN
  /\ want \in [Threads -> {"none", "start", "stop", "update", "giveup"}]
  /\ alsa \in [Streams -> {"open", "setup", "prepared", "running", "xrun"}]
  /\ \A s \in Streams : pcm[s] <=> alsa[s] = "running"
  /\ midi \subseteq MidiPorts
  /\ cb \in {"idle", "slaveAbort", "masterAbort", "slaveError", "slaveErrorAbort"}
  /\ missed \in [Streams -> BOOLEAN]
  /\ errors \in 0 .. MaxErrors /\ resets \in 0 .. MaxResets

\* snd_efw_stream_init_duplex(), lines 162-196
Init ==
  /\ ctx = [s \in Streams |-> "none"]
  /\ dead = [s \in Streams |-> FALSE]
  /\ callbacked = [s \in Streams |-> FALSE]
  /\ pcm = [s \in Streams |-> FALSE] /\ missed = [s \in Streams |-> FALSE]
  /\ conn = [s \in Streams |-> FALSE]
  /\ substreams = [s \in Streams |-> 0]
  /\ holder = Nobody /\ todo = <<>> /\ failed = FALSE
  /\ want = [t \in Threads |-> "none"]
  /\ alsa = [s \in Streams |-> "open"] /\ midi = {}
  /\ cb = "idle"
  /\ errors = 0 /\ resets = 0

----------------------------------------------------------------------------
(* Calls, as sequences of steps *)

\* amdtp_stream_pcm_abort(), amdtp_stream_stop() and cmp_connection_break()
StopStream(s) == <<<<"abort", s>>, <<"destroy", s>>, <<"break", s>>>>

\* Lines 79-98; amdtp_stream_start() is the steps "queue" and "go".
StartStream(s) == <<<<"establish", s>>, <<"queue", s>>, <<"go", s>>, <<"wait", s>>>>

StartDuplex == <<<<"enter", "both">>, <<"errors", "rx">>, <<"errors", "tx">>,
                 <<"rate", "both">>, <<"master", "tx">>, <<"slave", "rx">>>>

At(step, s) == holder # Nobody /\ todo # <<>> /\ Head(todo) = <<step, s>>

Continue(calls) == todo' = calls \o Tail(todo) /\ UNCHANGED <<holder, failed>>

\* goto end
Fail(undo) == todo' = undo /\ failed' = TRUE /\ UNCHANGED holder

\* Lines 273-274: when the slave does not start the master is stopped.
FailStart(s, undo) == Fail(undo \o IF s = "rx" THEN StopStream("tx") ELSE <<>>)

\* snd_pcm_stop_xrun() of a running PCM also calls its trigger callback.
PcmAbort(s) ==
  /\ pcm' = [pcm EXCEPT ![s] = FALSE]
  /\ alsa' = IF pcm[s] THEN [alsa EXCEPT ![s] = "xrun"] ELSE alsa
  /\ missed' = [missed EXCEPT ![s] = @ \/ ~pcm[s]]

----------------------------------------------------------------------------
(* snd_efw_stream_start_duplex(), lines 198-280 *)

\* Lines 208-232: nothing to do, or a command fails, or the plug is in use.
Enter ==
  /\ At("enter", "both")
  /\ IF \A s \in Streams : substreams[s] = 0
       THEN todo' = <<>> /\ UNCHANGED <<holder, failed>>
       ELSE Continue(<<>>) \/ Fail(<<>>)
  /\ UNCHANGED <<streamVars, pcmVars, conn, want, userVars, cb, boundVars>>

\* Lines 234-238
StopDead(s) ==
  /\ At("errors", s)
  /\ Continue(IF dead[s] THEN StopStream(s) ELSE <<>>)
  /\ UNCHANGED <<streamVars, pcmVars, conn, want, userVars, cb, boundVars>>

\* Lines 240-249: only a PCM device asks for a rate of its own.
CheckRate ==
  /\ At("rate", "both")
  /\ \/ Continue(<<>>)
     \/ Fail(<<>>)
     \/ holder[1] = "pcm" /\ Continue(StopStream("rx") \o StopStream("tx"))
  /\ UNCHANGED <<streamVars, pcmVars, conn, want, userVars, cb, boundVars>>

\* Lines 251-266
StartMaster ==
  /\ At("master", "tx")
  /\ IF Running("tx") THEN Continue(<<>>)
     ELSE Continue(StartStream("tx")) \/ Fail(<<>>)
  /\ UNCHANGED <<streamVars, pcmVars, conn, want, userVars, cb, boundVars>>

\* Mutant: the counter of the wrong stream (219 for 223).
StartSlaveOther ==
  /\ At("slave", "rx")
  /\ Continue(IF substreams["tx"] > 0 /\ ~Running("rx")
              THEN StartStream("rx") ELSE <<>>)
  /\ UNCHANGED <<streamVars, pcmVars, conn, want, userVars, cb, boundVars>>

\* Lines 268-271
StartSlave ==
  /\ At("slave", "rx")
  /\ Continue(IF substreams["rx"] > 0 /\ ~Running("rx")
              THEN StartStream("rx") ELSE <<>>)
  /\ UNCHANGED <<streamVars, pcmVars, conn, want, userVars, cb, boundVars>>

\* start_stream(), lines 80-83; establish fails when the connection is up.
Connect(s) ==
  /\ At("establish", s)
  /\ \/ ~conn[s] /\ conn' = [conn EXCEPT ![s] = TRUE] /\ Continue(<<>>)
     \/ FailStart(s, <<>>) /\ UNCHANGED conn
  /\ UNCHANGED <<streamVars, pcmVars, want, userVars, cb, boundVars>>

\* s->packet_index becomes 0.
Revive(s) ==
  /\ dead' = [dead EXCEPT ![s] = FALSE]
  /\ missed' = [missed EXCEPT ![s] = FALSE]

\* Mutant: start_stream() returns at once, and leaves the connection up.
QueueLeaky(s) ==
  /\ At("queue", s)
  /\ \/ /\ ctx' = [ctx EXCEPT ![s] = "created"]
        /\ Revive(s)
        /\ Continue(<<>>)
     \/ FailStart(s, <<>>) /\ UNCHANGED <<ctx, dead, missed>>
  /\ UNCHANGED <<callbacked, pcm, conn, want, userVars, cb, boundVars>>

\* amdtp.c:957-983: the buffer, the context and the first packets; when it
\* fails there is no context, and start_stream() calls stop_stream() (90).
Queue(s) ==
  /\ At("queue", s)
  /\ \/ /\ ctx' = [ctx EXCEPT ![s] = "created"]
        /\ Revive(s)
        /\ Continue(<<>>)
     \/ FailStart(s, StopStream(s)) /\ UNCHANGED <<ctx, dead, missed>>
  /\ UNCHANGED <<callbacked, pcm, conn, want, userVars, cb, boundVars>>

\* amdtp.c:990-993.  An error of the master that comes in between may have
\* been overwritten by the loop of lines 976-983.
Go(s) ==
  /\ At("go", s)
  /\ \/ /\ ctx' = [ctx EXCEPT ![s] = "started"]
        /\ callbacked' = [callbacked EXCEPT ![s] = FALSE]
        /\ Continue(<<>>)
        /\ Revive(s) \/ UNCHANGED <<dead, missed>>
     \/ /\ ctx' = [ctx EXCEPT ![s] = "none"]
        /\ callbacked' = [callbacked EXCEPT ![s] = FALSE]
        /\ FailStart(s, StopStream(s))
        /\ UNCHANGED <<dead, missed>>
  /\ UNCHANGED <<pcm, conn, want, userVars, cb, boundVars>>

\* Lines 94-98: the first callback has come, or CALLBACK_TIMEOUT went by.
WaitCallback(s) ==
  /\ At("wait", s)
  /\ IF callbacked[s] THEN Continue(<<>>) ELSE FailStart(s, StopStream(s))
  /\ UNCHANGED <<streamVars, pcmVars, conn, want, userVars, cb, boundVars>>

----------------------------------------------------------------------------
(* stop_stream(), lines 43-53 *)

\* Line 46
Abort(s) ==
  /\ At("abort", s)
  /\ PcmAbort(s)
  /\ Continue(<<>>)
  /\ UNCHANGED <<streamVars, conn, want, midi, substreams, cb, boundVars>>

\* amdtp.c:1051-1060: stopping a context waits for its callback, which for the
\* slave is not the one that queues its packets.
Destroy(s) ==
  /\ At("destroy", s)
  /\ s = "tx" => cb = "idle"
  /\ ctx' = [ctx EXCEPT ![s] = "none"]
  /\ Continue(IF Running(s) THEN <<<<"clear", s>>>> ELSE <<>>)
  /\ UNCHANGED <<dead, callbacked, pcmVars, conn, want, userVars, cb, boundVars>>

\* amdtp.c:1062
Clear(s) ==
  /\ At("clear", s)
  /\ callbacked' = [callbacked EXCEPT ![s] = FALSE]
  /\ Continue(<<>>)
  /\ UNCHANGED <<ctx, dead, pcmVars, conn, want, userVars, cb, boundVars>>

\* Lines 49-52
Break(s) ==
  /\ At("break", s)
  /\ conn' = [conn EXCEPT ![s] = FALSE]
  /\ Continue(<<>>)
  /\ UNCHANGED <<streamVars, pcmVars, want, userVars, cb, boundVars>>

----------------------------------------------------------------------------
(* snd_efw_stream_stop_duplex(), lines 299-308 *)

\* Mutant: the master goes on when the last substream of the slave is gone.
StopSlaveOnly ==
  /\ At("stop", "rx")
  /\ Continue(IF substreams["rx"] = 0 THEN StopStream("rx")
              ELSE <<<<"stop", "tx">>>>)
  /\ UNCHANGED <<streamVars, pcmVars, conn, want, userVars, cb, boundVars>>

\* Lines 301-306: the master only stops after the slave.
StopSlave ==
  /\ At("stop", "rx")
  /\ Continue(IF substreams["rx"] = 0
              THEN StopStream("rx") \o <<<<"stop", "tx">>>> ELSE <<>>)
  /\ UNCHANGED <<streamVars, pcmVars, conn, want, userVars, cb, boundVars>>

StopMaster ==
  /\ At("stop", "tx")
  /\ Continue(IF substreams["tx"] = 0 THEN StopStream("tx") ELSE <<>>)
  /\ UNCHANGED <<streamVars, pcmVars, conn, want, userVars, cb, boundVars>>

----------------------------------------------------------------------------
(* efw->mutex *)

\* Mutant: the update handler stops the capture stream alone.
TakeGiveUpHalf(t) ==
  /\ holder = Nobody /\ want[t] \in {"start", "stop", "giveup"}
  /\ holder' = t /\ failed' = FALSE
  /\ todo' = CASE want[t] = "start"  -> StartDuplex
               [] want[t] = "stop"   -> <<<<"stop", "rx">>>>
               [] want[t] = "giveup" -> StopStream("tx")
  /\ UNCHANGED <<streamVars, pcmVars, conn, want, userVars, cb, boundVars>>

\* Lines 206, 299 and 315
Take(t) ==
  /\ holder = Nobody /\ want[t] \in {"start", "stop", "giveup"}
  /\ holder' = t /\ failed' = FALSE
  /\ todo' = CASE want[t] = "start"  -> StartDuplex
               [] want[t] = "stop"   -> <<<<"stop", "rx">>>>
               [] want[t] = "giveup" -> StopStream("rx") \o StopStream("tx")
  /\ UNCHANGED <<streamVars, pcmVars, conn, want, userVars, cb, boundVars>>

\* Lines 278, 308 and 318, and what the caller does next: a PCM becomes
\* prepared, or free; a MIDI substream open, or free.
Release ==
  /\ holder # Nobody /\ todo = <<>>
  /\ holder' = Nobody
  /\ want' = [want EXCEPT ![holder] = "none"]
  /\ LET s == holder[2] IN
       /\ alsa' = CASE holder[1] = "pcm" /\ want[holder] = "start" /\ ~failed
                         -> [alsa EXCEPT ![s] = "prepared"]
                    [] holder[1] = "pcm" /\ want[holder] = "stop"
                         -> [alsa EXCEPT ![s] = "open"]
                    [] OTHER -> alsa
       /\ midi' = IF holder[1] = "midi" /\ want[holder] = "start" /\ ~failed
                  THEN midi \cup {s} ELSE midi
  /\ UNCHANGED <<streamVars, pcmVars, conn, todo, failed, substreams, cb, boundVars>>

----------------------------------------------------------------------------
(* The ALSA callbacks, fireworks_pcm.c:243-349 and fireworks_midi.c:11-66 *)

Call(t, op) ==
  /\ want[t] = "none"
  /\ want' = [want EXCEPT ![t] = op]

Count(s, n) == substreams' = [substreams EXCEPT ![s] = n]

\* pcm_*_hw_params()
PcmHwParams(s) ==
  /\ want[Pcm(s)] = "none"
  /\ alsa[s] = "open" /\ substreams[s] < MaxCount
  /\ alsa' = [alsa EXCEPT ![s] = "setup"]
  /\ Count(s, substreams[s] + 1)
  /\ UNCHANGED <<streamVars, pcmVars, conn, lockVars, want, midi, cb, boundVars>>

\* pcm_*_prepare()
PcmPrepare(s) ==
  /\ alsa[s] \in {"setup", "prepared", "xrun"}
  /\ Call(Pcm(s), "start")
  /\ UNCHANGED <<streamVars, pcmVars, conn, lockVars, userVars, cb, boundVars>>

\* pcm_*_hw_free()
PcmHwFree(s) ==
  /\ alsa[s] \in {"setup", "prepared"}
  /\ Call(Pcm(s), "stop")
  /\ Count(s, substreams[s] - 1)
  /\ UNCHANGED <<streamVars, pcmVars, conn, lockVars, alsa, midi, cb, boundVars>>

\* pcm_*_trigger(), SNDRV_PCM_TRIGGER_START
PcmStart(s) ==
  /\ alsa[s] = "prepared" /\ want[Pcm(s)] = "none"
  /\ alsa' = [alsa EXCEPT ![s] = "running"]
  /\ pcm' = [pcm EXCEPT ![s] = TRUE]
  /\ UNCHANGED <<streamVars, missed, conn, lockVars, want, midi, substreams, cb, boundVars>>

\* snd_pcm_drop(), with SNDRV_PCM_TRIGGER_STOP for a running PCM
PcmDrop(s) ==
  /\ alsa[s] \in {"running", "xrun"} /\ want[Pcm(s)] = "none"
  /\ alsa' = [alsa EXCEPT ![s] = "setup"]
  /\ pcm' = [pcm EXCEPT ![s] = FALSE]
  /\ UNCHANGED <<streamVars, missed, conn, lockVars, want, midi, substreams, cb, boundVars>>

\* midi_*_open(): when start_duplex() fails the counter is not decremented.
MidiOpen(s) ==
  /\ s \in MidiPorts \ midi /\ substreams[s] < MaxCount
  /\ Call(Midi(s), "start")
  /\ Count(s, substreams[s] + 1)
  /\ UNCHANGED <<streamVars, pcmVars, conn, lockVars, alsa, midi, cb, boundVars>>

\* midi_*_close()
MidiClose(s) ==
  /\ s \in midi
  /\ Call(Midi(s), "stop")
  /\ midi' = midi \ {s}
  /\ Count(s, substreams[s] - 1)
  /\ UNCHANGED <<streamVars, pcmVars, conn, lockVars, alsa, cb, boundVars>>

----------------------------------------------------------------------------
(* snd_efw_stream_update_duplex(), lines 311-323, without efw->mutex *)

\* cmp_connection_update() gives up a connection, or not.
Lose(s, next) ==
  \/ want' = [want EXCEPT ![Upd] = next] /\ UNCHANGED conn
  \/ /\ conn[s]
     /\ conn' = [conn EXCEPT ![s] = FALSE]
     /\ want' = [want EXCEPT ![Upd] = "giveup"]

UpdateOut ==
  /\ want[Upd] = "none" /\ resets < MaxResets
  /\ resets' = resets + 1
  /\ Lose("tx", "update")
  /\ UNCHANGED <<streamVars, pcmVars, lockVars, userVars, cb, errors>>

UpdateIn ==
  /\ want[Upd] = "update"
  /\ Lose("rx", "none")
  /\ UNCHANGED <<streamVars, pcmVars, lockVars, userVars, cb, boundVars>>

----------------------------------------------------------------------------
(* The isochronous callbacks, amdtp.c:647-892 *)

\* amdtp_stream_first_callback(), lines 877-882
FirstCallback(s) ==
  /\ ctx[s] = "started" /\ ~callbacked[s]
  /\ callbacked' = [callbacked EXCEPT ![s] = TRUE]
  /\ UNCHANGED <<ctx, dead, pcmVars, conn, lockVars, want, userVars, cb, boundVars>>

InCallback == ctx["tx"] = "started" /\ callbacked["tx"] /\ cb = "idle"

\* handle_out_packet(), lines 681-682, called from the master's callback when
\* line 834 finds the slave ready.
SlaveQueueError ==
  /\ InCallback /\ ~dead["tx"] /\ errors < MaxErrors
  /\ callbacked["rx"] /\ Running("rx") /\ ~dead["rx"]
  /\ dead' = [dead EXCEPT !["rx"] = TRUE]
  /\ cb' = "slaveAbort"
  /\ errors' = errors + 1
  /\ UNCHANGED <<ctx, callbacked, pcmVars, conn, lockVars, want, userVars, resets>>

\* handle_in_packet(), line 791: a lost packet or a queueing error.
MasterError ==
  /\ InCallback /\ ~dead["tx"] /\ errors < MaxErrors
  /\ dead' = [dead EXCEPT !["tx"] = TRUE]
  /\ cb' = "masterAbort"
  /\ errors' = errors + 1
  /\ UNCHANGED <<ctx, callbacked, pcmVars, conn, lockVars, want, userVars, resets>>

\* Lines 828-829, 846: a packet that was still queued.
MasterStillDead ==
  /\ InCallback /\ dead["tx"]
  /\ cb' = "slaveError"
  /\ UNCHANGED <<streamVars, pcmVars, conn, lockVars, want, userVars, boundVars>>

\* Mutant: the PCM of the slave is not aborted (line 850).
CallbackAbortMasterOnly ==
  /\ \/ cb = "slaveAbort" /\ cb' = "idle" /\ PcmAbort("rx")
     \/ cb = "masterAbort" /\ cb' = "slaveError" /\ PcmAbort("tx")
     \/ cb = "slaveErrorAbort" /\ cb' = "idle" /\ UNCHANGED <<pcmVars, alsa>>
  /\ UNCHANGED <<streamVars, conn, lockVars, want, midi, substreams, boundVars>>

\* Lines 683, 792 and 850
CallbackAbort ==
  /\ \/ cb = "slaveAbort" /\ cb' = "idle" /\ PcmAbort("rx")
     \/ cb = "masterAbort" /\ cb' = "slaveError" /\ PcmAbort("tx")
     \/ cb = "slaveErrorAbort" /\ cb' = "idle" /\ PcmAbort("rx")
  /\ UNCHANGED <<streamVars, conn, lockVars, want, midi, substreams, boundVars>>

\* Line 849
SlaveError ==
  /\ cb = "slaveError"
  /\ cb' = "slaveErrorAbort"
  /\ dead' = [dead EXCEPT !["rx"] = TRUE]
  /\ UNCHANGED <<ctx, callbacked, pcmVars, conn, lockVars, want, userVars, boundVars>>

----------------------------------------------------------------------------

StartStep ==
  \/ Enter \/ CheckRate \/ StartMaster \/ StartSlave
  \/ \E s \in Streams :
       StopDead(s) \/ Connect(s) \/ Queue(s) \/ Go(s) \/ WaitCallback(s)

StopStep ==
  \/ StopSlave \/ StopMaster
  \/ \E s \in Streams : Abort(s) \/ Destroy(s) \/ Clear(s) \/ Break(s)

HolderStep == StartStep \/ StopStep \/ Release

UserStep ==
  \E s \in Streams :
    \/ PcmHwParams(s) \/ PcmPrepare(s) \/ PcmHwFree(s) \/ PcmStart(s) \/ PcmDrop(s)
    \/ MidiOpen(s) \/ MidiClose(s)

CallbackStep == CallbackAbort \/ SlaveError

Next ==
  \/ HolderStep \/ \E t \in Threads : Take(t)
  \/ UserStep
  \/ UpdateOut \/ UpdateIn
  \/ \E s \in Streams : FirstCallback(s)
  \/ SlaveQueueError \/ MasterError \/ MasterStillDead \/ CallbackStep

Spec == Init /\ [][Next]_vars

----------------------------------------------------------------------------
(* Properties *)

Unlocked == holder = Nobody

\* Between operations a stream, its connection and its users agree, whatever step of a
\* start or a stop has failed.  Plug and resources are only kept for a stream that runs;
\* "on an error, the connection is broken and the caller must stop transmitting iso
\* packets" (cmp.c:328), so that a stream without one is about to be stopped by the
\* update handler; and both streams stop with the last substream of either.
StreamsMatchUse ==
  Unlocked =>
    /\ \A s \in Streams : conn[s] => Running(s)
    /\ \A s \in Streams : Running(s) /\ ~conn[s] => want[Upd] = "giveup"
    /\ (\A s \in Streams : substreams[s] = 0) /\ (\A t \in Threads : want[t] # "stop")
         => \A s \in Streams : ~Running(s)

\* A PCM does not run on a stream that has stopped or died, unless it was only
\* prepared, and not running, when the driver called amdtp_stream_pcm_abort().
DeadIsAborted ==
  Unlocked /\ cb = "idle" =>
    \A s \in Streams : pcm[s] /\ (dead[s] \/ ~Running(s)) => missed[s]

\* A call of start_duplex() only succeeds with the master and the stream of the
\* caller running, and after the first callback of both has come: a PCM that
\* becomes prepared has a stream whose packets are already going.
SuccessRuns ==
  [][holder # Nobody /\ holder' = Nobody /\ want[holder] = "start" /\ ~failed =>
       \A s \in {"tx", holder[2]} : Running(s) /\ callbacked[s]]_vars
=============================================================================
