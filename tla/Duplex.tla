-------------------------------- MODULE Duplex --------------------------------
(***************************************************************************)
(* What the drivers of the duplex audio devices have in common: the card   *)
(* with its two streams, the ALSA substreams that use them, and the calls  *)
(* into amdtp.c, cmp.c and iso-resources.c by which a driver starts and    *)
(* stops them.  OxfwStreams, BebobStreams, DigiStreams and DiceStreams     *)
(* extend it, one for each driver.                                         *)
(*                                                                         *)
(* A section under the mutex of a driver is one step here (EfwStreams,     *)
(* whose driver has the same shape, takes it apart), together with what    *)
(* the packet callbacks, which take no mutex, make of the streams before   *)
(* it returns.  It is a composition of calls; a call is a set of outcomes  *)
(* [ok, card], one for every way it may end.                               *)
(***************************************************************************)
EXTENDS Integers, FiniteSets

CONSTANTS
  Rates,       \* sampling rates of the devices
  AnyRate,     \* rate 0, which a MIDI substream asks for; that of what has none yet
  MaxCount,    \* bound: what a substream counter may reach
  MaxLost      \* bound: how many of its users, or locks, may be forgotten

ASSUME DuplexAssumption ==
  /\ Rates # {} /\ AnyRate \notin Rates
  /\ MaxCount \in Nat /\ MaxLost \in Nat

VARIABLE
  card         \* the state of the driver, see TypeOK

Streams == {"tx", "rx"}       \* from the device, to the device
Other(s) == IF s = "tx" THEN "rx" ELSE "tx"
Counters == Streams \cup {"both"}
Drivers == {"oxfw", "bebob", "maudio", "digi", "dice"}
Threads == {"pcm", "midi"} \X Streams

TypeOK ==
  card \in [driver    : Drivers,
            life      : {"absent", "deferred", "live", "removed", "freed"},
            dirs      : SUBSET Streams,           \* streams of the device
            ports     : SUBSET Streams,           \* streams that carry MIDI
            master    : Streams,                  \* stream that gives the time
            inited    : BOOLEAN,                  \* amdtp_stream_init() was called
            run       : [Streams -> BOOLEAN],     \* amdtp_stream_running()
            dead      : [Streams -> BOOLEAN],     \* amdtp_streaming_error()
            rate      : [Streams -> Rates \cup {AnyRate}],       \* amdtp_stream_set_parameters()
            conn      : [Streams -> BOOLEAN],     \* connection or resources
            device    : Rates,                    \* rate the device is set to
            session   : BOOLEAN,                  \* device told to stream, as the driver believes
            pcm       : [Streams -> {"closed", "open", "setup", "prepared", "running", "xrun"}],
            want      : [Streams -> Rates \cup {AnyRate}],       \* runtime->rate
            limit     : [Streams -> SUBSET Rates],\* runtime->hw.rate_min, rate_max
            midi      : SUBSET Streams,           \* open MIDI substreams
            count     : [Counters -> 0 .. MaxCount],
            lock      : -1 .. 10,                 \* dev_lock_count
            lost      : [Counters -> 0 .. MaxLost], \* history: never counted down
            lockLost  : Nat,                      \* history: never released
            missed    : [Streams -> BOOLEAN],     \* history: an abort that was lost, before trigger
            warned    : BOOLEAN,                  \* history: WARN_ON of a destroyed stream
            ghost     : BOOLEAN,                  \* history: used after being freed
            waiting   : SUBSET Threads,           \* BeBoB: in start_duplex()
            completed : BOOLEAN]                  \* completion of the BeBoB update

Units == [driver : Drivers, dirs : SUBSET Streams, ports : SUBSET Streams, master : Streams]

\* A unit that was plugged in and has no card yet.
Plugged(u, device) ==
  [driver |-> u.driver, life |-> "absent", dirs |-> u.dirs, ports |-> u.ports,
   master |-> u.master, inited |-> FALSE,
   run |-> [s \in Streams |-> FALSE], dead |-> [s \in Streams |-> FALSE],
   rate |-> [s \in Streams |-> AnyRate],
   conn |-> [s \in Streams |-> FALSE],
   device |-> device, session |-> FALSE,
   pcm |-> [s \in Streams |-> "closed"],
   want |-> [s \in Streams |-> AnyRate],
   limit |-> [s \in Streams |-> {}],
   midi |-> {}, count |-> [s \in Counters |-> 0], lock |-> 0,
   lost |-> [s \in Counters |-> 0], lockLost |-> 0,
   missed |-> [s \in Streams |-> FALSE], warned |-> FALSE, ghost |-> FALSE,
   waiting |-> {}, completed |-> FALSE]

----------------------------------------------------------------------------
(* Calls and their outcomes *)

Good(c) == {[ok |-> TRUE, card |-> c]}
Bad(c) == {[ok |-> FALSE, card |-> c]}
MayFail(c) == Good(c) \cup Bad(c)

\* err = call(); if (err < 0) goto end; next
Then(call, Next1(_)) ==
  UNION {IF o.ok THEN Next1(o.card) ELSE {o} : o \in call}

\* if (call() < 0) { undo; goto end; }
OrUndo(call, Undo(_)) ==
  {IF o.ok THEN o ELSE [ok |-> FALSE, card |-> Undo(o.card)] : o \in call}

----------------------------------------------------------------------------
(* The streams *)

\* amdtp_stream_pcm_abort(): only a PCM that runs is known to the stream.
PcmAbort(c, s) ==
  [c EXCEPT !.pcm[s] = IF @ = "running" THEN "xrun" ELSE @,
            !.missed[s] = @ \/ c.pcm[s] = "prepared"]

\* amdtp_stream_stop(): s->pcm and packet_index stay as they are.
AmdtpStop(c, s) == [c EXCEPT !.run[s] = FALSE]

\* amdtp_stream_start(): an error may come before or after packet_index = 0.
AmdtpStart(c, s) ==
  Good([c EXCEPT !.run[s] = TRUE, !.dead[s] = FALSE])
  \cup Bad(c) \cup Bad([c EXCEPT !.dead[s] = FALSE])

\* amdtp_stream_wait_callback()
WaitCallback(c) == MayFail(c)

\* A queueing error or a lost packet sets packet_index to -1 and aborts the PCM;
\* that of a master does so for its slave too, running or not (lines 845-853).
Synchronised(c) == c.driver \in {"bebob", "maudio"} \/ (c.driver = "dice" /\ c.master = "tx")
Die(c, s) == PcmAbort([c EXCEPT !.dead[s] = TRUE], s)
ErrorOf(c, s) ==
  IF Synchronised(c) /\ s = "tx" THEN Die(Die(c, "tx"), "rx") ELSE Die(c, s)
Streaming(c, s) == c.run[s] /\ ~c.dead[s]
StreamError(s) == Streaming(card, s) /\ card' = ErrorOf(card, s)

\* What such errors may make of the streams while a section is under way that starts
\* them.  A slave may have been started after its master had died: it then lives on.
Survived(c) ==
  IF Synchronised(c) /\ \A s \in Streams : Streaming(c, s)
  THEN {[ErrorOf(c, "tx") EXCEPT !.dead["rx"] = FALSE]} ELSE {}
MayDie(c, s) == IF Streaming(c, s) THEN {c, ErrorOf(c, s)} ELSE {c}
Meanwhile(c) == UNION {MayDie(d, "rx") : d \in MayDie(c, "tx") \cup Survived(c)}

\* cmp_connection_establish() or fw_iso_resources_allocate()
Connect(c, s) ==
  IF c.conn[s] THEN Bad(c) ELSE Good([c EXCEPT !.conn[s] = TRUE]) \cup Bad(c)

\* cmp_connection_break() or fw_iso_resources_free().  The parameters of the stream
\* are set again before it is connected again.
Disconnect(c, s) ==
  [c EXCEPT !.conn[s] = FALSE, !.rate[s] = IF c.run[s] THEN @ ELSE AnyRate]

\* cmp_connection_update() or fw_iso_resources_update(): on an error nothing is
\* left of the connection.
Reconnect(c, s) ==
  Good(c) \cup IF c.conn[s] THEN Bad([c EXCEPT !.conn[s] = FALSE]) ELSE {}

\* amdtp_stream_destroy(): WARN_ON(amdtp_stream_running(s)), which is also true of
\* a stream whose context was never set.
Destroy(c, s) == [c EXCEPT !.warned = @ \/ c.run[s] \/ ~c.inited]

PcmRunning(c) == \E s \in Streams : c.pcm[s] = "running"

----------------------------------------------------------------------------
(* The users; the ALSA core lets them only stop and close what is theirs once *)
(* the card is disconnected                                                    *)

Usable == card.life = "live"
InUse == card.life \in {"live", "removed"}
Idle(t) == t \notin card.waiting

\* snd_*_stream_lock_try() and snd_*_stream_lock_release()
LockTry(c) == IF c.lock < 0 THEN Bad(c) ELSE Good([c EXCEPT !.lock = @ + 1])
LockRelease(c) == [c EXCEPT !.lock = @ - 1]

Inc(c, k) == [c EXCEPT !.count[k] = @ + 1]
Dec(c, k) == [c EXCEPT !.count[k] = @ - 1]
MayLose == card.lockLost < MaxLost /\ \A k \in Counters : card.lost[k] < MaxLost
Lose(c, k) == [c EXCEPT !.lost[k] = @ + 1]

\* pcm_open(): when the rate is limited, it is to the one of the device.
OpenPcm(c, s, limited) ==
  [c EXCEPT !.pcm[s] = "open",
            !.limit[s] = IF limited THEN {c.device} ELSE Rates]

\* pcm_close(), which the ALSA core calls after hw_free
ClosePcm(s) ==
  /\ InUse /\ card.pcm[s] = "open"
  /\ card' = LockRelease([card EXCEPT !.pcm[s] = "closed", !.limit[s] = {}])

\* pcm_open() that fails and leaves the lock as it is
LeaveLocked(c) == MayLose /\ card' = [c EXCEPT !.lockLost = @ + 1]

\* The substream gives up what hw_params and prepare gave it.
Unset(c, s) ==
  [c EXCEPT !.pcm[s] = "open", !.want[s] = AnyRate, !.missed[s] = FALSE]

\* hw_params: a substream in state OPEN is counted; when the allocation of the
\* buffer fails the ALSA core puts it into state OPEN.
HwParams(s, k) ==
  /\ Usable /\ Idle(<<"pcm", s>>)
  /\ card.pcm[s] \in {"open", "setup", "prepared"} /\ card.count[k] < MaxCount
  /\ LET c == IF card.pcm[s] = "open" THEN Inc(card, k) ELSE card IN
       \/ \E r \in card.limit[s] :
            card' = [c EXCEPT !.pcm[s] = "setup", !.want[s] = r, !.missed[s] = FALSE]
       \/ MayLose /\ card' = Lose(Unset(c, s), k)

\* hw_free: the substream is counted down, then streams may stop; stopped is the card
\* after that.
HwFree(s, stopped) ==
  /\ InUse /\ Idle(<<"pcm", s>>) /\ card.pcm[s] \in {"setup", "prepared"}
  /\ card' = Unset(stopped, s)

\* prepare: the stream is started; start is what that may come to.  An error that comes
\* before the return aborts nothing: the PCM is not one that runs.
Prepared(s, start) ==
  \E o \in start : \E d \in Meanwhile(o.card) :
    card' = IF o.ok THEN [d EXCEPT !.pcm[s] = "prepared",
                                   !.missed[s] = d.dead[s] /\ ~o.card.dead[s]]
            ELSE d

MayPrepare(s) == Usable /\ Idle(<<"pcm", s>>) /\ card.pcm[s] \in {"setup", "prepared", "xrun"}

\* trigger: START of a prepared substream; STOP, or snd_pcm_drop() after an XRUN
Trigger(s) ==
  /\ Usable /\ Idle(<<"pcm", s>>)
  /\ \/ card.pcm[s] = "prepared" /\ card' = [card EXCEPT !.pcm[s] = "running"]
     \/ card.pcm[s] \in {"running", "xrun"}
        /\ card' = [card EXCEPT !.pcm[s] = "setup", !.missed[s] = FALSE]

\* Mutant: err leaves without the lock being given back.
MidiOpenedKeepsLock(s, k, start) ==
  \E o \in start : \E d \in Meanwhile(o.card) :
    IF o.ok THEN card' = [d EXCEPT !.midi = @ \cup {s}]
    ELSE MayLose /\ card' = Lose(d, k)

\* MIDI open: when the start fails only the lock is given back.
MidiOpened(s, k, start) ==
  \E o \in start : \E d \in Meanwhile(o.card) :
    IF o.ok THEN card' = [d EXCEPT !.midi = @ \cup {s}]
    ELSE MayLose /\ card' = LockRelease(Lose(d, k))

MayOpenMidi(s, k) ==
  /\ Usable /\ s \in card.ports \ card.midi /\ Idle(<<"midi", s>>)
  /\ card.count[k] < MaxCount

\* MIDI close: count down, let streams stop, give back the lock.
MidiGone(s, k) == [Dec(card, k) EXCEPT !.midi = @ \ {s}]
CloseMidi(s, stopped) ==
  /\ InUse /\ s \in card.midi
  /\ card' = LockRelease(stopped)

\* hwdep_lock(), and hwdep_unlock() or hwdep_release()
Lock == Usable /\ card.lock = 0 /\ card' = [card EXCEPT !.lock = -1]
Unlock == card.lock = -1 /\ card' = [card EXCEPT !.lock = 0]

\* .remove calls snd_card_free_when_closed(): hw_free and close are what the ALSA
\* core still lets a substream do.
Disconnected(c) ==
  [c EXCEPT !.life = "removed",
            !.pcm = [s \in Streams |-> IF @[s] \in {"closed", "open"} THEN @[s] ELSE "setup"],
            !.limit = [s \in Streams |-> {}], !.missed = [s \in Streams |-> FALSE]]
Unplug == Usable /\ card' = Disconnected(card)

\* Then private_free waits for the last of the ALSA devices to be closed.
MayFree ==
  /\ card.life = "removed"
  /\ card.midi = {} /\ \A s \in Streams : card.pcm[s] = "closed" /\ Idle(<<"midi", s>>)
===============================================================================
