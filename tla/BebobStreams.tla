----------------------------- MODULE BebobStreams -----------------------------
(***************************************************************************)
(* The streams of a BeBoB device (sound/firewire/bebob): "tx" is always    *)
(* the master, both connections are made and broken together, and after a  *)
(* streaming error start_duplex() first waits, without the mutex, for the  *)
(* bus-reset handler to update the connections (bebob_stream.c).  The      *)
(* cards of two M-Audio models ("maudio") are only registered by the first *)
(* call of that handler (bebob.c), and their rate is set after the master  *)
(* has started.  card.session is bebob->connected.                         *)
(***************************************************************************)
EXTENDS Duplex

BebobSpecial(c) == c.driver = "maudio"

\* break_both_connections()
BebobBreakBoth(c) == [Disconnect(Disconnect(c, "rx"), "tx") EXCEPT !.session = FALSE]

\* make_both_connections(): the second failure breaks the first.  A slave that outlived
\* its connections keeps its parameters (WARN_ON, amdtp.c:213), which are these: it was
\* stopped if the rate is another.
BebobMakeBoth(c, rate) ==
  LET Out == Connect([c EXCEPT !.rate = [s \in Streams |-> rate]], "tx")
      In(d) == OrUndo(Connect(d, "rx"), LAMBDA e : Disconnect(e, "tx"))
      Connected(d) == Good([d EXCEPT !.session = TRUE])
  IN  IF c.session THEN Good(c) ELSE Then(Then(Out, In), Connected)

\* rate_spec->set()
BebobSetRate(c, rate) == MayFail([c EXCEPT !.device = rate]) \cup Bad(c)

\* start_stream(): the channel mapping, then the stream
BebobStartStream(c, s) == AmdtpStart(c, s)

BebobStopMaster(c) == BebobBreakBoth(AmdtpStop(c, "tx"))

\* Lines 572-630
BebobStartMaster(c, rate) ==
  LET Start(d) == OrUndo(BebobStartStream(d, "tx"), BebobBreakBoth)
      Ensure(d) ==
        IF BebobSpecial(d) THEN OrUndo(BebobSetRate(d, rate), BebobStopMaster) ELSE Good(d)
      Wait(d) == OrUndo(WaitCallback(d), BebobStopMaster)
  IN  IF c.run["tx"] THEN Good(c)
      ELSE Then(Then(Then(Then(IF BebobSpecial(c) THEN Good(c) ELSE BebobSetRate(c, rate),
                               LAMBDA d : BebobMakeBoth(d, rate)), Start), Ensure), Wait)

\* Lines 632-650
BebobStartSlave(c) ==
  LET Wait(d) == OrUndo(WaitCallback(d), LAMBDA e : BebobStopMaster(AmdtpStop(e, "rx")))
  IN  IF c.count["rx"] > 0 /\ ~c.run["rx"]
      THEN Then(OrUndo(BebobStartStream(c, "rx"), BebobStopMaster), Wait) ELSE Good(c)

\* Lines 549-570: streams stop without an abort of their PCMs.
BebobRestart(c, rate, updated) ==
  LET StopDead(d) == [d EXCEPT !.run = [s \in Streams |-> @[s] /\ ~d.dead[s]]]
      Stale(d) == ~updated /\ \A s \in Streams : ~d.run[s]
      Fresh == IF Stale(StopDead(c)) THEN BebobBreakBoth(StopDead(c)) ELSE StopDead(c)
  IN  IF rate \in {AnyRate, c.device} THEN Fresh
      ELSE BebobStopMaster(AmdtpStop(Fresh, "rx"))

\* The section of snd_bebob_stream_start_duplex() under the mutex; the plug may be
\* in use, and the rate may not be read, which is after the dead streams stopped.
BebobStartDuplex(c, rate, updated) ==
  LET Asked == IF rate = AnyRate THEN c.device ELSE rate
  IN  IF c.count["tx"] = 0 /\ c.count["rx"] = 0 THEN Good(c)
      ELSE Bad(c) \cup Bad(BebobRestart(c, AnyRate, updated))
           \cup Then(BebobStartMaster(BebobRestart(c, rate, updated), Asked), BebobStartSlave)

\* snd_bebob_stream_start_duplex() in a thread of an ALSA substream: with a dead
\* master the completion is set back and waited for (lines 506-513).
BebobMustWait == card.dead["tx"]
BebobWait(c, t) == [c EXCEPT !.waiting = @ \cup {t}, !.completed = FALSE]

\* The update handler has completed, or the time is over, or a signal came.
BebobWakeUp(t, rate) ==
  UNION {BebobStartDuplex([card EXCEPT !.waiting = @ \ {t}], rate, updated) :
           updated \in {FALSE, card.completed}}

\* Mutant: the slave is taken for the master.
BebobStopDuplexSwapped(c) ==
  LET slaveless == AmdtpStop(PcmAbort(c, "tx"), "tx") IN
    IF c.count["tx"] > 0 THEN c
    ELSE IF c.count["rx"] > 0 THEN slaveless
    ELSE BebobStopMaster(PcmAbort(slaveless, "rx"))

\* snd_bebob_stream_stop_duplex(): the master only stops after the slave.
BebobStopDuplex(c) ==
  LET slaveless == AmdtpStop(PcmAbort(c, "rx"), "rx") IN
    IF c.count["rx"] > 0 THEN c
    ELSE IF c.count["tx"] > 0 THEN slaveless
    ELSE BebobStopMaster(PcmAbort(slaveless, "tx"))

\* snd_bebob_stream_update_duplex(): after the first failure the other connection
\* is not updated.
BebobUpdateDuplex(c) ==
  LET both == Then(Reconnect(c, "rx"), LAMBDA d : Reconnect(d, "tx"))
      GiveUp(d) ==
        BebobBreakBoth(AmdtpStop(AmdtpStop(PcmAbort(PcmAbort(d, "rx"), "tx"), "rx"), "tx"))
  IN  {[IF o.ok THEN o.card ELSE GiveUp(o.card) EXCEPT !.completed = TRUE] : o \in both}

----------------------------------------------------------------------------
(* bebob_pcm.c *)

\* pcm_open(): the rate is also limited when the clock is not the internal one.
BebobPcmOpen(s) ==
  /\ Usable /\ card.pcm[s] = "closed"
  /\ \E o \in LockTry(card), external \in BOOLEAN :
       o.ok /\ card' = OpenPcm(o.card, s, external \/ PcmRunning(card))

BebobPcmClose(s) == ClosePcm(s)

BebobPcmHwParams(s) == HwParams(s, s)

BebobPcmHwFree(s) == HwFree(s, BebobStopDuplex(Dec(card, s)))

BebobPcmPrepare(s) ==
  /\ MayPrepare(s)
  /\ IF BebobMustWait THEN card' = BebobWait(card, <<"pcm", s>>)
     ELSE Prepared(s, BebobStartDuplex(card, card.want[s], FALSE))
BebobPcmPrepareAwake(s) ==
  /\ <<"pcm", s>> \in card.waiting
  /\ Prepared(s, BebobWakeUp(<<"pcm", s>>, card.want[s]))

BebobPcmTrigger(s) == Trigger(s)

----------------------------------------------------------------------------
(* bebob_midi.c and bebob_hwdep.c *)

BebobMidiOpen(s) ==
  /\ MayOpenMidi(s, s)
  /\ \E o \in LockTry(card) :
       /\ o.ok
       /\ IF BebobMustWait THEN card' = BebobWait(Inc(o.card, s), <<"midi", s>>)
          ELSE MidiOpened(s, s, BebobStartDuplex(Inc(o.card, s), AnyRate, FALSE))
BebobMidiOpenAwake(s) ==
  /\ <<"midi", s>> \in card.waiting
  /\ MidiOpened(s, s, BebobWakeUp(<<"midi", s>>, AnyRate))

BebobMidiClose(s) == CloseMidi(s, BebobStopDuplex(MidiGone(s, s)))

BebobHwdepLock == Lock

BebobHwdepUnlock == Unlock

----------------------------------------------------------------------------
(* bebob.c *)

\* snd_bebob_stream_destroy_duplex()
BebobDestroyDuplex(c) == Destroy(Destroy(c, "rx"), "tx")

\* bebob_card_free()
BebobCardFree(c) == [BebobDestroyDuplex(c) EXCEPT !.life = "freed"]

\* bebob_probe(): an error comes before the streams are initialised, or is the one
\* of snd_card_register(), after which the streams are destroyed twice.
BebobProbe ==
  /\ card.life = "absent"
  /\ LET c == [card EXCEPT !.inited = TRUE] IN
       card' \in IF BebobSpecial(card)
                 THEN {[c EXCEPT !.life = "deferred"], BebobCardFree(card)}
                 ELSE {[c EXCEPT !.life = "live"], BebobCardFree(card),
                       BebobCardFree(BebobDestroyDuplex(c))}

\* bebob_update(): when the deferred registration fails the card is freed, and then
\* written to; the unit still leads to it.
BebobUpdate ==
  /\ card.life \in {"deferred", "live"}
  /\ \E c \in BebobUpdateDuplex(card) :
       card' \in IF card.life = "live" THEN {c}
                 ELSE {[c EXCEPT !.life = "live"],
                       [BebobCardFree(BebobDestroyDuplex(c)) EXCEPT !.ghost = TRUE]}

\* bebob_remove() completes the update, too.
BebobRemove ==
  Usable /\ card' = Disconnected([card EXCEPT !.completed = TRUE])

BebobReleased == MayFree /\ card' = BebobCardFree(card)

\* The packet callbacks
BebobPacketError(s) == StreamError(s)

BebobStep ==
  \/ \E s \in Streams :
       \/ BebobPcmOpen(s) \/ BebobPcmClose(s) \/ BebobPcmHwParams(s) \/ BebobPcmHwFree(s)
       \/ BebobPcmPrepare(s) \/ BebobPcmPrepareAwake(s) \/ BebobPcmTrigger(s)
       \/ BebobMidiOpen(s) \/ BebobMidiOpenAwake(s) \/ BebobMidiClose(s)
       \/ BebobPacketError(s)
  \/ BebobHwdepLock \/ BebobHwdepUnlock
  \/ BebobProbe \/ BebobUpdate \/ BebobRemove \/ BebobReleased
===============================================================================
