----------------------------- MODULE DigiStreams -----------------------------
(***************************************************************************)
(* The streams of a Digi 002 or 003 (sound/firewire/digi00x): the device   *)
(* is told the channels of both streams and to begin and to finish a       *)
(* session; it only transmits while it receives (digi00x-stream.c).  The   *)
(* streams are started by PCM and MIDI callbacks (digi00x-pcm.c,           *)
(* digi00x-midi.c), always both, and stopped one after the other.          *)
(***************************************************************************)
EXTENDS Duplex

\* finish_session() and release_resources(), whatever the writes come to, around
\* amdtp_stream_stop() of both streams: a running PCM is not aborted.
DigiStopAll(c) ==
  Disconnect(Disconnect(AmdtpStop(AmdtpStop([c EXCEPT !.session = FALSE], "tx"), "rx"),
                        "tx"), "rx")

\* keep_resources(): for both streams, and the write of the channels may fail.
DigiKeepResources(c, rate) ==
  Then(Then(Connect([c EXCEPT !.rate["rx"] = rate], "rx"),
            LAMBDA d : Connect([d EXCEPT !.rate["tx"] = rate], "tx")),
       MayFail)

\* begin_session()
DigiBeginSession(c) == Good([c EXCEPT !.session = TRUE]) \cup Bad(c)

\* snd_dg00x_stream_set_rate()
DigiSetRate(c, rate) == Good([c EXCEPT !.device = rate]) \cup Bad(c)

\* Lines 322-347
DigiStartRx(c, rate) ==
  IF c.run["rx"] THEN Good(c)
  ELSE Then(Then(Then(DigiSetRate(c, rate), LAMBDA d : DigiKeepResources(d, rate)),
                 DigiBeginSession),
            LAMBDA d : Then(AmdtpStart(d, "rx"), WaitCallback))

\* Lines 353-367
DigiStartTx(c) ==
  IF c.count["tx"] > 0 /\ ~c.run["tx"]
  THEN Then(AmdtpStart(c, "tx"), WaitCallback) ELSE Good(c)

\* Mutant: a streaming error is only looked for in the stream to the device.
DigiStartDuplexDead(c, rate) ==
  LET Asked(d) == IF rate = AnyRate THEN d.device ELSE rate
      Fresh(d) == IF Asked(d) # d.device \/ d.dead["rx"] THEN DigiStopAll(d) ELSE d
  IN  IF c.count["tx"] = 0 /\ c.count["rx"] = 0 THEN Good(c)
      ELSE OrUndo(Then(Then(MayFail(c), LAMBDA d : DigiStartRx(Fresh(d), Asked(d))),
                       DigiStartTx),
                  DigiStopAll)

\* snd_dg00x_stream_start_duplex(): a streaming error of either stream restarts
\* both; every failure stops both.
DigiStartDuplex(c, rate) ==
  LET Asked(d) == IF rate = AnyRate THEN d.device ELSE rate
      Fresh(d) == IF Asked(d) # d.device \/ d.dead["tx"] \/ d.dead["rx"]
                  THEN DigiStopAll(d) ELSE d
  IN  IF c.count["tx"] = 0 /\ c.count["rx"] = 0 THEN Good(c)
      ELSE OrUndo(Then(Then(MayFail(c), LAMBDA d : DigiStartRx(Fresh(d), Asked(d))),
                       DigiStartTx),
                  DigiStopAll)

\* Mutant: each stream stops with its own users, the session with the playback.
DigiStopDuplexEach(c) ==
  LET tx == IF c.count["tx"] > 0 THEN c ELSE AmdtpStop(c, "tx") IN
    IF c.count["rx"] > 0 \/ c.count["tx"] > 0 THEN tx ELSE AmdtpStop(tx, "rx")

\* snd_dg00x_stream_stop_duplex()
DigiStopDuplex(c) ==
  IF c.count["tx"] > 0 THEN c
  ELSE IF c.count["rx"] > 0 THEN AmdtpStop(c, "tx")
  ELSE DigiStopAll(c)

----------------------------------------------------------------------------
(* digi00x-pcm.c *)

\* pcm_open(): the rate is also limited when the clock is not the internal one.  When
\* it cannot be read its value is any, and by that of the internal one the error is
\* returned with the lock taken (lines 129-145).
DigiPcmOpen(s) ==
  /\ Usable /\ card.pcm[s] = "closed"
  /\ \E o \in LockTry(card) :
       /\ o.ok
       /\ \/ \E external \in BOOLEAN :
               card' = OpenPcm(o.card, s, external \/ PcmRunning(card))
          \/ ~PcmRunning(card) /\ LeaveLocked(o.card)

DigiPcmClose(s) == ClosePcm(s)

DigiPcmHwParams(s) == HwParams(s, s)

DigiPcmHwFree(s) == HwFree(s, DigiStopDuplex(Dec(card, s)))

DigiPcmPrepare(s) == MayPrepare(s) /\ Prepared(s, DigiStartDuplex(card, card.want[s]))

DigiPcmTrigger(s) == Trigger(s)

----------------------------------------------------------------------------
(* digi00x-midi.c and digi00x-hwdep.c; MIDI port 0 does not use the streams *)

DigiMidiOpen(s) ==
  /\ MayOpenMidi(s, s)
  /\ \E o \in LockTry(card) :
       o.ok /\ MidiOpened(s, s, DigiStartDuplex(Inc(o.card, s), AnyRate))

DigiMidiClose(s) == CloseMidi(s, DigiStopDuplex(MidiGone(s, s)))

DigiHwdepLock == Lock

DigiHwdepUnlock == Unlock

----------------------------------------------------------------------------
(* digi00x.c *)

\* snd_dg00x_stream_destroy_duplex() in dg00x_card_free()
DigiCardFree(c) == [Destroy(Destroy(c, "rx"), "tx") EXCEPT !.life = "freed"]

\* snd_dg00x_probe(): an error comes before or after the streams are initialised.
DigiProbe ==
  /\ card.life = "absent"
  /\ LET c == [card EXCEPT !.inited = TRUE] IN
       card' \in {[c EXCEPT !.life = "live"], DigiCardFree(card), DigiCardFree(c)}

\* snd_dg00x_stream_update_duplex(): what the updates come to is not looked at.
DigiUpdate ==
  /\ Usable
  /\ \E o \in Reconnect(card, "tx") : \E p \in Reconnect(o.card, "rx") : card' = p.card

DigiRemove == Unplug

DigiReleased == MayFree /\ card' = DigiCardFree(card)

\* The packet callbacks
DigiPacketError(s) == StreamError(s)

DigiStep ==
  \/ \E s \in Streams :
       \/ DigiPcmOpen(s) \/ DigiPcmClose(s) \/ DigiPcmHwParams(s) \/ DigiPcmHwFree(s)
       \/ DigiPcmPrepare(s) \/ DigiPcmTrigger(s) \/ DigiMidiOpen(s) \/ DigiMidiClose(s)
       \/ DigiPacketError(s)
  \/ DigiHwdepLock \/ DigiHwdepUnlock
  \/ DigiProbe \/ DigiUpdate \/ DigiRemove \/ DigiReleased
===============================================================================
