----------------------------- MODULE OxfwStreams -----------------------------
(***************************************************************************)
(* The streams of an OXFW device (sound/firewire/oxfw): each direction is  *)
(* started and stopped on its own (oxfw-stream.c), by the PCM and MIDI     *)
(* callbacks (oxfw-pcm.c, oxfw-midi.c) and by the bus-reset handler; the   *)
(* rate is the device's, so that a change of rate concerns both.           *)
(***************************************************************************)
EXTENDS Duplex

\* Mutant: the PCM is not told.
OxfwStopStreamSilently(c, s) == Disconnect(AmdtpStop(c, s), s)

\* stop_stream()
OxfwStopStream(c, s) == Disconnect(AmdtpStop(PcmAbort(c, s), s), s)

\* set_rate() and set_stream_format(), which the device may refuse
OxfwSetStreamFormat(c, rate) == MayFail([c EXCEPT !.device = rate]) \cup Bad(c)

\* start_stream(): no entry for this rate, the connection, the stream, the first
\* packet; whatever fails leaves no connection.
OxfwStartStream(c, s, rate) ==
  LET Start(d) == OrUndo(AmdtpStart(d, s), LAMBDA e : Disconnect(e, s))
      Wait(d) == OrUndo(WaitCallback(d), LAMBDA e : OxfwStopStream(e, s))
  IN  Bad(c) \cup Then(Then(Connect([c EXCEPT !.rate[s] = rate], s), Start), Wait)

\* Lines 251-267: for the stream to the device it is that stream itself.
OxfwOpposite(c, s) ==
  IF s = "tx" THEN {"rx"} ELSE IF "tx" \in c.dirs THEN {"rx"} ELSE {}

\* Lines 292-317
OxfwChangeFormat(c, s, rate) ==
  LET StopOpposite(d) == IF OxfwOpposite(d, s) = {} THEN d ELSE OxfwStopStream(d, "rx")
      RestartOpposite(d) ==
        IF OxfwOpposite(d, s) # {} /\ ~d.run["rx"] /\ d.count[Other(s)] > 0
        THEN OxfwStartStream(d, "rx", rate) ELSE Good(d)
  IN  Then(Then(IF OxfwOpposite(c, s) = {} THEN Good(c) ELSE MayFail(c),
                LAMBDA d : OxfwSetStreamFormat(OxfwStopStream(StopOpposite(d), s), rate)),
           RestartOpposite)

\* snd_oxfw_stream_start_simplex(): the plug may be in use and the current format
\* may not be read; MIDI asks for the rate of the device, a PCM for a rate and for
\* a number of channels.
OxfwStartSimplex(c, s, rate) ==
  LET Format(d) ==
        (IF rate \in {AnyRate, d.device} THEN Good(d) ELSE {})
        \cup (IF rate = AnyRate THEN {} ELSE OxfwChangeFormat(d, s, rate))
      Start(d) == IF d.run[s] THEN Good(d) ELSE OxfwStartStream(d, s, d.device)
  IN  IF c.count[s] = 0 THEN Good(c)
      ELSE Then(Then(MayFail(c),
                     LAMBDA d : MayFail(IF d.dead[s] THEN OxfwStopStream(d, s) ELSE d)),
                LAMBDA d : Then(Format(d), Start))

\* snd_oxfw_stream_stop_simplex()
OxfwStopSimplex(c, s) == IF c.count[s] > 0 THEN c ELSE OxfwStopStream(c, s)

\* Mutant: the error of the update is not looked at.
OxfwUpdateSimplexBlind(c, s) == {o.card : o \in Reconnect(c, s)}

\* snd_oxfw_stream_update_simplex()
OxfwUpdateSimplex(c, s) ==
  {IF o.ok THEN o.card ELSE OxfwStopStream(o.card, s) : o \in Reconnect(c, s)}

----------------------------------------------------------------------------
(* oxfw-pcm.c *)

\* pcm_open(): line 212 leaves with the lock when the current format cannot be read.
OxfwPcmOpen(s) ==
  /\ Usable /\ s \in card.dirs /\ card.pcm[s] = "closed"
  /\ \E o \in LockTry(card) :
       /\ o.ok
       /\ \/ card' = OpenPcm(o.card, s, PcmRunning(card))
          \/ PcmRunning(card) /\ LeaveLocked(o.card)

OxfwPcmClose(s) == ClosePcm(s)

OxfwPcmHwParams(s) == HwParams(s, s)

OxfwPcmHwFree(s) == HwFree(s, OxfwStopSimplex(Dec(card, s), s))

OxfwPcmPrepare(s) ==
  MayPrepare(s) /\ Prepared(s, OxfwStartSimplex(card, s, card.want[s]))

OxfwPcmTrigger(s) == Trigger(s)

----------------------------------------------------------------------------
(* oxfw-midi.c and oxfw-hwdep.c *)

OxfwMidiOpen(s) ==
  /\ MayOpenMidi(s, s)
  /\ \E o \in LockTry(card) :
       o.ok /\ MidiOpened(s, s, OxfwStartSimplex(Inc(o.card, s), s, AnyRate))

OxfwMidiClose(s) == CloseMidi(s, OxfwStopSimplex(MidiGone(s, s), s))

OxfwHwdepLock == Lock

OxfwHwdepUnlock == Unlock

----------------------------------------------------------------------------
(* oxfw.c *)

\* snd_oxfw_stream_destroy_simplex() of both
OxfwDestroyStreams(c) == Destroy(IF "tx" \in c.dirs THEN Destroy(c, "tx") ELSE c, "rx")

\* oxfw_card_free()
OxfwCardFree(c) == [OxfwDestroyStreams(c) EXCEPT !.life = "freed"]

\* oxfw_probe(): an error comes before the streams are initialised, or is the one
\* of snd_card_register(), after which the streams are destroyed twice.
OxfwProbe ==
  /\ card.life = "absent"
  /\ LET c == [card EXCEPT !.inited = TRUE] IN
       card' \in {[c EXCEPT !.life = "live"], OxfwCardFree(card),
                  OxfwCardFree(OxfwDestroyStreams(c))}

\* oxfw_bus_reset()
OxfwBusReset ==
  /\ Usable
  /\ \E c \in OxfwUpdateSimplex(card, "rx") :
       card' \in IF "tx" \in card.dirs THEN OxfwUpdateSimplex(c, "tx") ELSE {c}

OxfwRemove == Unplug

OxfwReleased == MayFree /\ card' = OxfwCardFree(card)

\* The packet callbacks
OxfwPacketError(s) == StreamError(s)

OxfwStep ==
  \/ \E s \in Streams :
       \/ OxfwPcmOpen(s) \/ OxfwPcmClose(s) \/ OxfwPcmHwParams(s) \/ OxfwPcmHwFree(s)
       \/ OxfwPcmPrepare(s) \/ OxfwPcmTrigger(s) \/ OxfwMidiOpen(s) \/ OxfwMidiClose(s)
       \/ OxfwPacketError(s)
  \/ OxfwHwdepLock \/ OxfwHwdepUnlock
  \/ OxfwProbe \/ OxfwBusReset \/ OxfwRemove \/ OxfwReleased
===============================================================================
