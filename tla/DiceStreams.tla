----------------------------- MODULE DiceStreams -----------------------------
(***************************************************************************)
(* The streams of a Dice device (sound/firewire/dice): both are started    *)
(* together, the device is enabled for both at once, and both stop with    *)
(* the last substream, of which there is one counter (dice-stream.c,       *)
(* dice-pcm.c, dice-midi.c).  The clock source of the device says which    *)
(* stream is the master; only a master "tx" drives the other.              *)
(***************************************************************************)
EXTENDS Duplex

DiceSlave(c) == Other(c.master)

\* stop_stream(): release_resources() writes the register and frees.
DiceStopStream(c, s) == Disconnect(AmdtpStop(PcmAbort(c, s), s), s)

\* keep_resources(): without the channel in the register they are released.
DiceKeepResources(c, s) ==
  Then(Connect(c, s), LAMBDA d : OrUndo(MayFail(d), LAMBDA e : Disconnect(e, s)))

\* start_stream(), without the wait for the first callback
DiceStartStream(c, s, rate) ==
  Then(DiceKeepResources([c EXCEPT !.rate[s] = rate], s),
       LAMBDA d : OrUndo(AmdtpStart(d, s), LAMBDA e : Disconnect(e, s)))

\* snd_dice_transaction_clear_enable()
DiceClearEnable(c) == [c EXCEPT !.session = FALSE]

\* Lines 227-270; a write may reach the device and still be an error.
DiceStartBoth(c, rate) ==
  LET stopped == DiceClearEnable(DiceStopStream(c, DiceSlave(c)))
      SetRate(d) == MayFail([d EXCEPT !.device = rate]) \cup Bad(d)
      StartMaster(d) == DiceStartStream(d, d.master, rate)
      StartSlave(d) ==
        OrUndo(DiceStartStream(d, DiceSlave(d), rate), LAMBDA e : DiceStopStream(e, e.master))
      Enable(d) ==
        OrUndo(Good([d EXCEPT !.session = TRUE]) \cup Bad(d),
               LAMBDA e : DiceStopStream(DiceStopStream(e, e.master), DiceSlave(e)))
      Wait(d) ==
        OrUndo(WaitCallback(d),
               LAMBDA e : DiceStopStream(DiceStopStream(DiceClearEnable(e), e.master),
                                         DiceSlave(e)))
  IN  Then(Then(Then(Then(SetRate(stopped), StartMaster), StartSlave), Enable),
           Wait)

\* snd_dice_stream_start_duplex(): reading the clock may fail before and after a
\* master that died, or whose slave did, is stopped.
DiceStartDuplex(c, rate) ==
  LET Alive(d) ==
        MayFail(IF d.dead["tx"] \/ d.dead["rx"] THEN DiceStopStream(d, d.master) ELSE d)
      Asked(d) == IF rate = AnyRate THEN d.device ELSE rate
      Rated(d) == IF Asked(d) # d.device THEN DiceStopStream(d, d.master) ELSE d
      Start(d) == IF Rated(d).run[d.master] THEN Good(d)
                  ELSE DiceStartBoth(Rated(d), Asked(d))
  IN  IF c.count["both"] = 0 THEN Good(c)
      ELSE Then(Then(MayFail(c), Alive), Start)

\* snd_dice_stream_stop_duplex()
DiceStopDuplex(c) ==
  IF c.count["both"] > 0 THEN c
  ELSE DiceStopStream(DiceStopStream(DiceClearEnable(c), "tx"), "rx")

----------------------------------------------------------------------------
(* dice-pcm.c *)

\* pcm_open(): the rate is also limited when the clock is not the internal one.
DicePcmOpen(s) ==
  /\ Usable /\ card.pcm[s] = "closed"
  /\ \E o \in LockTry(card), external \in BOOLEAN :
       o.ok /\ card' = OpenPcm(o.card, s, external \/ PcmRunning(card))

DicePcmClose(s) == ClosePcm(s)

DicePcmHwParams(s) == HwParams(s, "both")

DicePcmHwFree(s) == HwFree(s, DiceStopDuplex(Dec(card, "both")))

\* capture_prepare() returns 0 whatever the start came to.
DicePcmPrepare(s) ==
  /\ MayPrepare(s)
  /\ LET start == DiceStartDuplex(card, card.want[s]) IN
       Prepared(s, IF s = "tx" THEN UNION {Good(o.card) : o \in start} ELSE start)

DicePcmTrigger(s) == Trigger(s)

----------------------------------------------------------------------------
(* dice-midi.c and dice-hwdep.c *)

DiceMidiOpen(s) ==
  /\ MayOpenMidi(s, "both")
  /\ \E o \in LockTry(card) :
       o.ok /\ MidiOpened(s, "both", DiceStartDuplex(Inc(o.card, "both"), AnyRate))

DiceMidiClose(s) == CloseMidi(s, DiceStopDuplex(MidiGone(s, "both")))

DiceHwdepLock == Lock

DiceHwdepUnlock == Unlock

----------------------------------------------------------------------------
(* dice.c *)

\* snd_dice_stream_destroy_duplex()
DiceDestroyDuplex(c) == Destroy(Destroy(DiceClearEnable(c), "tx"), "rx")

\* dice_card_free()
DiceCardFree(c) == [DiceDestroyDuplex(c) EXCEPT !.life = "freed"]

\* dice_probe(): an error comes before the streams are initialised, or is the one
\* of snd_card_register(), after which the streams are destroyed twice.
DiceProbe ==
  /\ card.life = "absent"
  /\ LET c == [card EXCEPT !.inited = TRUE] IN
       card' \in {[c EXCEPT !.life = "live"], DiceCardFree(card),
                  DiceCardFree(DiceDestroyDuplex(c))}

\* snd_dice_stream_update_duplex(): stopped streams leave nothing to update.
DiceBusReset ==
  /\ Usable
  /\ card' = DiceStopStream(DiceStopStream([card EXCEPT !.session = FALSE], "rx"), "tx")

DiceRemove == Unplug

DiceReleased == MayFree /\ card' = DiceCardFree(card)

\* The packet callbacks
DicePacketError(s) == StreamError(s)

DiceStep ==
  \/ \E s \in Streams :
       \/ DicePcmOpen(s) \/ DicePcmClose(s) \/ DicePcmHwParams(s) \/ DicePcmHwFree(s)
       \/ DicePcmPrepare(s) \/ DicePcmTrigger(s) \/ DiceMidiOpen(s) \/ DiceMidiClose(s)
       \/ DicePacketError(s)
  \/ DiceHwdepLock \/ DiceHwdepUnlock
  \/ DiceProbe \/ DiceBusReset \/ DiceRemove \/ DiceReleased
===============================================================================
