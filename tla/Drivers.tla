------------------------------- MODULE Drivers -------------------------------
(***************************************************************************)
(* The four drivers that share the shape of Duplex, and what they promise. *)
(* A behaviour is one card of one of them: its driver is fixed by Init.    *)
(***************************************************************************)
EXTENDS OxfwStreams, BebobStreams, DigiStreams, DiceStreams

CONSTANT Plug  \* the units that may be plugged in

ASSUME PlugAssumption == Plug \subseteq Units

BebobDrivers == {"bebob", "maudio"}

Init == \E u \in Plug, device \in Rates : card = Plugged(u, device)

Next ==
  \/ card.driver = "oxfw" /\ OxfwStep
  \/ card.driver \in BebobDrivers /\ BebobStep
  \/ card.driver = "digi" /\ DigiStep
  \/ card.driver = "dice" /\ DiceStep

Spec == Init /\ [][Next]_card

----------------------------------------------------------------------------
(* Properties *)

PcmOf(k) == IF k = "both" THEN Streams ELSE {k}
Counted(k) ==
  Cardinality({s \in Streams \cap PcmOf(k) : card.pcm[s] \notin {"closed", "open"}})
Sounding(k) ==
  Cardinality({s \in Streams \cap PcmOf(k) :
                 s \in card.midi \/ <<"midi", s>> \in card.waiting})
Holders ==
  Cardinality({s \in Streams : card.pcm[s] # "closed"}) + Sounding("both")

\* A counter of substreams is the number of its users plus those the code forgot
\* (a buffer that could not be allocated, a MIDI open that failed), and the lock
\* the number of open PCM and MIDI substreams, whatever failed on the way, but for the
\* two opens that fail and keep it: of OXFW, when the format cannot be read while a PCM
\* runs (oxfw-pcm.c:212), and of Digi 00x, when the clock cannot be read while none
\* does (digi00x-pcm.c:129-145).
CountsUsers ==
  /\ \A k \in IF card.driver = "dice" THEN {"both"} ELSE Streams :
       card.count[k] = Counted(k) + Sounding(k) + card.lost[k]
  /\ card.lock \in {-1, Holders + card.lockLost}
  /\ card.lock = -1 => Holders + card.lockLost = 0
  /\ card.lockLost > 0 => card.driver \in {"oxfw", "digi"}

\* Packets only go where bandwidth and a channel are reserved for them, but for Digi
\* 00x, which does not look at what the update after a bus reset came to, and for a BeBoB
\* slave without its master: started as that died, it goes on when the master is stopped
\* and the connections broken (bebob_stream.c:549, 606-611).  With no user
\* left and none forgotten, nothing goes on: no packets, no connection, no bandwidth on
\* the bus, no session of the device, in whatever order the substreams went and whatever
\* of their starting failed.  So the streams of a card that is freed do not run (WARN_ON,
\* amdtp.c:111), unless a user was forgotten; and only the late registration of the
\* M-Audio models touches a card that is freed.
StreamsMatchUse ==
  /\ card.driver # "digi" =>
       \A s \in Streams :
         card.run[s] => card.conn[s] \/ (card.driver \in BebobDrivers /\ ~card.run["tx"])
  /\ (\A k \in Counters : card.count[k] = 0) =>
       /\ \A s \in Streams : ~card.run[s] /\ ~card.conn[s]
       /\ ~card.session
  /\ card.warned /\ card.inited => \E k \in Counters : card.lost[k] > 0
  /\ card.ghost => card.driver = "maudio"

\* prepare of a PCM ends well only with its stream running, at the rate the PCM asked
\* for, and not with an error of before: each is found and the stream started anew.  One
\* that comes after the stream was found without an error (oxfw-stream.c:281,
\* dice-stream.c:211, digi00x-stream.c:312, bebob_stream.c:549), or was started, is not:
\* prepare returns 0 for a dead stream, and that its PCM was aborted is lost.  Two more
\* exceptions: capture_prepare() of Dice returns 0 for every failure, and OXFW changes
\* the rate for a playback under a running capture (oxfw-stream.c takes the stream to
\* the device as its own opposite).
PreparedRuns ==
  [][\A s \in Streams :
       LET prepared == card.pcm[s] # "prepared" /\ card'.pcm[s] = "prepared" IN
         prepared /\ <<card.driver, s>> # <<"dice", "tx">> =>
           /\ card'.run[s] /\ (card'.dead[s] => card'.missed[s])
           /\ <<card.driver, s>> # <<"oxfw", "tx">> => card'.rate[s] = card.want[s]]_card

\* A PCM that runs has a stream that moves it, or else is aborted: by the error that
\* ended the stream, or by the driver that stopped it.  An abort that came between
\* prepare and trigger is lost (missed).  BeBoB and Digi 00x stop streams for a
\* restart without an abort.
RunningPcmHasStream ==
  \A s \in Streams :
    /\ card.pcm[s] = "running"
    /\ card.driver \in {"oxfw", "dice"} /\ <<card.driver, s>> # <<"dice", "tx">>
    => card.missed[s] \/ (card.run[s] /\ ~card.dead[s])
===============================================================================
