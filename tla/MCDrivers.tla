------------------------------ MODULE MCDrivers ------------------------------
(* Instance of Drivers for TLC. *)
EXTENDS Drivers, TLC

Unit(driver, dirs, ports, master) ==
  [driver |-> driver, dirs |-> dirs, ports |-> ports, master |-> master]

\* Every driver, with one MIDI substream beside its PCM substreams where that adds
\* something.
MCPlug ==
  {Unit("oxfw", {"rx"}, {"rx"}, "tx"), Unit("oxfw", Streams, {}, "tx"),
   Unit("bebob", Streams, {"rx"}, "tx"), Unit("maudio", Streams, {}, "tx"),
   Unit("digi", Streams, {"tx"}, "tx"),
   Unit("dice", Streams, {"rx"}, "tx"), Unit("dice", Streams, {}, "rx")}

\* What no step reads any more does not tell states apart: the completion when no thread
\* is about to wait for it, and a lost abort of the drivers for which only the step of
\* prepare itself is looked at (RunningPcmHasStream).
MCView ==
  [card EXCEPT !.completed = @ /\ card.waiting # {},
               !.missed = IF card.driver \in {"oxfw", "dice"} THEN @
                          ELSE [s \in Streams |-> FALSE]]

\* No rate is treated apart.
MCSymmetry == Permutations(Rates)
===============================================================================
