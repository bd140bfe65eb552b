-------------------------- MODULE MCDiceTransaction --------------------------
(* Instance of DiceTransaction for TLC.                                    *)
EXTENDS DiceTransaction

\* Nodes and rates are interchangeable, so that one of each is enough to start with;
\* from generation 0 two bus resets reach the one that an owner_generation of -1 stands
\* for.
MCInit == Init /\ bus.gen = 0 /\ bus.node = NoReg.node /\ device.rate = NoCall.rate
MCSpec == MCInit /\ [][Next]_vars /\ Fairness
===============================================================================
