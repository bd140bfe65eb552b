------------------------------- MODULE MCFcp -------------------------------
(***************************************************************************)
(* Instances of Fcp for TLC: two callers of one unit, which may use the    *)
(* same opcode, so that a response meets several transactions.             *)
(***************************************************************************)
EXTENDS Fcp, TLC

CONSTANTS c1, c2, u1, u2, ctrl, stat

MCCallers == {c1, c2}
MCSameUnit == (c1 :> u1 @@ c2 :> u1)

MCOpsOf == (c1 :> {ctrl, stat} @@ c2 :> {ctrl})
MCOneOpsOf == (c1 :> {ctrl, stat})
MCOneCaller == {c1}
MCOneUnit == (c1 :> u1)
============================================================================
