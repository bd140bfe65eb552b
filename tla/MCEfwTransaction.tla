-------------------------- MODULE MCEfwTransaction ---------------------------
(* An instance of EfwTransaction for TLC: two units, one that is plugged in  *)
(* and one that may be, a caller of each and their devices on one bus.       *)
EXTENDS EfwTransaction, TLC

CONSTANTS c1, c2, u1, u2

MCUnitOf == (c1 :> u1 @@ c2 :> u2)
=============================================================================
