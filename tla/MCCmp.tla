------------------------------- MODULE MCCmp -------------------------------
(* Instances of Cmp for TLC: two channels are enough for this driver and   *)
(* another controller to hold one each, or to want the same.               *)
EXTENDS Cmp
=============================================================================
