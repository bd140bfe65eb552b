----------------------------- MODULE MCEfwHwdep ------------------------------
(* Instances of EfwHwdep for TLC: a ring of five quadlets and responses of *)
(* two and three make both pointers wrap in the middle of a response.      *)
EXTENDS EfwHwdep, TLC

CONSTANTS r1, r2, s1, s2

Symmetry == Permutations({r1, r2}) \cup Permutations({s1, s2})
=============================================================================
