------------------------------- MODULE MCIsight -------------------------------
(* Instance of Isight for TLC.                                             *)
EXTENDS Isight
===============================================================================
