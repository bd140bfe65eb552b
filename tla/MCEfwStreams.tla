---------------------------- MODULE MCEfwStreams -----------------------------
(* Instances of EfwStreams for TLC: a PCM device for each direction and a   *)
(* MIDI output, one error and one bus reset.                                *)
EXTENDS EfwStreams
=============================================================================
