----------------------------- MODULE MCAmdtpOut ------------------------------
(* Instances of AmdtpOut for TLC: every rate in both modes, with MIDI ports *)
(* but for the modes in which the rate limit does not keep to its two bytes *)
(* (a packet has then fewer samples than amdtp.c:496 says).                 *)
EXTENDS AmdtpOut

MCSlowOrBlocking == (SFCs \X {TRUE}) \cup ({0, 1, 2} \X {FALSE})
MCFastNonblocking == {3, 4, 5, 6} \X {FALSE}
MCModes == { <<m[1], m[2], TRUE>> : m \in MCSlowOrBlocking }
             \cup { <<m[1], m[2], FALSE>> : m \in MCFastNonblocking }
=============================================================================
