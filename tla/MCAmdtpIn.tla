------------------------------ MODULE MCAmdtpIn ------------------------------
(* One mode per family of devices, as their drivers set up the in-stream.   *)
(* The sizes of the PCM buffers are the smallest the constraints allow that *)
(* make packets end at, before and across the end of the buffer; the last   *)
(* one is refused by them.                                                  *)
EXTENDS AmdtpIn

Mode(blocks, flags, dbs, interval, double, buffer, period, maxMissed) ==
  [blocks |-> blocks, flags |-> flags, dbs |-> dbs, interval |-> interval,
   double |-> double, buffer |-> buffer, period |-> period,
   maxMissed |-> maxMissed]

Fireworks == {"BLOCKING", "DBC_IS_END_EVENT", "SKIP_DBC_ZERO_CHECK"}

MCModes == {
  Mode({0, 8}, Fireworks, 2, 0, FALSE, 64, 32, 24),
  Mode({0, 8}, Fireworks \cup {"WRONG_DBS"}, 1, 0, FALSE, 64, 32, 24),
  Mode({0, 16}, Fireworks, 2, 8, FALSE, 64, 32, 24),
  Mode({0, 8}, {"BLOCKING", "SKIP_INIT_DBC_CHECK"}, 2, 0, FALSE, 64, 32, 24),
  Mode({0, 16}, {"BLOCKING", "SKIP_INIT_DBC_CHECK", "EMPTY_HAS_WRONG_DBC"},
       2, 0, FALSE, 64, 32, 272),
  Mode({5, 6}, {"SKIP_INIT_DBC_CHECK"}, 2, 0, FALSE, 12, 6, 6),
  Mode({0, 16}, {"BLOCKING"}, 2, 0, TRUE, 64, 32, 272),
  Mode({0, 16}, {"BLOCKING"}, 2, 0, TRUE, 96, 96, 48),
  Mode({0, 16}, {"BLOCKING"}, 2, 0, TRUE, 48, 48, 16)}
=============================================================================
