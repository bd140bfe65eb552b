SPECIFICATION HwdepSpec
CONSTANTS
  r1 = r1
  r2 = r2
  s1 = s1
  s2 = s2
  Readers = {r1, r2}
  Substreams = {s1, s2}
  RingSize = 5
  HeaderLen = 2
  ResponseLens = {2, 3}
  ReadSizes = {1, 2, 5}
  PayloadLen = 4
  Ids = 3
  MaxQueues = 3
SYMMETRY Symmetry
INVARIANTS LockExclusive StatusReported RingHoldsUnread NoMissedWakeup
CHECK_DEADLOCK FALSE
