SPECIFICATION Spec
CONSTANTS
  Rates = {r1, r2}
  AnyRate = any
  MaxCount = 2
  MaxLost = 1
  Plug <- MCPlug
SYMMETRY MCSymmetry
VIEW MCView
INVARIANTS CountsUsers StreamsMatchUse RunningPcmHasStream
PROPERTIES PreparedRuns
CHECK_DEADLOCK FALSE
