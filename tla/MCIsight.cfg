SPECIFICATION Spec
CONSTANTS
  MaxFrames = 1
  PeriodSize = 1
  BufferSize = 3
  Total = 4
  QueueLength = 1
  MaxGap = 3
  MaxCounter = 2
INVARIANTS PointerInStep RunningHasStream FreedIsQuiet
CHECK_DEADLOCK FALSE
