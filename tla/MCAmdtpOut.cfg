SPECIFICATION OutSpec
CONSTANTS
  OutModes <- MCModes
INVARIANTS RateIsExact TimestampIsNearest MidiFifoKept
