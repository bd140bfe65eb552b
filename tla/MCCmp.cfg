SPECIFICATION FairSpec
CONSTANTS
  Channels = {0, 1}
  MaxGen = 2
  MaxOther = 2
INVARIANTS ConnectionIsReal NoChannelLeak PlugIsKnown
PROPERTIES UpdateCatchesUp EveryCallReturns IsPlugConnection
CHECK_DEADLOCK FALSE
