SPECIFICATION FairSpec
CONSTANTS
  c1 = c1
  c2 = c2
  u1 = u1
  u2 = u2
  ctrl = ctrl
  stat = stat
  Callers <- MCOneCaller
  Units = {u1}
  Ops = {ctrl, stat}
  ControlOps = {ctrl}
  OpsOf <- MCOneOpsOf
  UnitOf <- MCOneUnit
  ERROR_RETRIES = 2
  MaxGen = 1
  MaxInterim = 0
  MaxCalls = 1
PROPERTIES CallReturns
CHECK_DEADLOCK FALSE
