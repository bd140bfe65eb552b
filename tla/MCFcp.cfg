SPECIFICATION Spec
CONSTANTS
  c1 = c1
  c2 = c2
  u1 = u1
  u2 = u2
  ctrl = ctrl
  stat = stat
  Callers <- MCCallers
  Units = {u1}
  Ops = {ctrl, stat}
  ControlOps = {ctrl}
  OpsOf <- MCOpsOf
  UnitOf <- MCSameUnit
  ERROR_RETRIES = 2
  MaxGen = 1
  MaxInterim = 1
  MaxCalls = 1
INVARIANTS LinkedIsAlive AnswerIsMine NoInterimResult
PROPERTIES CompletionKept
CHECK_DEADLOCK FALSE
