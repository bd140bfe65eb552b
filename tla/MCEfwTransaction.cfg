SPECIFICATION Spec
CONSTANTS
  c1 = c1
  c2 = c2
  u1 = u1
  u2 = u2
  Units = {u1, u2}
  Plugged = {u1}
  Nodes = {1, 2}
  Callers = {c1, c2}
  UnitOf <- MCUnitOf
  UserMax = 0
  SeqMax = 5
  Reached = {2}
  ERROR_RETRIES = 2
  MaxGen = 1
  MaxCalls = 1
  MaxUser = 1
  MaxWire = 2
INVARIANTS AnswersReachSenders
PROPERTIES TransactionsReturn
CHECK_DEADLOCK FALSE
