SPECIFICATION MCSpec
CONSTANTS
  Rates = {r1, r2}
  Nodes = {n1, n2}
  MaxGen = 2
  Retries = 1
  MaxResets = 2
  MaxNotices = 1
INVARIANTS EnableIsKnown ClockIsAsked OwnerIsUs
PROPERTIES CallsReturn
CHECK_DEADLOCK FALSE
