CONSTANTS
  Client = {alice, bob}
  None = None
  MaxActs = 5
  MaxLosses = 1
  RestBudgets <- MCRestBudgets
  CallBudgets <- MCCallBudgets
SPECIFICATION MCFairSpec
INVARIANTS TypeOK PartiesAgree KeysAgree
PROPERTIES Reachable CallEnds
CHECK_DEADLOCK FALSE
