CONSTANTS
  s1 = s1
  s2 = s2
  h1 = h1
  h2 = h2
  a1 = a1
  a2 = a2
  Session <- MCSession
  Handler <- MCHandler
  Address <- MCAddress
  Monitor = monitor
  Reader = reader
  None = None
  HEART_BEAT_TIME_OUT = 4
  HEART_BEAT_PERIOD = 1
  SESSION_START_TIME = 1
  ERROR_COUNT_MAXIMUM = 0
  Errors = {1}
  LOOP = 1
  DELAY = 1
  Budgets <- MCBudgets
SPECIFICATION MCFairSpec
INVARIANTS TypeOK ConnectedIsKnown OthersAreUnknown HeardIsKept
PROPERTIES FaultyIsClosedInTime
CHECK_DEADLOCK FALSE
