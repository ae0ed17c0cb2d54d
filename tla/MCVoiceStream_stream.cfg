CONSTANTS
  TRANSMISSION_COUNT = 2
  TCP_TO_SERVER_INDEX = 0
  LIST_SIZE = 1
  QUEUE_SIZE = 2
  None = None
  Budgets <- MCBudgets
SPECIFICATION MCSpec
INVARIANTS TypeOK PlaysInOrderOnce ClientsLoseNothing NoneOfFormer
CHECK_DEADLOCK FALSE
