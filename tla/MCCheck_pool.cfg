SPECIFICATION Spec
CONSTANTS
  Model = "cas-register"
  Pending = 9
  KeyOrder <- ThreeKeyOrder
  Histories <- MCHistories
  Parallelism = {1, 4}
  Budgets = {TRUE, FALSE}
CHECK_DEADLOCK FALSE
INVARIANTS
  WholeHistoryJudged
  ScheduleFree
  NothingHidden
