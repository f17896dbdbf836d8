SPECIFICATION Spec
CONSTANTS
  Model = "register"
  Pending = 9
  IndeterminateLastVisits = 1
  DeadlineCheckEvery = 2
  MCMaxTime = 1
  MCShortest = 3
  MCShapes <- LimitShapes
  MCLongest = 3
  MCFew <- FewShapes
  Histories <- MCHistories
  Limits <- MCLimits
  OptionSets <- Limited
CHECK_DEADLOCK FALSE
INVARIANTS
  VerdictExact
  CulpritRefused
PROPERTIES
  Terminates
