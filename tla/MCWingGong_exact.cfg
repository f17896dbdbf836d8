SPECIFICATION Spec
CONSTANTS
  Model = "cas-register"
  Pending = 9
  IndeterminateLastVisits = 32
  DeadlineCheckEvery = 2
  MCMaxTime = 2
  MCShortest = 3
  MCShapes <- AllShapes
  MCLongest = 4
  MCFew <- FewShapes
  Histories <- MCHistories
  Limits <- MCLimits
  OptionSets <- Unlimited
CHECK_DEADLOCK FALSE
INVARIANTS
  FramesReplay
  ListIntact
  VerdictExact
  ReferenceExact
PROPERTIES
  ImplementsSearch
