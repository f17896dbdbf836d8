SPECIFICATION FairSpec
CONSTANTS
  Configs <- MCConfigs
  CutFor = {3, 6}
  Pause = {2, 5}
  Shortest = 2
  Longest = 6
  ClientIds <- Two
  Registers = 2
CHECK_DEADLOCK FALSE
INVARIANTS
  EndsWhole
  SomeServe
  FinalReadsUndisturbed
  ProcessesAreSequential
PROPERTIES
  RunReturns
