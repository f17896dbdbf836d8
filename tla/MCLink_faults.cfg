SPECIFICATION FairSpec
CONSTANTS
  Conns = {c1}
  Chunks = 2
  Faults <- AllFaults
  MaxSets = 3
  None = None
CHECK_DEADLOCK FALSE
INVARIANTS
  WholeUnlessHarmed
  DropLeaksOne
  CloseJoinsAll
PROPERTIES
  CutIsComplete
  CloseEnds
