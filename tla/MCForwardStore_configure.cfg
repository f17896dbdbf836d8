SPECIFICATION Spec
CONSTANTS
  Model = "cas-register"
  o1 = o1
  o2 = o2
  n1 = n1
  n2 = n2
  None = None
  Ops <- TwoOps
  Registers <- MCRegisters
  Requests <- MCRequests
  Nodes <- TwoNodes
  Leader = n1
  Promote = TRUE
  PromoteAfter = 2
  Configs <- AllConfigs
CHECK_DEADLOCK FALSE
INVARIANTS
  FailNeverApplied
  StaleOnlyByOverlap
PROPERTIES
  PromotedByStreak
  ImplementsAtomicStore
