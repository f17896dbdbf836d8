SPECIFICATION CommandSpec
CONSTANTS
  Model = "cas-register"
  Pending = 99
  Budgeted = TRUE
  ScaleCap = 64
  MCMaxTime = 2
  KeyOrder <- MCKeyOrder
  Recorded <- MCRecorded
  HandWritten <- MCHandWritten
  Expectations <- MCExpectations
CHECK_DEADLOCK FALSE
INVARIANTS
  Bracketed
  CounterexampleStands
  RecheckAgrees
  BlanksMeanNothing
