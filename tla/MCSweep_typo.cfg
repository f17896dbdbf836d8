SPECIFICATION SweepSpec
CONSTANTS
  N = 1
  SeedArgs <- OneSeed
  Expectations <- MCExpectations
CHECK_DEADLOCK FALSE
INVARIANTS
  OneIsContradiction
