SPECIFICATION FairSweep
CONSTANTS
  N = 3
  SeedArgs <- MCSeedArgs
  Expectations <- MCExpectations
CHECK_DEADLOCK FALSE
INVARIANTS
  NoneLeftBehind
  ExitIsVerdict
  TallyIsTrue
PROPERTIES
  NoOrphans
  SweepEnds
