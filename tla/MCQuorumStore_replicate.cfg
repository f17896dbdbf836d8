SPECIFICATION FairSpec
CONSTANTS
  Model = "cas-register"
  Nodes = {1, 2}
  Registers = {"k"}
  Ops = {1, 2}
  Requests <- MCRequests
  Synchronous = {TRUE, FALSE}
  Configs <- MCConfigs
  Closable = {1}
  Clock = {0}
  FanoutQueue = 1
  Admins = {1, 2}
  MaxRequests = 3
  None = None
CHECK_DEADLOCK FALSE
INVARIANTS
  ConvergesUnlessLost
  SyncReaches
  NothingLeftRunning
PROPERTIES
  ClosedQueuesOnlyDrain
  EverythingReturns
