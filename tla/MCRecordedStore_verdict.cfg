SPECIFICATION RecorderSpec
CONSTANTS
  Model = "cas-register"
  Pending = 99
  o1 = o1
  o2 = o2
  o3 = o3
  None = None
  Ops <- MCOps
  Registers <- MCRegisters
  Requests <- MCRequests
  Processes <- MCProcesses
  Granularity = 2
  MaxNow = 4
SYMMETRY Symmetric
CHECK_DEADLOCK FALSE
INVARIANTS
  NeverConvicted
