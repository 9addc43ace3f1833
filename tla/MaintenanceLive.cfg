SPECIFICATION LiveSpec
CONSTANTS
  p1 = p1  p2 = p2  p3 = p3  n1 = n1
  Procs <- ThreeProcs
  MaxOwnerFiles = 4
  MaxAttempts = 3
  MaxFaults = 1
CHECK_DEADLOCK FALSE
INVARIANTS StandingRecordIsKept
PROPERTIES ImplementsProcessOwner IndexCatchesUp OwnerIsReleased SteadyVectorsCatchUp
