SPECIFICATION Spec
CONSTANTS
  ActionCheck <- Schema009
  MaxAttempts = 3
  MaxRequests = 3
  MaxCrashes = 0
  MaxFaults = 2
CHECK_DEADLOCK FALSE
PROPERTIES
  GraceIsReleased
