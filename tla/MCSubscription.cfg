SPECIFICATION Spec
CONSTANTS
  ActionCheck <- Schema006
  MaxAttempts = 3
  MaxRequests = 3
  MaxCrashes = 3
  MaxFaults = 2
CHECK_DEADLOCK FALSE
INVARIANTS
  PortFollowsStatus
PROPERTIES
  ImplementsSlot
  GraceIsNotUndone
  ProvisionIsAnswered
  GraceIsReleased
