SPECIFICATION Spec
CONSTANTS
  MaxAttempts = 2
  MaxRequests = 3
  MaxCrashes = 2
  MaxFaults = 1
CHECK_DEADLOCK FALSE
INVARIANTS
  TypeOK
  DeletedIsIdle
PROPERTIES
  DeletedStaysGone
  Converges
  ImplementsSlot
