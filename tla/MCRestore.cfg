SPECIFICATION Spec
CONSTANTS
  Backup = {b1, b2, b3}
  None = none
  MaxAttempts = 2
  MaxWorlds = 2
  MaxRequests = 3
  MaxMishaps = 2
SYMMETRY MCBackups
CHECK_DEADLOCK FALSE
INVARIANTS
  NeverMixed
  SnapshotFirst
  RestoreDelivers
PROPERTIES
  ImplementsSlot
