SPECIFICATION Spec
CONSTANTS
  Backup = {b1, b2}
  None = none
  MaxAttempts = 2
  MaxWorlds = 2
  MaxRequests = 2
  MaxMishaps = 1
SYMMETRY MCBackups
CHECK_DEADLOCK FALSE
INVARIANTS
  SnapshotKeepsTheWorld
