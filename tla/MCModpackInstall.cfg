SPECIFICATION Spec
CONSTANTS
  File = {f1, f2}
  Plain = plain
  None = none
  MaxAttempts = 2
  MaxRequests = 2
  MaxFaults = 1
  MaxCrashes = 2
  MaxDeadlines = 1
  MaxDeletes = 1
SYMMETRY MCFiles
CHECK_DEADLOCK FALSE
INVARIANTS
  RowsAgree
  AllOrNothing
  WorldIsKept
PROPERTIES
  ImplementsSlot
