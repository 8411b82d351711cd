SPECIFICATION Spec
CONSTANTS
  Job = {j1, j2, j3}
  Server = {s1, s2}
  None = none
  Stamp <- MCStamp
  MaxAttempts = 3
INVARIANTS
  TypeOK
  OneActivePerServer
PROPERTIES
  OutcomeIsFinal
  ImplementsSlot
  QueuedJobResolves
