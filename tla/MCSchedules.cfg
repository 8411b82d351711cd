SPECIFICATION Spec
CONSTANTS
  nightly = nightly
  reboots = reboots
  Schedule = {nightly, reboots}
  BackupOnly = {nightly}
  None = none
  NBackups = 5
  Interval = 1
  Retain = 1
  MaxAttempts = 2
  MaxEvents = 1
  MaxCrashes = 2
INVARIANTS
  RetentionHolds
  ArchivesHaveRows
PROPERTIES
  ImplementsSlot
  PruningSparesTheNewest
  DueIsClaimed
