SPECIFICATION CapacitySpec
CONSTANTS
  Client = {c1, c2, c3, c4}
  s1 = s1
  s2 = s2
  s3 = s3
  s4 = s4
  Server = {s1, s2, s3, s4}
  Key = {k1, k2}
  None = none
  Port <- MCPort
  MemoryOf <- MCMemoryOf
  DiskOf <- MCDiskOf
  NodeMemory = 3
  NodeDisk = 3
SYMMETRY MCSymmetry
CHECK_DEADLOCK FALSE
INVARIANTS
  CapacityTypeOK
  AddressesAreSound
PROPERTIES
  SaleFits
  RepeatIsRecognised
