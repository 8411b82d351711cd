SPECIFICATION Spec
CONSTANTS
  x1 = x1
  x2 = x2
  l1 = l1
  l2 = l2
  c = c
  Addon = {a1, a2}
  Release = {x1, x2, l1, l2, c}
  NameOf <- MCNameOf
  Requires <- MCRequires
  None = none
  MaxDepth = 4
  MaxFiles = 2
  MaxAttempts = 2
  MaxRequests = 3
  MaxFaults = 1
  MaxCrashes = 2
  MaxAgentCrashes = 1
SYMMETRY MCAddon
CHECK_DEADLOCK FALSE
INVARIANTS
  InventoryIsTrue
  SuccessIsWhole
  NoLitter
  NothingIsLeftOver
PROPERTIES
  ImplementsSlot
