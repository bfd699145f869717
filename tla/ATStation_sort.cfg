SPECIFICATION Spec

CONSTANTS
  Aps = {a1, a2}
  SortArgs = {0, 2}
  Faults = {"stays"}

INVARIANTS
  BusyHasOwner
