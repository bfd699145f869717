SPECIFICATION FairSpec

CONSTANTS
  Aps = {a1, a2}
  SortArgs = {0, 1}
  Faults = {"refuses", "stays"}

INVARIANTS
  TypeOK
  BusyHasOwner
  OneResultPending

PROPERTIES
  OkMeansJoined
  CurLeavesFlash
  BusyEnds

CHECK_DEADLOCK FALSE
