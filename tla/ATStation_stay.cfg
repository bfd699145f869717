SPECIFICATION Spec

CONSTANTS
  Aps = {a1, a2}
  SortArgs = {0}
  Faults = {"stays"}

PROPERTIES
  CurNeverWritesFlash
