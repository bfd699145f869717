SPECIFICATION Spec

CONSTANTS
  MaxLink = 1
  MaxServer = 0
  SendBufferSize = 2
  CounterWidth = 2
  Ports = {1}
  Sizes = {0, 2, 3}
  LinkArgs = {0, 1}
  MaxConns = {}
  Timeouts = {}
  RecvModes = {0, 1}
  InitialTimeout = 1
  OutOfMemory = TRUE
  MaxRx = 1
  MaxIdle = 2

INVARIANTS
  TypeOK
  SendTargetLive
  EmptySlotClean

PROPERTIES
  SeenDataKept
