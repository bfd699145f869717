SPECIFICATION FairSpec

CONSTANTS
  MaxLink = 0
  MaxServer = 1
  SendBufferSize = 2
  CounterWidth = 4
  Ports = {}
  Sizes = {0}
  LinkArgs = {0}
  MaxConns = {}
  Timeouts = {}
  RecvModes = {1}
  InitialTimeout = 1
  OutOfMemory = FALSE
  MaxRx = 2
  MaxIdle = 0

PROPERTIES
  DataNotIgnored
