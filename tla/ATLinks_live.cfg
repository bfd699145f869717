SPECIFICATION FairSpec

CONSTANTS
  MaxLink = 1
  MaxServer = 0
  SendBufferSize = 1
  CounterWidth = 2
  Ports = {1}
  Sizes = {1}
  LinkArgs = {0, 1}
  MaxConns = {}
  Timeouts = {0}
  RecvModes = {}
  InitialTimeout = 1
  OutOfMemory = FALSE
  MaxRx = 1
  MaxIdle = 2

PROPERTIES
  GoneLinkReaped
  QuietServerLinkClosed
  ActiveForwards
