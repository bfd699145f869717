SPECIFICATION Spec

CONSTANTS
  MaxLink = 1
  MaxServer = 1
  SendBufferSize = 1
  CounterWidth = 2
  Ports = {1, 2}
  Sizes = {1}
  LinkArgs = {0, 1}
  MaxConns = {1, 2}
  Timeouts = {}
  RecvModes = {}
  InitialTimeout = 0
  OutOfMemory = FALSE
  MaxRx = 1
  MaxIdle = 0

INVARIANTS
  SingleLinkMode
  FreeLinkIsFree
  ServerCountExact
  DistinctServers

PROPERTIES
  AcceptWithinLimit
  ImplementsLinkTable
