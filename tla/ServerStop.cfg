SPECIFICATION FairSpec
CONSTANTS
  Conns = {c1}
  Ids = {i1}
  Acceptor = acceptor
  Stopper = stopper
  Disconnectors = {d1}
  MaxCallbacks = 0
  MaxStops = 1
  NoConn = NoConn
  NoId = NoId
  NoThread = NoThread
PROPERTIES StopEndsAccepting
\* A server may be stopped, and its peers may be silent for ever.
CHECK_DEADLOCK FALSE
