SPECIFICATION FairSpec
CONSTANTS
  Conns = {c1, c2}
  Ids = {i1}
  Acceptor = acceptor
  Stopper = stopper
  Disconnectors = {d1}
  MaxCallbacks = 1
  MaxStops = 2
  NoConn = NoConn
  NoId = NoId
  NoThread = NoThread
INVARIANTS TypeOK ClientsOnlyWhileServed UndefinedNeedsStop OnlyStopCloses
PROPERTIES DisconnectReturns AcceptorReturns
\* A server may be stopped, and its peers may be silent for ever.
CHECK_DEADLOCK FALSE
