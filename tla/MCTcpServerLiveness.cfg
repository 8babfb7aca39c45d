CONSTANTS
  Conns = {c1, c2}
  NumWorkers = 1
  Capacity = 1
  MaxSignals = 2
  SignalAt <- Serving
  InPieces = {c1}
  Silent = {}
  Leavers = {}
  Failing = {c1, c2}
  NoConn = NoConn
SPECIFICATION FairSpec
PROPERTIES
  StopTakesEffect
  ConnectionsEnd
