CONSTANTS
  Conns = {c1}
  NumWorkers = 1
  Capacity = 1
  MaxSignals = 0
  SignalAt <- NoPoints
  InPieces = {c1}
  Silent = {}
  Leavers = {c1}
  Failing = {c1}
  NoConn = NoConn
SPECIFICATION Spec
INVARIANT SocketErrorsSurvived
