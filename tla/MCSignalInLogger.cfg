CONSTANTS
  Conns = {c1}
  NumWorkers = 1
  Capacity = 1
  MaxSignals = 1
  SignalAt <- LogPoints
  InPieces = {c1}
  Silent = {}
  Leavers = {}
  Failing = {c1}
  NoConn = NoConn
SPECIFICATION FairSpec
PROPERTY StopTakesEffect
