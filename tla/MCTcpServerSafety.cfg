CONSTANTS
  Conns = {c1, c2, c3}
  NumWorkers = 1
  Capacity = 1
  MaxSignals = 1
  SignalAt <- Anywhere
  InPieces = {c1}
  Silent = {c1}
  Leavers = {c1}
  Failing = {c1}
  NoConn = NoConn
SYMMETRY ConnSymmetry
SPECIFICATION Spec
INVARIANTS
  TypeOK
  OneHolder
  AllReleased
  PoolOutlivesTasks
  ConnectionGauge
  OutcomesMatchResponses
  Answered
