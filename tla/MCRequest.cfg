CONSTANTS
  Requests <- AllRequests
  MaxHeaderSize = 3
  MaxBodySize = 2
  BufferSize = 2
SPECIFICATION FairSpec
INVARIANTS
  TypeOK
  BoundedMemory
  PiecesDoNotMatter
  AcceptedIsComplete
PROPERTY ReadingEnds
