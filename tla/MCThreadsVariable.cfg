SPECIFICATION Spec
CONSTANTS
  PortBits = 16
  IntBits = 20
  SizeBits = 24
  HardwareConcurrency = 0
  Number <- MCNumber
  Inputs <- MCInputs
  Requests <- MCRequests
  Tree <- MCTree
  Volatile <- MCVolatile
  RootOf <- MCRootOf
INVARIANTS
  EnvironmentHonoured
