SPECIFICATION Spec
CONSTANTS
  r1 = r1
  c1 = c1
  c2 = c2
  Conns = {r1, c1, c2}
  Readers = {r1}
  Acceptors = 2
  Workers = 2
  Capacity = 1
SYMMETRY Symmetry
INVARIANTS
  TypeOK
  PeakExact
  PeakShown
  OutcomesShown
  LatencyShown
  GaugesInRange
PROPERTIES
  TotalsGrow
