CONSTANTS
  FifoDepth = 2
  Lengths = {2}
  Ready = {TRUE}
  Sparse = FALSE
  MaxHits = 3
SPECIFICATION Spec
INVARIANTS RecordIntact
