CONSTANTS
  Ports = {p1, p2}
  Period = 4
  Starts <- SomeStarts
  MaxPulses = 2
  MaxChanges = 1
  FifoDepth = 1
  Lengths = {2}
  Ready = {TRUE}
  Sparse = FALSE
  MaxHits = 2
  MaxDelay = 1
  Spacing = 20
SPECIFICATION Spec
INVARIANTS FallStamped SpacedHitsWhole
