CONSTANTS
  FifoDepth = 2
  Lengths = {2}
  Ready = {TRUE, FALSE}
  Sparse = TRUE
  MaxHits = 4
SPECIFICATION FairSpec
PROPERTIES DeliversHits
