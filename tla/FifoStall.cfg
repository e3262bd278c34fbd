CONSTANTS
  FifoDepth = 2
  Lengths = {0, 1, 2}
  Ready = {TRUE, FALSE}
  Sparse = FALSE
  MaxHits = 3
SPECIFICATION FairSpec
INVARIANTS ReadsMatchRecords Framing PacketBound HitOrder LowWordsComplete
PROPERTIES EveryHitRead
