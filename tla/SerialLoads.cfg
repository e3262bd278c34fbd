CONSTANTS
  N = 2
  Words <- SomeWords
  Uses <- SomeUses
  MaxWrites = 8
SPECIFICATION FairSpec
INVARIANTS WordArrives OneReadPerReset
PROPERTIES TransferEnds
