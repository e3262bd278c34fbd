CONSTANTS
  N = 2
  Bits = 2
  ClockDiv = 2
  Words <- Words2
  MaxWrites = 3
SPECIFICATION FairSpec
INVARIANTS WholeWords OneSelected PacedWordLoaded
PROPERTIES NoSpuriousStart PacedWordShown
