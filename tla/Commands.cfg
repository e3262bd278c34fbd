CONSTANTS
  Commands <- SomeCommands
  SndBuf = 16
  Window = 24
  Chains = FALSE
  FastEvery = 1
  SlowEvery = 1
  Cuts = {2, 4, 6, 8, 10, 12}
  MaxCommands = 2
  MaxSegments = 2
SPECIFICATION FairSpec
INVARIANTS TypeOK EffectsAreCommanded AnswersPair AnswerHasRoom
PROPERTIES SpinEndsWithTransfer CommandAnswered TickServed
