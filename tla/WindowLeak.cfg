CONSTANTS
  Commands <- SomeCommands
  SndBuf = 16
  Window = 24
  Chains = TRUE
  FastEvery = 1
  SlowEvery = 2
  Cuts = {4, 8, 12}
  MaxCommands = 2
  MaxSegments = 3
SPECIFICATION Spec
INVARIANTS WindowReturned
