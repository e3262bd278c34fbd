CONSTANTS
  SiliconVersions = {0, 1, 2, 3}
  PollTime = 1
  DelayTime = 2
  MaxCalls = 2
SPECIFICATION FairSpec
INVARIANTS PllUsedLocked ReadyOnSuccess SlcrLeftOpen
PROPERTIES DdrReleasedReady CallReturns
CHECK_DEADLOCK FALSE
