CONSTANTS
  W = 4
  ArbHold = 2
  Bits = {"cal", "trig", "arb", "win", "ext1"}
  Widths = {0, 2}
  Gaps = {0, 1}
  Waits = {0, 2}
  WindowWidths = {0, 3}
  MaxHold = 8
  Together = 2
SPECIFICATION PulseSpec
INVARIANTS PulseOrder ProgrammedLengths
PROPERTIES NoShortPulse RisesAtTransition
