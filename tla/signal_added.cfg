CONSTANTS
  Signals = {s1, s2}
  Offset = 1
  MaxSources = 2
CHECK_DEADLOCK FALSE
SPECIFICATION SignalsSpec
PROPERTIES AddedSignalIsShown
