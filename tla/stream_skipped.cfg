CONSTANTS
  Skips = TRUE
  MaxOutput = 3
  MaxSamples = 5
  MaxQueue = 3
  MaxSize = 3
  MaxTriggers = 2
SPECIFICATION StreamSpec
INVARIANTS NoTriggerIsLost
