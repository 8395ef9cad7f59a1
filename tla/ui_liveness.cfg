CONSTANTS
  UI = UI
  Tasks = {t1, t2}
  MaxRequests = 2
  MaxProgress = 2
  Addresses = {a1, a2}
  RemoteNames = {r1}
  LocalNames = {f1}
  Nowhere = Nowhere
  MaxLoads = 3
  MaxEvents = 2
  Skips = FALSE
  MaxOutput = 3
  MaxSamples = 4
  MaxQueue = 3
  MaxSize = 3
  MaxTriggers = 2
CHECK_DEADLOCK FALSE
SPECIFICATION FairSpec
INVARIANTS TypeOK DashboardPointersAreCurrent
PROPERTIES
  DestructionIsSafe GraphGetsOn
  FollowedChosenIsShown
  ImplementsLosslessStream SamplesAreWritten
