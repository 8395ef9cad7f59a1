CONSTANTS
  old = old
  new = new
  c1 = c1
  c2 = c2
  Sinks = {old, new}
  Name <- BlockName
  SignalName <- NameOfSignal
  Address <- AddressOf
  Charts = {c1, c2}
  Kind <- KindOf
  FirstChart = c2
  Default = 1
  DefaultHistory = 2
  Sizes = {1}
  MaxEvents = 2
CHECK_DEADLOCK FALSE
SPECIFICATION FairSpec
INVARIANTS TypeOK ReadsStayInside RegisteredIsAlive SettledBuffersFit
PROPERTIES RequestIsServed NamedSinkIsHeld
