CONSTANTS
  g1 = g1
  a = a
  b = b
  Graphs = {g1, g2}
  Signals = {a, b}
  Sinks <- GrowingGraphs
  None = None
  MaxSamples = 1
  MaxSettings = 1
  MaxChanges = 2
SPECIFICATION Spec
INVARIANTS TailDelivered PublishedIsCurrent OnlyStoppedIsDropped PollersAreCurrent
