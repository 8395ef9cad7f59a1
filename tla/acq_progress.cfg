CONSTANTS
  g1 = g1
  a = a
  b = b
  Graphs = {g1, g2}
  Signals = {a, b}
  Sinks <- DisjointGraphs
  None = None
  MaxSamples = 1
  MaxSettings = 0
  MaxChanges = 2
SPECIFICATION FairSpec
PROPERTIES ScheduledGraphRuns ShutdownCompletes
