CONSTANTS
  g1 = g1
  g2 = g2
  g3 = g3
  Graphs = {g1, g2, g3}
  InitialGraph = g1
  Invalid = Invalid
  None = None
  Entries <- MCEntries
  DnsEntry <- MCDnsEntry
  SinkEntries <- MCSinkEntries
  MaxRequests = 2
  MaxChanges = 1
CHECK_DEADLOCK FALSE
SPECIFICATION FairSpec
INVARIANTS StoredGraphRunsOrWill
PROPERTIES DnsFollows AcceptedGraphRuns
