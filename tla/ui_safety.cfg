CONSTANTS
  Workers = {w1, w2}
  UI = UI
  MinPeriod = 1
  MaxPeriod = 3
  Fingers = {f1, f2}
  Modulus = 16
  Lossy = TRUE
  MaxTouches = 3
  Blocks = {b1, b2, b3}
  Subgraphs = {b1}
  None = None
  MaxPorts = 2
  MaxVersion = 1
  MaxEdits = 4
  c1 = c1
  c2 = c2
  ControlBlocks = {c1, c2}
  BlockName <- OwnName
  BlockSettings <- SomeSettings
  ControlType <- TwoTypes
  Unbound = Unbound
  MaxWindows = 2
  MaxBlockEdits = 3
  KeypadDigits = {"9"}
  KeypadOperators = {"+", "*", "^"}
  MaxText = 5
  MaxOpen = 2
  DockWindows = {d1, d2, d3}
  CellColumns = 3
  CellRows = 2
  PaneSize = 6
  MaxChanges = 2
  Clients = {e1, e2}
  n1 = n1
  n2 = n2
  n3 = n3
  Nodes = {n1, n2, n3}
  Spots = {s1, s2}
  Corner = Corner
  Unplaced = Unplaced
  FollowedGraphs <- CycleBesideEdge
  MaxMoves = 2
  Groups = {g1, g2}
  Plain = {p1}
  RootGraph = RootGraph
  RootScheduler = RootScheduler
  Nil = Nil
  MaxEditors = 3
  MaxDeletions = 1
  sa = sa
  da = da
  ChartSignals = {sa, da}
  StreamSignals = {sa}
  FileCharts <- SomeCharts
  MaxPlots = 3
  MaxCharts = 4
  MaxGestures = 4
  SpectrumBins = {1}
  LogColumns = 3
  Depths = {2, 4}
  MeshDim = 2
  MaxSpectra = 4
  MaxAdjustments = 2
  NumSinks = 2
  FrameBins = {1, 2}
  YRanges = {"low", "high"}
  MaxFrames = 3
  MaxSettings = 2
CHECK_DEADLOCK FALSE
SPECIFICATION UiSpec
INVARIANTS
  TypeOK
  PacerIsOnTime EachFingerHasItsIndex GraphIsFollowed
  ControlsAreConsistent 
PROPERTIES
  LayoutIsRight BlocksAreInPlace EditsReachTheirGraph ChartsAreRight
  HistoryIsShown 
