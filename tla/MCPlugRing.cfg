SPECIFICATION Spec
CONSTANTS
  None = None
  SideIn = SideIn
  SideOut = SideOut
  SideBiDir = SideBiDir
  OneSide = OneSide
  OtherSide = OtherSide
  EPlug = EPlug
  IPlug = IPlug
  Source = Source
  Sink = Sink
  Plugs = {SideIn, SideOut, SideBiDir, OneSide, OtherSide, EPlug, IPlug, Source, Sink}
  NotifyReadable = {SideIn, SideBiDir, EPlug}
  NotifyWriteable = {SideOut, SideBiDir, EPlug}
  MaxChunks = 2
  MaxPlugIns = 5
INVARIANTS
  NothingLeftToMove
  OneReaderOneWriter
  AllInOrder
  SplitterFollows
\* A program that has plugged, given and taken all it may is at its end.
CHECK_DEADLOCK FALSE
