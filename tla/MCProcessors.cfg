CONSTANTS
  None = None
  Junk = Junk
  UMax = 63
  IsChopChar <- MCIsChopChar
  BufSize = 2
  FirstSize = 3
  ChopStreams <- MCChopStreams
  TelnetStreams <- MCTelnetStreams
  XMLStreams <- MCXMLStreams
  Base = 4
  Near = 3
  NearShare = 2
  FarShare = 4
  BufferSizes = {0, 2, 30}
  ValueStreams <- MCValueStreams
  White = {" "}
  NameStart = {"n"}
  NameBody = {"n", "1", "-"}
  NameSize = 3
  Commands = {"NOP"}
  Negotiations = {"WILL"}
  MaxSuboptSize = 4
  MaxChunks = 3
SPECIFICATION Spec
INVARIANTS NothingStuck Chopped Parses IteratorsRight RoundTrip Lexed
\* A stream that has been read is at its end.
CHECK_DEADLOCK FALSE
