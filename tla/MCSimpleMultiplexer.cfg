SPECIFICATION Spec
CONSTANTS
  None = None
  s = s
  a = a
  b = b
  es = es
  ea = ea
  eb = eb
  SinglePlug = s
  MultiPlugs = {a, b}
  Peer <- EndOf
  Plugs <- Everything
  NotifyReadable = {a, b}
  NotifyWriteable = {s, a, b}
  MayDelete = {b}
  MayUnplug = {s, b}
  MaxChunks <- MCChunks
INVARIANTS
  CountsRight
  AssertsHold
  ChunkHasReader
  NoneTwice
\* A program whose ends have nothing more to give is at its end.
CHECK_DEADLOCK FALSE
