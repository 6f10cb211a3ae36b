SPECIFICATION Spec
CONSTANTS
  None = None
  FPlug = FPlug
  End = End
  Plugs = {FPlug, End}
  NotifyReadable = {}
  NotifyWriteable = {}
  IsSocket = TRUE
  MaxBlock = 1
  MaxBytes = 2
  ChunkEOF = TRUE
  ChunkSizes = {2}
  MaxIn = 2
  MaxOut = 2
  MaxErrors = 1
  MaxResets = 1
INVARIANTS
  BytesOnce
  WokenForSomething
  GoesOn
\* Apart or at the end of its bytes nothing happens to the module any more.
CHECK_DEADLOCK FALSE
