SPECIFICATION FairSpec
CONSTANTS
  RPlugs = {a, b}
  None = None
  MayDelete = {b}
  MayUnplug = {b}
INVARIANTS
  CopiesAccounted
  OneChunkAtATime
  ChunkHasReaders
PROPERTY
  ChunkMovesOn
\* A router whose plugs are gone has nothing to do.
CHECK_DEADLOCK FALSE
