\* Any event may make any call; interrupts arrive at any step.
SPECIFICATION Spec
CONSTANTS
  External = {e}
  BusyPollers = {b}
  EmptyHandlers = {q}
  IntHandlers = {s}
  None = None
  Signals = TRUE
  MaxQueue = 3
  MaxRequest = 3
INVARIANTS
  PickFindsEvent
  UndercountAtMostOne
\* The program may abort on a failed assert.
CHECK_DEADLOCK FALSE
