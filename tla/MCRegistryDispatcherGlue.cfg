\* Two external events, no signals; a call asks for up to three events.
SPECIFICATION GlueFairSpec
CONSTANTS
  External = {e1, e2}
  emptyev = emptyev
  busyev = busyev
  BusyPollers = {busyev}
  EmptyHandlers = {emptyev}
  IntHandlers = {}
  None = None
  Signals = FALSE
  MaxQueue = 4
  MaxRequest = 3
INVARIANTS
  CheckAssertHolds
  InternalAtRecordedPlace
  OneBusyEvent
PROPERTIES
  IsEventQueue
  WorldPolled
