SPECIFICATION Spec
CONSTANTS
  None = None
  LPlug = LPlug
  End = End
  Plugs = {LPlug, End}
  NotifyReadable = {}
  NotifyWriteable = {}
  Failures = {"socket", "accept", "family", "getfl"}
  MaxConnections = 3
  MaxFailures = 1
  MaxClears = 1
INVARIANTS
  ConnectionsOnce
  OneReadEvent
PROPERTY
  Served
\* A destroyed listener stays destroyed.
CHECK_DEADLOCK FALSE
