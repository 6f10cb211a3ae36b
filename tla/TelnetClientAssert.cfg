CONSTANTS
  None = None
  UPlug = uplug
  SPlug = splug
  User = user
  Server = server
  Plugs = {uplug, splug, user, server}
  NotifyReadable = {uplug}
  NotifyWriteable = {splug}
  Requests <- MCRequests
  MaxFromUser = 2
  MaxFromServer = 2
  MaxResets = 1
  MaxUnplugs = 0
SPECIFICATION Spec
INVARIANTS EndsThere
\* The program may call nothing more.
CHECK_DEADLOCK FALSE
