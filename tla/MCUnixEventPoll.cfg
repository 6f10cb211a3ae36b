SPECIFICATION FairSpec
CONSTANTS
  Registrations <- MCRegistrations
  Conds <- MCConds
  Signals = {1, 2}
  OtherSignals = {1}
  SignalEvents = {s}
  TimerEvent = t
  None = None
  MaxPosts = 1
INVARIANTS
  OneShot
  SleepsOnlyIdle
PROPERTIES
  SignalPosted
  ReadyIsPosted
  TimerPosted
