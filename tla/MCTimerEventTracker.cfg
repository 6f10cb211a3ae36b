\* Half seconds, a week of two seconds, timers at most a week ahead.
SPECIFICATION Spec
CONSTANTS
  Events = {e1, e2}
  None = None
  Second = 2
  Week = 2
  Horizon = 3
  MaxClock = 13
INVARIANTS
  NextIsNext
  SameBaseInOrder
PROPERTIES
  PostsTheExpired
\* The clock stops at its bound.
CHECK_DEADLOCK FALSE
