\* Polls between whole seconds: time in halves of a second, and no event at all.
SPECIFICATION Spec
CONSTANTS
  Unsaid = Unsaid
  Parts = 2
  Multipliers = {1, 2}
  MaxTime = 4
  MaxEvents = 0
CHECK_DEADLOCK FALSE
INVARIANT ReplayParity
