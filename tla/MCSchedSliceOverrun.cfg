\* The key q alone is enough.
SPECIFICATION Spec
CONSTANTS
  NUser = 3
  Keyed = {1, 3}
  Sleepers = {3}
  SleepTimes = {1, 3}
  MaxPriority = 3
  TickModulus = 6
  Keys = {"q"}
INVARIANT SliceWithinRange
