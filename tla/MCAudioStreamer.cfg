\* The children do not affect each other: one client is enough.  The listener
\* may end, and then everybody else waits: deadlock is not checked.
SPECIFICATION FairSpec
CONSTANTS
  Client = {c}
  MaxStamp = 2
INVARIANTS Safe SentOnce NothingStale
PROPERTIES ChildEnds NotLeftBehind
CHECK_DEADLOCK FALSE
