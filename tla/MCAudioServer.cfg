\* The listener and two clients.  The server may end: deadlock is not checked.
SPECIFICATION FairSpec
CONSTANTS
  MaxPid = 3
  MaxStop = 2
INVARIANTS Safe WaitNeverBlocks
PROPERTY ShutdownEnds
CHECK_DEADLOCK FALSE
