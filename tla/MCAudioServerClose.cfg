\* The bounds are those of MCAudioServer.cfg.
SPECIFICATION Spec
CONSTANTS
  MaxPid = 3
  MaxStop = 2
INVARIANT AllChildrenTold
CHECK_DEADLOCK FALSE
