\* The bounds are those of MCAudioStreamer.cfg.
SPECIFICATION Spec
CONSTANTS
  Client = {c}
  MaxStamp = 2
INVARIANT SentWhole
CHECK_DEADLOCK FALSE
