\* The bounds are those of MCAudioClient.cfg.
SPECIFICATION FairSpec
CONSTANTS
  BUFFER_SIZE = 8
  Frame = {frame}
  NoFrame = none
  MaxFrames = 10
  MaxSignals = 2
PROPERTY ShutdownEnds
CHECK_DEADLOCK FALSE
