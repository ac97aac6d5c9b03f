\* The queue has its size in main.c.  A client stops: deadlock is not checked.
SPECIFICATION FairSpec
CONSTANTS
  BUFFER_SIZE = 8
  Frame = {frame}
  NoFrame = none
  MaxFrames = 10
  MaxSignals = 2
INVARIANTS Safe NoUseAfterDispose
PROPERTIES FrameAccepted ServerGoneNoticed ShutdownWithFrames
CHECK_DEADLOCK FALSE
