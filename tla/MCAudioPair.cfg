\* Two places in the shared memory, a ring and a queue of three frames, and sums
\* of SEM_UNDO that reach their limit before the sixth frame.  The processes end,
\* and nothing is captured after the last frame: deadlock is not checked.
SPECIFICATION FairSpec
CONSTANTS
  N = 2
  UndoMax = 5
  MaxFrame = 6
  MaxStop = 1
  BufferSize = 3
  QueueSize = 3
  EntryLen = 2
INVARIANTS Safe PlacesAccounted NoSharedPlace AloneIsWhole
PROPERTIES TakenInOrder PlayedInOrder FramesArrive
CHECK_DEADLOCK FALSE
