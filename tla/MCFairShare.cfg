\* Three user tasks, priorities up to three and a slice counter that wraps at
\* six; the first and the third task have keys, the third one sleeps.
SPECIFICATION FairWaitSpec
CONSTANTS
  NUser = 3
  Keyed = {1, 3}
  Sleepers = {3}
  SleepTimes = {1, 5}
  MaxPriority = 3
  TickModulus = 6
  Keys = {"ctl", "add", "q", "w"}
INVARIANTS Safe SlicesRespected WaitBounded
PROPERTIES EveryTaskRuns RemovedStaysOut
