\* The programs stop: when they end, or when the bound on the words, children or
\* connections is reached.
CONSTANTS
  Child = {1, 2, 3, 4}
  n_childs = 2
  MaxPid = 3
  Letter = {"a", "e", "x"}
  Word <- MCWord
  END <- MCEND
  Zero = "0"
  Unset = "x"
  Block = 3
  MaxWords = 4
  ARRAY_SIZE = 3
  Client = {"c1", "c2", "c3"}
  Nobody = "nobody"
  FdMax = 2
  ProcMax = 4
  Backlog = 2
  Half = 8
  SAMPLE_N = 2
  FILTER_SIZE = 2
  InputSample <- MCInputSample
  InputTap <- MCInputTap
  InputBeyond <- MCInputBeyond
SPECIFICATION Spec
INVARIANTS KeeperSafe ListSafe WordsSafe SearchesSafe ServersSafe FilterSafe
PROPERTY ProgramsProgress
CHECK_DEADLOCK FALSE
