\* One test at a time, every system call may fail, the process may be killed;
\* under fairness, and so without symmetry.
SPECIFICATION FairDrawSpec
CONSTANTS
  Threads = {t1}
  Handles = {h1, h2}
  INVALID_HANDLE_VALUE = INVALID_HANDLE_VALUE
  Regions = {r1, r2, r3}
  NULL = NULL
  NameLimit = 2
  FillCount = 2
  BlockCount = 2
  Selectable <- EveryTest
  MayFail <- CallsFail
INVARIANTS
  TypeOK
  NothingHeld
  FileRemoved
  TimersFollowTest
  StopIsPrompt
  StopIsFresh
PROPERTY TestEnds
