\* Two tests at once, under fairness.
SPECIFICATION FairSpec
CONSTANTS
  Threads = {t1, t2}
  Handles = {h1, h2}
  INVALID_HANDLE_VALUE = INVALID_HANDLE_VALUE
  Regions = {r1, r2}
  NULL = NULL
  NameLimit = 1
  FillCount = 1
  BlockCount = 1
  Selectable = {"random write"}
  MayFail <- NoFailure
PROPERTY StopDrains
