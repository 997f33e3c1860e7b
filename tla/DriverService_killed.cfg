\* One session; programs are killed and the computer is started again.
SPECIFICATION Spec
CONSTANTS
  Programs = {p1, p2}
  Session <- OneSession
  Temp <- OneTemp
  MayFail <- Killed
INVARIANTS
  CleanExit
  RestartWorks
