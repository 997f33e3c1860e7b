\* Two sessions; every call may be refused, programs are killed; under
\* fairness.
SPECIFICATION FairSpec
CONSTANTS
  Programs = {p1, p2}
  Session <- OwnSession
  Temp <- OwnTemp
  MayFail <- Everything
INVARIANTS
  TypeOK
  AllDownClean
  DeviceUsable
PROPERTY Settles
