\* Two programs and twelve kinds of call on a bus of four slots.
SPECIFICATION Spec
CONSTANTS
  searcher = searcher
  other = other
  Callers = {searcher, other}
  Devices <- Chips
  Registers = {0, 8, 88, 208}
  ReadOnly <- Fixed
  Contents <- Held
  Calls <- SomeCalls
  MaxCalls <- OneOrTwo
  PCI_MAX_DEV = 2
  PCI_MAX_FUN = 2
  MayFail = {"HeapAlloc", "HalSetBusDataByOffset"}
\* Callers stop after MaxCalls calls.
CHECK_DEADLOCK FALSE
INVARIANTS
  TypeOK
  SearchIsRight
PROPERTY
  KeepsConfigSpace
