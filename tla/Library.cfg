\* One thread; every request and every call to a system library may fail.
SPECIFICATION Spec
CONSTANTS
  Width = 4
  Active = {0, 1, 3}
  Mine = {0, 1}
  CpuIndexes = {0, 1, 2, 3, 5, 6}
  Registers = {r1, r2}
  Reserved = {r2}
  Values = {0, 1}
  TableLengths = {0, 5}
  Ports <- ConfigData
  PortData <- FourBytes
  MayFail = {"MmMapIoSpace", "MmMapTable", "VirtualAlloc"}
  Drives <- SmallDrives
  Garbage = {0, 171}
  SmartFails <- SmartRequests
  GpuLists <- SmallGpuLists
  MaxSensors = 2
  Leftovers = {"none", "GPU"}
  NvFails = {"LoadLibrary", "lookup", "Initialize", "Enum"}
INVARIANTS
  KernelTypeOK
  AffinityKept
  OfTheCpuAsked
  SmbiosIsWhole
  PortDataIsExact
  HandlesAreBalanced
  RowsAreTheDrives
  ApiIsAllOrNothing
  FiguresAreOfThisGpu
PROPERTIES
  OnlyWritesWrite
  TemperatureIsTheDrives
