\* One reader, a controller that answers late or never.
SPECIFICATION FairSpec
CONSTANTS
  plain = plain
  shifted = shifted
  empty = empty
  Readers = {r1}
  Slots = {plain, shifted, empty}
  NoSlot = NoSlot
  Size = 2
  Bytes <- Values
  SPD_MAX_SIZE = "0x95"
  Contents <- Held
  Chips <- NotVIA
  Buses <- EveryBus
  ResetLimit = 2
  PollLimit = 2
  MayHappen = {"Late", "BusError", "Kill"}
INVARIANT TypeOK
PROPERTY KeepsContract
