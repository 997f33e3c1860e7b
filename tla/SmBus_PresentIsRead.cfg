\* Nothing goes wrong, on an nForce CK804.
SPECIFICATION PromptSpec
CONSTANTS
  plain = plain
  shifted = shifted
  empty = empty
  Readers = {r1}
  Slots = {plain, shifted}
  NoSlot = NoSlot
  Size = 2
  Bytes <- Values
  SPD_MAX_SIZE = "0x95"
  Contents <- Held
  Chips = {"NVCK804"}
  Buses = {"controller"}
  ResetLimit = 2
  PollLimit = 3
  MayHappen = {}
PROPERTY PresentIsRead
