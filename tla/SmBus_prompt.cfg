\* One reader, nothing goes wrong, on every controller whose reader can
\* succeed.
SPECIFICATION PromptSpec
CONSTANTS
  plain = plain
  shifted = shifted
  empty = empty
  Readers = {r1}
  Slots = {plain, shifted, empty}
  NoSlot = NoSlot
  Size = 2
  Bytes <- Values
  SPD_MAX_SIZE = "0x95"
  Contents <- Held
  Chips <- Working
  Buses = {"controller"}
  ResetLimit = 2
  PollLimit = 3
  MayHappen = {}
PROPERTIES
  KeepsContract
  PresentIsRead
