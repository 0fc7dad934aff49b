\* One lap and a third of a ring of three slots.
SPECIFICATION Spec
CONSTANTS
  Slots = 3
  SlotWords = 10
  BlockLevels = {1, 2}
  EventWords = 2
  Limit = 2
  KnownLevels = {0, 1}
  MaxBlocks = 4
INVARIANTS TypeOK InStep RightBlock NothingLost BehindByGiveUps
CHECK_DEADLOCK FALSE
