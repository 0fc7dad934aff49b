\* The extra word after a trailer, when words arrive late.
SPECIFICATION Spec
CONSTANTS
  BlockLevels = {1}
  EventWords = {1, 2}
  DataKinds = {"data"}
  MaxTries = 20
  MaxBlocks = 2
INVARIANTS
  ExtraWordIsFiller
CHECK_DEADLOCK FALSE
