\* Blocks of two events, their words in the FIFO in time or late.
SPECIFICATION FairSpec
CONSTANTS
  BlockLevels = {1, 2}
  EventWords = {1, 2}
  DataKinds = {"header", "event"}
  MaxTries = 3
  MaxBlocks = 2
INVARIANTS
  TypeOK
  BankIsOneBlock
  BanksInOrder
  NothingLost
  BankDecodes
PROPERTIES
  BlocksLeave
CHECK_DEADLOCK FALSE
