SPECIFICATION Spec
CONSTANTS
  Files <- MCFiles
  NoFile = NoFile
  Half = 33554432
  Masters = {TRUE, FALSE}
  MaxLoads = 2
INVARIANTS
  TypeOK
  FileDecides
  ListensToSlave
  PulsersStop
PROPERTY OnlyByItsKey
CHECK_DEADLOCK FALSE
