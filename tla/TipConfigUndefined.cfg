SPECIFICATION Spec
CONSTANTS
  Files <- MCFiles
  NoFile = NoFile
  Half = 33554432
  Masters = {TRUE}
  MaxLoads = 1
INVARIANT UndefinedUsesDefault
CHECK_DEADLOCK FALSE
