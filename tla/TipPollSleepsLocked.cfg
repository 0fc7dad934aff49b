\* The program of test/tipReadoutTest.c, cancelled at times with the mutex.
SPECIFICATION FairSpec
CONSTANTS
  t1 = t1
  t2 = t2
  Ctl = Ctl
  None = None
  Threads <- MCThreads
  BlockLevel = 2
  BufferLevel = 2
  MaxBlocks = 3
  MaxAborts = 1
  MaxFails = 1
  Disconnects = TRUE
PROPERTIES
  CallsReturn
CHECK_DEADLOCK FALSE
