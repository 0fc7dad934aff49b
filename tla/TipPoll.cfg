\* The program of test/tipReadoutTest.c.
SPECIFICATION FairSpec
CONSTANTS
  t1 = t1
  t2 = t2
  Ctl = Ctl
  None = None
  Threads <- MCThreads
  BlockLevel = 2
  BufferLevel = 2
  MaxBlocks = 3
  MaxAborts = 1
  MaxFails = 1
  Disconnects = TRUE
INVARIANTS
  TypeOK
  HolderReleases
  DisconnectKillsPoller
  ReadFindsBlock
  CountsBalance
  EnabledMeansPolled
PROPERTIES
  ServiceSpec
  ReadyBlocksAreServed
  CallsReturnUnlessLost
\* a cancelled thread may leave with the mutex, and everyone then waits
CHECK_DEADLOCK FALSE
