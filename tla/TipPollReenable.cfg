\* A program that calls tipIntEnable again without tipIntDisconnect.
SPECIFICATION Spec
CONSTANTS
  t1 = t1
  t2 = t2
  Ctl = Ctl
  None = None
  Threads <- MCThreads
  BlockLevel = 2
  BufferLevel = 2
  MaxBlocks = 3
  MaxAborts = 1
  MaxFails = 1
  Disconnects = FALSE
INVARIANTS
  DisconnectKillsPoller
