\* The program calls tipEnableFifo after a tipInit with TIP_INIT_USE_DMA.
SPECIFICATION Spec
CONSTANTS
  p1 = p1
  p2 = p2
  b1 = b1
  b2 = b2
  Procs = {p1, p2}
  Buffers = {b1, b2}
  None = None
  Modes = {"watch", "master", "slave", "other"}
  MaxInits = 2
INVARIANTS
  FifoInsteadOfDma
CHECK_DEADLOCK FALSE
