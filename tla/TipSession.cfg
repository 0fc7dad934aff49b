\* Two processes, one after the other or at once, and two buffers.
SPECIFICATION Spec
CONSTANTS
  p1 = p1
  p2 = p2
  b1 = b1
  b2 = b2
  Procs = {p1, p2}
  Buffers = {b1, b2}
  None = None
  Modes = {"watch", "master", "slave", "other"}
  MaxInits = 2
SYMMETRY Symmetry
INVARIANTS
  TypeOK
  SafeUse
  InitMeansReady
  DmaToOwnMemory
CHECK_DEADLOCK FALSE
