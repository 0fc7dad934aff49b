\* Two processes, two handles, and a module that is loaded and unloaded
\* while they are there.
SPECIFICATION FairSpec
CONSTANTS
  p1 = p1
  p2 = p2
  h1 = h1
  h2 = h2
  Clients = {p1, p2}
  Handles = {h1, h2}
  None = None
  Junk = Junk
  Free = Free
  NoInit = NoInit
  MaxLoads = 2
INVARIANTS
  TypeOK
  NothingLeftBehind
  ListIsWhole
PROPERTIES
  PoolSpec
  ServedWhileIn
  RequestsEnd
CHECK_DEADLOCK FALSE
