SPECIFICATION Spec
CONSTANTS
  control = control
  poll = poll
  Threads = {control, poll}
  Master = master
  Slaves = {slave}
  None = none
  Roles <- MCRoles
  Sources <- MCSources
  MaxLevel = 2
  MaxBuffer = 1
  MaxCalls = 2
  MaxRestarts = 1
  MaxReady = 2
INVARIANTS TypeOK SourceSticks CratesCatchUp BufferAsSet FlagIsSyncBlock
