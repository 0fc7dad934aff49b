---------------------------- MODULE MCTipLevels -----------------------------
EXTENDS TipLevels

CONSTANTS control, poll

\* the program of the tests, whose polling thread may set levels, too
MCRoles == [t \in Threads |-> IF t = control THEN {"levels"} ELSE AllRoles]

\* tipSetTriggerSource turns VME commands on, a mask may not
MCSources == {{"vme", "loopback", "trigger"}, {"loopback", "trigger"}}
=============================================================================
