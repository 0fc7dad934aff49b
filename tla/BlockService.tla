---------------------------- MODULE BlockService ----------------------------
(***************************************************************************)
(* What the readout service of the TI library promises, whatever threads   *)
(* and locks it is made of: blocks become ready, and one service at a time *)
(* is called for a ready block, takes at most one block from the board and *)
(* acknowledges it, once, also if its read failed and the block is still   *)
(* there.  A service may be cut short; it is then never acknowledged, and  *)
(* a block it had taken is not given to another service.                   *)
(***************************************************************************)
EXTENDS Naturals

VARIABLES
  blocks,   \* blocks ready on the board
  stage,    \* of the service in progress
  called,   \* services called since the last reset of the counters
  acked,    \* ... of which acknowledged
  cut,      \* ... of which cut short
  lost      \* the board is gone: nothing more can be taken from it

vars == <<blocks, stage, called, acked, cut, lost>>

Stages == {"none", "called", "read"}

Init ==
  /\ blocks = 0 /\ stage = "none"
  /\ called = 0 /\ acked = 0 /\ cut = 0
  /\ lost = FALSE

Fill ==
  /\ ~lost
  /\ blocks' = blocks + 1
  /\ UNCHANGED <<stage, called, acked, cut, lost>>

Lose ==
  /\ ~lost
  /\ lost' = TRUE
  /\ UNCHANGED <<blocks, stage, called, acked, cut>>

\* a service is called only when there is a block for it
Serve ==
  /\ stage = "none" /\ stage' = "called"
  /\ blocks > 0
  /\ called' = called + 1
  /\ UNCHANGED <<blocks, acked, cut, lost>>

TakeBlock == ~lost /\ blocks > 0 /\ blocks' = blocks - 1

\* its read takes that block from the board, or fails and leaves it there
Read ==
  /\ stage = "called" /\ stage' = "read"
  /\ TakeBlock \/ UNCHANGED blocks
  /\ UNCHANGED <<called, acked, cut, lost>>

Acknowledge ==
  /\ stage = "read" /\ stage' = "none"
  /\ acked' = acked + 1
  /\ UNCHANGED <<blocks, called, cut, lost>>

\* before, in or after its read
CutShort ==
  /\ stage # "none" /\ stage' = "none"
  /\ cut' = cut + 1
  /\ (stage = "called" /\ TakeBlock) \/ UNCHANGED blocks
  /\ UNCHANGED <<called, acked, lost>>

\* the counters restart between services only
Restart ==
  /\ stage = "none"
  /\ called' = 0 /\ acked' = 0 /\ cut' = 0
  /\ UNCHANGED <<blocks, stage, lost>>

Next == Fill \/ Lose \/ Serve \/ Read \/ Acknowledge \/ CutShort \/ Restart

Spec == Init /\ [][Next]_vars

=============================================================================
