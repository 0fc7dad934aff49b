------------------------------ MODULE MCTipPoll ------------------------------
(***************************************************************************)
(* Values for the constants of TipPoll.  Two thread ids are what two calls *)
(* of tipIntEnable need; two events in a block leave a partial block for   *)
(* tipFillToEndBlock to complete.                                          *)
(***************************************************************************)
EXTENDS TipPoll

CONSTANTS t1, t2

MCThreads == {t1, t2}
=============================================================================
