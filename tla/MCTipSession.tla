---------------------------- MODULE MCTipSession ----------------------------
EXTENDS TipSession, TLC

CONSTANTS p1, p2, b1, b2

\* Processes are alike, and so are buffers.
Symmetry == Permutations(Procs) \union Permutations(Buffers)
=============================================================================
