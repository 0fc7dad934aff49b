----------------------------- MODULE MCTipDriver -----------------------------
EXTENDS TipDriver

CONSTANTS p1, p2, h1, h2
=============================================================================
