------------------------------ MODULE MCTipFifo ------------------------------
EXTENDS TipFifo
=============================================================================
