---------------------------- MODULE MCTipDmaRing ----------------------------
EXTENDS TipDmaRing
=============================================================================
