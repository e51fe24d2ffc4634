----------------------------- MODULE MCVirtioBlk -----------------------------
EXTENDS VirtioBlk

CONSTANTS t1, t2, t3
=============================================================================
