------------------------------- MODULE MCLog --------------------------------
EXTENDS Log

CONSTANTS t1, t2, t3, b1, b2

\* Every task on a hart of its own.
HomeSMP == [t \in Tasks |-> t]

\* Two tasks share a hart, the third has its own: both the switches at awaits
\* and the interleavings of two harts happen.
HomeMixed == [t \in Tasks |-> IF t = t3 THEN 1 ELSE 0]
=============================================================================
