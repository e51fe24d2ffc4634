------------------------------ MODULE MCBcache ------------------------------
EXTENDS Bcache

CONSTANTS t1, t2, b1, b2, b3

\* Every task on a hart of its own, or all on the same hart.
HomeSMP == [t \in Tasks |-> t]
HomeUP == [t \in Tasks |-> 0]

\* t1 holds up to two buffers at a time.
HoldTwo == [t \in Tasks |-> IF t = t1 THEN 2 ELSE 1]
HoldOne == [t \in Tasks |-> 1]
=============================================================================
