------------------------------- MODULE MCPipe -------------------------------
EXTENDS Pipe

CONSTANTS t1, t2

\* Every task on a hart of its own, or all on the same hart.
HomeSMP == [t \in Tasks |-> t]
HomeUP == [t \in Tasks |-> 0]
=============================================================================
