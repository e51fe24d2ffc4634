------------------------------ MODULE MCExecutor ------------------------------
EXTENDS Executor

CONSTANTS p1, p2

BootOne == <<p1>>
=============================================================================
