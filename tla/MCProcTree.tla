----------------------------- MODULE MCProcTree -----------------------------
(* Instances of ProcTree: init, its shell and the shell's descendants.     *)
EXTENDS ProcTree

CONSTANTS init, sh, bg, fg

AllCalls == [p \in Procs |-> {"fork", "exit", "wait", "kill"}]
ForkExit == [p \in Procs |-> {"fork", "exit"}]
=============================================================================
