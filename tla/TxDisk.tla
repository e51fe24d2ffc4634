------------------------------- MODULE TxDisk -------------------------------
(***************************************************************************)
(* What the write-ahead log promises the file system: a disk on which the  *)
(* effects of whole operations become durable atomically.                  *)
(*                                                                         *)
(* `mem' is the file system's view through the buffer cache, `stable' what *)
(* a reboot would bring back, `active' the operations between begin_op and *)
(* end_op.  A commit makes everything written so far durable in one step,  *)
(* and only when no operation is half way; a crash forgets everything that *)
(* was not committed.                                                      *)
(***************************************************************************)
CONSTANTS Tasks, Blocks, Vals

VARIABLES mem, stable, active

vars == <<mem, stable, active>>

Init ==
  /\ mem \in [Blocks -> Vals]
  /\ stable = mem
  /\ active = {}

Begin(t) ==
  /\ t \notin active
  /\ active' = active \cup {t}
  /\ UNCHANGED <<mem, stable>>

Write(t, b, v) ==
  /\ t \in active
  /\ mem' = [mem EXCEPT ![b] = v]
  /\ UNCHANGED <<stable, active>>

End(t) ==
  /\ t \in active
  /\ active' = active \ {t}
  /\ UNCHANGED <<mem, stable>>

Commit ==
  /\ active = {}
  /\ stable' = mem
  /\ UNCHANGED <<mem, active>>

Crash ==
  /\ mem' = stable
  /\ active' = {}
  /\ UNCHANGED stable

Next ==
  \/ \E t \in Tasks : Begin(t) \/ End(t)
  \/ \E t \in Tasks, b \in Blocks, v \in Vals : Write(t, b, v)
  \/ Commit
  \/ Crash

Spec == Init /\ [][Next]_vars
=============================================================================
