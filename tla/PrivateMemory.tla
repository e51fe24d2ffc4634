---------------------------- MODULE PrivateMemory ---------------------------
(***************************************************************************)
(* What the kernel promises of user memory: every process has its own.     *)
(* Memory that a process is given reads as zeros (or as the file it maps), *)
(* only its own stores change it, and a child starts with a copy.          *)
(***************************************************************************)
EXTENDS Naturals

CONSTANTS
  Procs, Pages, Vals,
  Inherited,          \* pages a child gets a copy of
  NoPage,             \* what a process sees where it has no memory
  Image, ReadOnly,    \* memory of a fresh program, and its pages that cannot be written
  FilePages           \* what pages of mapped files may show

VARIABLE view         \* what each process sees in each page

Alone(p) == \A q \in Procs \ {p} : view'[q] = view[q]

Store(p, g) ==
  /\ view[p][g] # NoPage /\ g \notin ReadOnly
  /\ \E v \in Vals : view' = [view EXCEPT ![p][g] = v]

\* Pages come with zeros or with what is in the file, or go.
Resize(p) ==
  /\ Alone(p)
  /\ \A g \in Pages : view'[p][g] \in IF view[p][g] = NoPage
                                       THEN {NoPage, 0} \cup FilePages
                                       ELSE {view[p][g], NoPage}

Fork(p, c) ==
  /\ \A g \in Pages : view[c][g] = NoPage
  /\ view' = [view EXCEPT ![c] =
                [g \in Pages |-> IF g \in Inherited THEN view[p][g] ELSE NoPage]]

Exec(p) == view' = [view EXCEPT ![p] = Image]

Next ==
  /\ view' # view
  /\ \/ \E p \in Procs : Resize(p) \/ Exec(p) \/ \E g \in Pages : Store(p, g)
     \/ \E p, c \in Procs : Fork(p, c)

Init == view = [p \in Procs |-> [g \in Pages |-> NoPage]]

Spec == Init /\ [][Next]_view
=============================================================================
