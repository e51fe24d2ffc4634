------------------------------ MODULE ProcTree ------------------------------
(***************************************************************************)
(* The life of processes: fork, exit with the reparenting of orphans to    *)
(* init, waitpid and kill (syscall.rs, proc.rs).  A Proc is freed when its *)
(* last Arc goes: the one its task has until proc_main returns, the one of *)
(* the list of children it is in, and those that an exiting child or a     *)
(* killer has for a moment.  Every proc runs on a hart of its own; a step  *)
(* is what happens under one lock or to one atomic.                        *)
(***************************************************************************)
EXTENDS Integers, Sequences, FiniteSets, Functions

CONSTANTS
  Procs,      \* names of procs; the name of a freed one is used again
  InitProc,   \* INIT_PROC
  NPROC,
  Calls,      \* the calls that the program of each proc but init makes
  Oom,        \* procs whose fork may find no free frame
  None

ASSUME ProcAssumption ==
  /\ IsFiniteSet(Procs) /\ InitProc \in Procs /\ None \notin Procs
  /\ NPROC \in Nat \ {0} /\ Oom \subseteq Procs
  /\ Calls \in [Procs -> SUBSET {"fork", "exit", "wait", "kill"}]

VARIABLES
  live,               \* LIVE_PROCS
  zombie, killed,     \* Proc.state, Proc.killed
  parent, children,   \* Proc.parent (a weak reference), Proc.children
  waitWaker,          \* procs whose wait_waker has a waker
  woken,              \* procs whose task is in a ready queue
  pc,                 \* where the task is; "none": there is no such proc
  kids,               \* exit's kids
  arg,                \* exit: the parent, upgraded; kill: the target;
                      \* waitpid: the filter
  nohang,             \* procs whose waitpid has WNOHANG
  shell               \* init.c's shpid; None in the part of its loop that forks

flags == <<zombie, killed>>
tree == <<parent, children, kids>>
wakers == <<waitWaker, woken>>
user == <<arg, nohang, shell>>
vars == <<live, flags, tree, wakers, pc, user>>

PC == {"none", "user", "fork", "failed", "kill", "wait", "register", "scan", "parked",
       "take", "reparent", "splice", "tell", "zombie", "parent", "wake",
       "return", "done"}
Exists == {p \in Procs : pc[p] # "none"}
Goto(p, l) == pc' = [pc EXCEPT ![p] = l]

\* The end of a system call: proc_main sees whether the proc was killed.
BackToUser(p) == IF killed[p] THEN "take" ELSE "user"

Init ==
  /\ live = 1
  /\ zombie = [p \in Procs |-> FALSE]
  /\ killed = [p \in Procs |-> FALSE]
  /\ parent = [p \in Procs |-> None]
  /\ children = [p \in Procs |-> <<>>]
  /\ waitWaker = {} /\ woken = {}
  /\ pc = [p \in Procs |-> IF p = InitProc THEN "user" ELSE "none"]
  /\ kids = [p \in Procs |-> <<>>]
  /\ arg = [p \in Procs |-> None]
  /\ nohang = {} /\ shell = None

\* WakerCell::wake of q's wait_waker
WakeWait(q) ==
  /\ waitWaker' = waitWaker \ {q}
  /\ woken' = IF q \in waitWaker THEN woken \cup {q} ELSE woken

\* Variant: the count is not taken back.
UncountNot(c) == live' = live

Uncount(c) == live' = live - 1

\* Drop for Proc
Drop(c) ==
  /\ Uncount(c)
  /\ zombie' = [zombie EXCEPT ![c] = FALSE]
  /\ killed' = [killed EXCEPT ![c] = FALSE]
  /\ parent' = [p \in Procs |-> IF p = c \/ parent[p] = c THEN None ELSE parent[p]]

\* The Arcs of c that are not its task's
Arcs(c) ==
  {<<p, "children">> : p \in {q \in Procs : c \in Range(children[q])}} \cup
  {<<p, "kids">> : p \in {q \in Procs : c \in Range(kids[q])}} \cup
  {<<p, "arg">> : p \in {q \in Procs : pc[q] \in {"kill", "wake"} /\ arg[q] = c}}

\* p, at l next, lets go of one Arc of c.
Release(p, c, l) ==
  IF pc[c] = "done" /\ Cardinality(Arcs(c)) = 1
    THEN Drop(c) /\ pc' = [pc EXCEPT ![p] = l, ![c] = "none"]
    ELSE Goto(p, l) /\ UNCHANGED <<live, flags, parent>>

-----------------------------------------------------------------------------
(* fork                                                                    *)

\* fork_from looks at the cap ...
ForkCheck(p) ==
  /\ pc[p] = "user"
  /\ IF p = InitProc THEN shell = None ELSE "fork" \in Calls[p]
  /\ Goto(p, IF live < NPROC THEN "fork" ELSE "failed")
  /\ UNCHANGED <<live, flags, tree, wakers, user>>

\* ... with_layout counts the child when its pages are copied, and sys_fork
\* links it and spawns its task.
Fork(p, c) ==
  /\ pc[p] = "fork" /\ pc[c] = "none"
  /\ live' = live + 1
  /\ parent' = [parent EXCEPT ![c] = p]
  /\ children' = [children EXCEPT ![p] = Append(@, c)]
  /\ pc' = [pc EXCEPT ![p] = BackToUser(p), ![c] = "user"]
  /\ shell' = IF p = InitProc THEN c ELSE shell
  /\ UNCHANGED <<flags, kids, wakers, arg, nohang>>

\* Too many procs, or no frames: -1.
ForkFail(p) ==
  /\ pc[p] = "failed" \/ (pc[p] = "fork" /\ p \in Oom)
  /\ Goto(p, BackToUser(p))
  /\ UNCHANGED <<live, flags, tree, wakers, user>>

-----------------------------------------------------------------------------
(* exit                                                                    *)

\* The program calls exit ...
Exit(p) ==
  /\ pc[p] = "user" /\ p # InitProc /\ "exit" \in Calls[p]
  /\ Goto(p, "take")
  /\ UNCHANGED <<live, flags, tree, wakers, user>>

\* ... or proc_main does, at the timer trap of a killed proc.
KilledTrap(p) ==
  /\ pc[p] = "user" /\ killed[p]
  /\ Goto(p, "take")
  /\ UNCHANGED <<live, flags, tree, wakers, user>>

TakeKids(p) ==
  /\ pc[p] = "take"
  /\ kids' = [kids EXCEPT ![p] = children[p]]
  /\ children' = [children EXCEPT ![p] = <<>>]
  /\ Goto(p, IF children[p] = <<>> THEN "zombie" ELSE "reparent")
  /\ UNCHANGED <<live, flags, parent, wakers, user>>

Strangers(p) == {k \in Range(kids[p]) : parent[k] # InitProc}

\* One child after the other gets init for a parent.
Reparent(p) ==
  /\ pc[p] = "reparent"
  /\ IF Strangers(p) = {}
       THEN Goto(p, "splice") /\ parent' = parent
       ELSE /\ \E k \in Strangers(p) : parent' = [parent EXCEPT ![k] = InitProc]
            /\ pc' = pc
  /\ UNCHANGED <<live, flags, children, kids, wakers, user>>

\* Variant: the orphans are dropped.
OrphansNone(p) == <<>>

Orphans(p) == kids[p]

Splice(p) ==
  /\ pc[p] = "splice"
  /\ children' = [children EXCEPT ![InitProc] = @ \o Orphans(p)]
  /\ kids' = [kids EXCEPT ![p] = <<>>]
  /\ Goto(p, "tell")
  /\ UNCHANGED <<live, flags, parent, wakers, user>>

\* Unconditional: an orphan may be a zombie already.
Tell(p) ==
  /\ pc[p] = "tell"
  /\ WakeWait(InitProc)
  /\ Goto(p, "zombie")
  /\ UNCHANGED <<live, flags, tree, user>>

SetZombie(p) ==
  /\ pc[p] = "zombie"
  /\ zombie' = [zombie EXCEPT ![p] = TRUE]
  /\ Goto(p, "parent")
  /\ UNCHANGED <<live, killed, tree, wakers, user>>

ReadParent(p) ==
  /\ pc[p] = "parent"
  /\ arg' = [arg EXCEPT ![p] = parent[p]]
  /\ Goto(p, IF parent[p] = None THEN "return" ELSE "wake")
  /\ UNCHANGED <<live, flags, tree, wakers, nohang, shell>>

\* p.wait_waker.wake(), and the upgraded Arc of the parent goes.
WakeParent(p) ==
  /\ pc[p] = "wake"
  /\ WakeWait(arg[p])
  /\ arg' = [arg EXCEPT ![p] = None]
  /\ Release(p, arg[p], "return")
  /\ UNCHANGED <<children, kids, nohang, shell>>

\* The executor drops the finished task, and with it a proc already reaped.
TaskDone(p) ==
  /\ pc[p] = "return"
  /\ IF Arcs(p) # {}
       THEN Goto(p, "done") /\ UNCHANGED <<live, flags, parent>>
       ELSE Drop(p) /\ Goto(p, "none")
  /\ woken' = woken \ {p}
  /\ waitWaker' = waitWaker \ {p}
  /\ UNCHANGED <<children, kids, user>>

-----------------------------------------------------------------------------
(* waitpid                                                                 *)

\* A wake-up left over from before the call is of no use to it.
CallWait(p, f, nh) ==
  /\ pc[p] = "user"
  /\ IF p = InitProc THEN shell # None /\ f = None /\ ~nh ELSE "wait" \in Calls[p]
  /\ arg' = [arg EXCEPT ![p] = f]
  /\ nohang' = IF nh THEN nohang \cup {p} ELSE nohang
  /\ woken' = woken \ {p}
  /\ Goto(p, "wait")
  /\ UNCHANGED <<live, flags, tree, waitWaker, shell>>

ForgetOptions(p) == nohang \ {p}

\* The result of waitpid: init.c is back at its fork when the shell is reaped
\* (or when waitpid fails).
Answer(p, c) ==
  /\ arg' = [arg EXCEPT ![p] = None]
  /\ nohang' = ForgetOptions(p)
  /\ shell' = IF p = InitProc /\ c \in {None, shell} THEN None ELSE shell

WaitKilled(p) ==
  /\ pc[p] = "wait"
  /\ IF killed[p]
       THEN Answer(p, None) /\ Goto(p, "take")
       ELSE Goto(p, "register") /\ UNCHANGED user
  /\ UNCHANGED <<live, flags, tree, wakers>>

\* Variant: no waker is put there while no child is a zombie.
RegisteredLate(p) == IF \E c \in Range(children[p]) : zombie[c]
                       THEN waitWaker \cup {p} ELSE waitWaker

Registered(p) == waitWaker \cup {p}

Register(p) ==
  /\ pc[p] = "register"
  /\ waitWaker' = Registered(p)
  /\ Goto(p, "scan")
  /\ UNCHANGED <<live, flags, tree, woken, user>>

Matching(p) == {i \in DOMAIN children[p] : arg[p] \in {None, children[p][i]}}
Dead(p) == {i \in Matching(p) : zombie[children[p][i]]}

\* The first matching zombie is removed, and freed if its task is done.
Reap(p) ==
  /\ pc[p] = "scan"
  /\ \E i \in Dead(p) :
       /\ \A j \in Dead(p) : i <= j
       /\ children' = [children EXCEPT ![p] =
                          SubSeq(@, 1, i - 1) \o SubSeq(@, i + 1, Len(@))]
       /\ Release(p, children[p][i], BackToUser(p))
       /\ Answer(p, children[p][i])
  /\ UNCHANGED <<kids, wakers>>

\* No child that matches, or WNOHANG.
WaitReturn(p) ==
  /\ pc[p] = "scan" /\ Dead(p) = {}
  /\ Matching(p) = {} \/ p \in nohang
  /\ Answer(p, None)
  /\ Goto(p, BackToUser(p))
  /\ UNCHANGED <<live, flags, tree, wakers>>

Park(p) ==
  /\ pc[p] = "scan" /\ Dead(p) = {}
  /\ Matching(p) # {} /\ p \notin nohang
  /\ Goto(p, "parked")
  /\ UNCHANGED <<live, flags, tree, wakers, user>>

Repoll(p) ==
  /\ pc[p] = "parked" /\ p \in woken
  /\ woken' = woken \ {p}
  /\ Goto(p, "wait")
  /\ UNCHANGED <<live, flags, tree, waitWaker, user>>

-----------------------------------------------------------------------------
(* kill with SIGKILL, of any proc but init                                 *)

Kill(p, c) ==
  /\ pc[p] = "user" /\ p # InitProc /\ "kill" \in Calls[p]
  /\ c \in Exists \ {InitProc}
  /\ killed' = [killed EXCEPT ![c] = TRUE]
  /\ arg' = [arg EXCEPT ![p] = c]
  /\ Goto(p, "kill")
  /\ UNCHANGED <<live, zombie, tree, wakers, nohang, shell>>

\* Variant: only a waker in wait_waker is woken.
KillWakesCell(c) == WakeWait(c)

\* wait_waker.wake() and executor::wake of the target's task
KillWakes(c) ==
  /\ waitWaker' = waitWaker \ {c}
  /\ woken' = IF pc[c] = "done" THEN woken ELSE woken \cup {c}

KillWake(p) ==
  /\ pc[p] = "kill"
  /\ KillWakes(arg[p])
  /\ arg' = [arg EXCEPT ![p] = None]
  /\ Release(p, arg[p], BackToUser(p))
  /\ UNCHANGED <<children, kids, nohang, shell>>

-----------------------------------------------------------------------------

\* What the kernel, once called, does of itself.
Kernel(p) ==
  \/ (\E c \in Procs : Fork(p, c)) \/ ForkFail(p)
  \/ KilledTrap(p) \/ TakeKids(p) \/ Reparent(p) \/ Splice(p) \/ Tell(p)
  \/ SetZombie(p) \/ ReadParent(p) \/ WakeParent(p) \/ TaskDone(p)
  \/ WaitKilled(p) \/ Register(p) \/ Reap(p) \/ WaitReturn(p) \/ Park(p)
  \/ Repoll(p) \/ KillWake(p)

\* What a program asks for.
Program(p) ==
  \/ ForkCheck(p) \/ Exit(p)
  \/ \E f \in Procs \cup {None}, nh \in BOOLEAN : CallWait(p, f, nh)
  \/ \E c \in Procs : Kill(p, c)

Next == \E p \in Procs : Kernel(p) \/ Program(p)

Spec == Init /\ [][Next]_vars

\* A hart goes on with the kernel's work, a timer traps a killed program, and
\* init.c loops for ever; another program may do nothing.
FairSpec ==
  /\ Spec
  /\ \A p \in Procs : WF_vars(Kernel(p))
  /\ WF_vars(Program(InitProc))

-----------------------------------------------------------------------------
(* Properties                                                              *)

\* Every variable has its type.
TypeOK ==
  /\ live \in 0..Cardinality(Procs)
  /\ zombie \in [Procs -> BOOLEAN] /\ killed \in [Procs -> BOOLEAN]
  /\ parent \in [Procs -> Procs \cup {None}]
  /\ children \in [Procs -> Seq(Procs)] /\ kids \in [Procs -> Seq(Procs)]
  /\ waitWaker \subseteq Procs /\ woken \subseteq Procs
  /\ pc \in [Procs -> PC]
  /\ arg \in [Procs -> Procs \cup {None}]
  /\ nohang \subseteq {p \in Procs : pc[p] \in {"wait", "register", "scan"}}
  /\ shell \in Procs \cup {None}

\* LIVE_PROCS is the number of procs that are not freed, zombies included,
\* whichever of the task, the parent, an exiting child and a killer lets go
\* last: the cap of fork neither leaks nor is given back twice.
LiveCount == live = Cardinality(Exists)

\* No proc is in two of the lists, nor twice in one of them.
Unshared(lists) ==
  \A p, q \in Procs : \A i \in DOMAIN lists[p], j \in DOMAIN lists[q] :
    lists[p][i] = lists[q][j] => p = q /\ i = j

Listed(lists) == UNION {Range(lists[p]) : p \in Procs}

\* The list a proc is in, its parent's children or the kids of its exiting
\* parent, is only one: it is reaped once; and as long as it has not exited it
\* is in one, so that its exit status is for some parent to collect.
OneParent ==
  /\ Unshared(children) /\ Unshared(kids)
  /\ Listed(children) \cap Listed(kids) = {}
  /\ Listed(children) \cup Listed(kids) \subseteq Exists
  /\ {c \in Exists \ {InitProc} : ~zombie[c]}
       \subseteq Listed(children) \cup Listed(kids)

\* No call is under way but the waitpids that are parked with no wake-up to come.
Quiet == \A p \in Procs : \/ pc[p] \in {"none", "user", "done"}
                          \/ pc[p] = "parked" /\ p \notin woken

\* When all is quiet no proc is parked in waitpid with a zombie to reap: the
\* child's exit, or the exit of the parent the child is inherited from, has
\* woken it, in whatever order exits, splices and scans came.
NoForgottenZombie == Quiet => \A p \in Procs : pc[p] = "parked" => Dead(p) = {}

\* Nor is a killed proc parked: kill wakes it whether or not it had looked at
\* its killed flag and put its waker in place.
NoForgottenKill == Quiet => \A p \in Procs : pc[p] = "parked" => ~killed[p]

\* init.c: "sit in wait() so orphaned children the kernel reparents to us get
\* reaped promptly".
OrphansReaped ==
  \A c \in Procs : zombie[c] /\ parent[c] = InitProc ~> pc[c] = "none"
=============================================================================
