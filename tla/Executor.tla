------------------------------ MODULE Executor ------------------------------
(***************************************************************************)
(* The per-hart executor (executor.rs), the way into and out of user mode  *)
(* (proc.rs UserMode, usertrap.rs) and the interrupts that break wfi.      *)
(*                                                                         *)
(* A task is a future in a slot of its home hart's table.  What a future   *)
(* awaits is kept as far as the executor can tell: "user" at UserMode,     *)
(* "blocked" at any other await, "sys" while its code runs.  A task id is  *)
(* the pair <<home, slot>>.  A wake-up of any id that was ever handed out  *)
(* may come at any time: wakers are stored all over the kernel and outlive *)
(* their tasks.                                                            *)
(***************************************************************************)
EXTENDS Integers, Sequences

CONSTANTS
  Harts,      \* 0 .. n-1, all active
  Procs,      \* tasks with a Proc
  Leavers,    \* the procs that may exit (init never does)
  Boot,       \* the tasks on hart 0 when the model starts, in queue order
  MaxSlot,    \* bound: slots of a table
  MaxQueue,   \* bound: length of a ready queue when a stray wake-up comes
  None

ASSUME ExecutorAssumption ==
  /\ 0 \in Harts /\ Harts \subseteq Nat
  /\ Boot \in Seq(Procs) /\ Leavers \subseteq Procs
  /\ \A i, j \in DOMAIN Boot : Boot[i] = Boot[j] => i = j
  /\ MaxSlot \in Nat \ {0} /\ Len(Boot) <= MaxSlot /\ MaxQueue \in Nat
  /\ None \notin Procs \cup Harts

Slots == 0..(MaxSlot - 1)
Tids == Harts \X Slots
Booted == {Boot[i] : i \in DOMAIN Boot}

VARIABLES
  ready,              \* PerCpuExec.ready: the slots of the queued ids
  table,              \* PerCpuExec.tasks
  freeSlots,          \* PerCpuExec.free_slots
  nextSlot,           \* PerCpuExec.next_slot
  taskId, pending,    \* Proc.task_id, Proc.pending_trap
  current, target,    \* Cpu.current_proc, Cpu.user_target
  user,               \* the proc whose program the hart runs
  mode,               \* where each hart is
  slot, held,         \* locals of run: the slot and the task taken from it
  spawn,              \* locals of insert_task
  kick,               \* the hart wake has still to interrupt
  ipi,                \* an interrupt is on its way to the hart
  st                  \* what each task's future awaits

tables == <<table, freeSlots, nextSlot>>
cpus == <<current, target, user, slot, held>>
vars == <<ready, tables, taskId, pending, cpus, mode, spawn, kick, ipi, st>>

Modes == {"pop", "idle", "asleep", "poll", "spawn", "putback", "recycle", "user",
          "trap"}
NoSpawn == [step |-> "none", task |-> None, home |-> 0, slot |-> 0]

\* The first tasks have been spawned on hart 0, and no hart has run yet.
Init ==
  /\ ready = [h \in Harts |-> IF h = 0 THEN [i \in DOMAIN Boot |-> i - 1]
                                        ELSE <<>>]
  /\ table = [h \in Harts |-> [s \in Slots |->
                IF h = 0 /\ s < Len(Boot) THEN Boot[s + 1] ELSE None]]
  /\ freeSlots = [h \in Harts |-> <<>>]
  /\ nextSlot = [h \in Harts |-> IF h = 0 THEN Len(Boot) ELSE 0]
  /\ taskId = [p \in Procs |-> IF p \in Booted
                 THEN <<0, (CHOOSE i \in DOMAIN Boot : Boot[i] = p) - 1>>
                 ELSE <<0, 0>>]
  /\ pending = [p \in Procs |-> FALSE]
  /\ current = [h \in Harts |-> None]
  /\ target = [h \in Harts |-> None]
  /\ user = [h \in Harts |-> None]
  /\ mode = [h \in Harts |-> "pop"]
  /\ slot = [h \in Harts |-> 0]
  /\ held = [h \in Harts |-> None]
  /\ spawn = [h \in Harts |-> NoSpawn]
  /\ kick = [h \in Harts |-> None]
  /\ ipi = [h \in Harts |-> FALSE]
  /\ st = [p \in Procs |-> IF p \in Booted THEN "user" ELSE "absent"]

Goto(h, m) == mode' = [mode EXCEPT ![h] = m]

\* Variant: the id is put in front of the queue.
EnqueueFirst(q, s) == <<s>> \o q

\* push_back
Enqueue(q, s) == Append(q, s)

\* tid_slot
SlotOf(tid) == tid[2]

\* wake, on hart h: push the id on its home's queue; the interrupt follows.
Wake(h, tid) ==
  /\ ready' = [ready EXCEPT ![tid[1]] = Enqueue(@, SlotOf(tid))]
  /\ kick' = [kick EXCEPT ![h] = IF tid[1] = h THEN None ELSE tid[1]]

SendIpi(h) ==
  /\ kick[h] # None
  /\ ipi' = [ipi EXCEPT ![kick[h]] = TRUE]
  /\ kick' = [kick EXCEPT ![h] = None]
  /\ UNCHANGED <<ready, tables, taskId, pending, cpus, mode, spawn, st>>

-----------------------------------------------------------------------------
(* run                                                                     *)

\* Nothing is queued: go to wfi, with interrupts on.
PopEmpty(h) ==
  /\ mode[h] = "pop" /\ ready[h] = <<>>
  /\ Goto(h, "idle")
  /\ UNCHANGED <<ready, tables, taskId, pending, cpus, spawn, kick, ipi, st>>

\* An id whose slot is empty is dropped.
PopStale(h) ==
  /\ mode[h] = "pop" /\ ready[h] # <<>>
  /\ table[h][Head(ready[h])] = None
  /\ ready' = [ready EXCEPT ![h] = Tail(@)]
  /\ UNCHANGED <<tables, taskId, pending, cpus, mode, spawn, kick, ipi, st>>

\* Take the task out of the table, make its proc the current one and poll it.
PopTask(h) ==
  /\ mode[h] = "pop" /\ ready[h] # <<>>
  /\ table[h][Head(ready[h])] # None
  /\ LET s == Head(ready[h]) IN
       /\ ready' = [ready EXCEPT ![h] = Tail(@)]
       /\ slot' = [slot EXCEPT ![h] = s]
       /\ held' = [held EXCEPT ![h] = table[h][s]]
       /\ table' = [table EXCEPT ![h][s] = None]
       /\ current' = [current EXCEPT ![h] = table[h][s]]
  /\ Goto(h, "poll")
  /\ UNCHANGED <<freeSlots, nextSlot, taskId, pending, target, user, spawn, kick,
                 ipi, st>>

\* wfi is reached with no interrupt pending.
Sleep(h) ==
  /\ mode[h] = "idle" /\ ~ipi[h]
  /\ Goto(h, "asleep")
  /\ UNCHANGED <<ready, tables, taskId, pending, cpus, spawn, kick, ipi, st>>

\* Variant: the request is read and left in place.
TakeTargetNot(h) == target' = target

TakeTarget(h) == target' = [target EXCEPT ![h] = None]

\* Poll::Pending: the task goes back to its slot, and to user mode if it asked.
PutBack(h) ==
  /\ mode[h] = "putback"
  /\ table' = [table EXCEPT ![h][slot[h]] = held[h]]
  /\ held' = [held EXCEPT ![h] = None]
  /\ slot' = [slot EXCEPT ![h] = 0]
  /\ TakeTarget(h)
  /\ user' = [user EXCEPT ![h] = target[h]]
  /\ Goto(h, IF target[h] = None THEN "pop" ELSE "user")
  /\ UNCHANGED <<ready, freeSlots, nextSlot, taskId, pending, current, spawn,
                 kick, ipi, st>>

\* Variant: the pointer to the finished task's proc stays.
ForgetNot(h) == current' = current

Forget(h) == current' = [current EXCEPT ![h] = None]

Recycle(h) == freeSlots' = [freeSlots EXCEPT ![h] = Append(@, slot[h])]

\* Poll::Ready: the task drops and its slot is free again.  The proc's name is
\* free for a new one.
Finish(h) ==
  /\ mode[h] = "recycle"
  /\ st' = [st EXCEPT ![held[h]] = "absent"]
  /\ taskId' = [taskId EXCEPT ![held[h]] = <<0, 0>>]
  /\ Forget(h)
  /\ Recycle(h)
  /\ held' = [held EXCEPT ![h] = None]
  /\ slot' = [slot EXCEPT ![h] = 0]
  /\ Goto(h, "pop")
  /\ UNCHANGED <<ready, table, nextSlot, pending, target, user, spawn, kick, ipi>>

-----------------------------------------------------------------------------
(* One poll of a proc's task: proc_main around UserMode and the system     *)
(* calls.                                                                  *)

Polling(h, s) == mode[h] = "poll" /\ kick[h] = None /\ st[held[h]] = s
SetSt(p, s) == st' = [st EXCEPT ![p] = s]

\* UserMode::poll takes the trap that came in ...
PollTrap(h) ==
  /\ Polling(h, "user") /\ pending[held[h]]
  /\ pending' = [pending EXCEPT ![held[h]] = FALSE]
  /\ SetSt(held[h], "sys")
  /\ UNCHANGED <<ready, tables, taskId, cpus, mode, spawn, kick, ipi>>

\* ... or asks for user mode.
PollUser(h) ==
  /\ Polling(h, "user") /\ ~pending[held[h]]
  /\ target' = [target EXCEPT ![h] = held[h]]
  /\ Goto(h, "putback")
  /\ UNCHANGED <<ready, tables, taskId, pending, current, user, slot, held, spawn,
                 kick, ipi, st>>

\* The event is dealt with: around proc_main's loop, to UserMode.
PollLoop(h) ==
  /\ Polling(h, "sys")
  /\ SetSt(held[h], "user")
  /\ UNCHANGED <<ready, tables, taskId, pending, cpus, mode, spawn, kick, ipi>>

\* A system call awaits something; its waker is registered somewhere.
PollBlock(h) ==
  /\ Polling(h, "sys") \/ Polling(h, "blocked")
  /\ SetSt(held[h], "blocked")
  /\ Goto(h, "putback")
  /\ UNCHANGED <<ready, tables, taskId, pending, cpus, spawn, kick, ipi>>

PollResume(h) ==
  /\ Polling(h, "blocked")
  /\ SetSt(held[h], "sys")
  /\ UNCHANGED <<ready, tables, taskId, pending, cpus, mode, spawn, kick, ipi>>

\* The proc is a zombie: proc_main returns.
PollExit(h) ==
  /\ Polling(h, "sys") /\ held[h] \in Leavers
  /\ SetSt(held[h], "done")
  /\ Goto(h, "recycle")
  /\ UNCHANGED <<ready, tables, taskId, pending, cpus, spawn, kick, ipi>>

\* The system call wakes some task.
PollWake(h, tid) ==
  /\ Polling(h, "sys") /\ Len(ready[tid[1]]) < MaxQueue
  /\ Wake(h, tid)
  /\ UNCHANGED <<tables, taskId, pending, cpus, mode, spawn, ipi, st>>

-----------------------------------------------------------------------------
(* fork: spawn_proc_main and insert_task.  pick_home_cpu compares queue    *)
(* lengths it reads one at a time: any hart may come out.                  *)

\* Vec::pop
Top(q) == q[Len(q)]
Popped(q) == SubSeq(q, 1, Len(q) - 1)

SpawnSlot(h, p, g) ==
  /\ Polling(h, "sys") /\ st[p] = "absent"
  /\ ~\E k \in Harts : spawn[k].task = p
  /\ IF freeSlots[g] # <<>>
       THEN /\ spawn' = [spawn EXCEPT ![h] = [step |-> "publish", task |-> p,
                              home |-> g, slot |-> Top(freeSlots[g])]]
            /\ freeSlots' = [freeSlots EXCEPT ![g] = Popped(@)]
            /\ UNCHANGED nextSlot
       ELSE /\ nextSlot[g] < MaxSlot
            /\ spawn' = [spawn EXCEPT ![h] = [step |-> "publish", task |-> p,
                              home |-> g, slot |-> nextSlot[g]]]
            /\ nextSlot' = [nextSlot EXCEPT ![g] = @ + 1]
            /\ UNCHANGED freeSlots
  /\ Goto(h, "spawn")
  /\ UNCHANGED <<ready, table, taskId, pending, cpus, kick, ipi, st>>

SpawnPublish(h) ==
  /\ mode[h] = "spawn" /\ spawn[h].step = "publish"
  /\ taskId' = [taskId EXCEPT ![spawn[h].task] = <<spawn[h].home, spawn[h].slot>>]
  /\ spawn' = [spawn EXCEPT ![h].step = "insert"]
  /\ UNCHANGED <<ready, tables, pending, cpus, mode, kick, ipi, st>>

SpawnInsert(h) ==
  /\ mode[h] = "spawn" /\ spawn[h].step = "insert"
  /\ table' = [table EXCEPT ![spawn[h].home][spawn[h].slot] = spawn[h].task]
  /\ SetSt(spawn[h].task, "user")
  /\ spawn' = [spawn EXCEPT ![h].step = "enqueue"]
  /\ UNCHANGED <<ready, freeSlots, nextSlot, taskId, pending, cpus, mode, kick,
                 ipi>>

\* No interrupt follows: the home hart finds the task when it next looks.
SpawnEnqueue(h) ==
  /\ mode[h] = "spawn" /\ spawn[h].step = "enqueue"
  /\ ready' = [ready EXCEPT ![spawn[h].home] = Enqueue(@, spawn[h].slot)]
  /\ spawn' = [spawn EXCEPT ![h] = NoSpawn]
  /\ Goto(h, "poll")
  /\ UNCHANGED <<tables, taskId, pending, cpus, kick, ipi, st>>

-----------------------------------------------------------------------------
(* Traps and interrupts                                                    *)

\* rust_usertrap: a system call, a fault, or an interrupt in user mode.
Trap(h) ==
  /\ mode[h] = "user"
  /\ ipi' = [ipi EXCEPT ![h] = FALSE]
  /\ Goto(h, "trap")
  /\ UNCHANGED <<ready, tables, taskId, pending, cpus, spawn, kick, st>>

\* The handler of a timer or device interrupt wakes a task.
TrapWake(h, tid) ==
  /\ mode[h] = "trap" /\ kick[h] = None /\ Len(ready[tid[1]]) < MaxQueue
  /\ Wake(h, tid)
  /\ UNCHANGED <<tables, taskId, pending, cpus, mode, spawn, ipi, st>>

\* Variant: the event is left and nobody told.
PostWakeNot(h) == UNCHANGED <<ready, kick>>

PostWake(h) == Wake(h, taskId[current[h]])

\* Leave the event for proc_main, wake its task, and enter run afresh.
TrapPost(h) ==
  /\ mode[h] = "trap" /\ kick[h] = None
  /\ pending' = [pending EXCEPT ![current[h]] = TRUE]
  /\ PostWake(h)
  /\ user' = [user EXCEPT ![h] = None]
  /\ Goto(h, "pop")
  /\ UNCHANGED <<tables, taskId, current, target, slot, held, spawn, ipi, st>>

\* Interrupts are on.  One that comes during a poll only pushes ids the hart looks
\* at after the poll, and is left to come then.
InKernel(h) == mode[h] \in {"pop", "idle", "asleep"} /\ kick[h] = None

\* A timer tick, a device interrupt or another hart's IPI in kernel mode.  It
\* ends a wfi that has begun; before it, the hart goes on to wfi.
Interrupt(h) ==
  /\ InKernel(h)
  /\ ipi[h] \/ mode[h] = "asleep"
  /\ ipi' = [ipi EXCEPT ![h] = FALSE]
  /\ Goto(h, IF mode[h] = "asleep" THEN "pop" ELSE mode[h])
  /\ UNCHANGED <<ready, tables, taskId, pending, cpus, spawn, kick, st>>

InterruptWake(h, tid) ==
  /\ InKernel(h) /\ Len(ready[tid[1]]) < MaxQueue
  /\ Wake(h, tid)
  /\ Goto(h, IF mode[h] = "asleep" THEN "pop" ELSE mode[h])
  /\ UNCHANGED <<tables, taskId, pending, cpus, spawn, ipi, st>>

-----------------------------------------------------------------------------
\* Ids that have been handed out, and with them wakers.
Issued == {tid \in Tids : tid[2] < nextSlot[tid[1]]}

\* What a hart does of itself.
Run(h) ==
  \/ kick[h] = None /\ (PopEmpty(h) \/ PopStale(h) \/ PopTask(h))
  \/ kick[h] = None /\ (Sleep(h) \/ PutBack(h) \/ Finish(h))
  \/ PollTrap(h) \/ PollUser(h)
  \/ SpawnPublish(h) \/ SpawnInsert(h) \/ SpawnEnqueue(h)
  \/ Trap(h) \/ TrapPost(h)

Return(h) == PollLoop(h) \/ PollBlock(h) \/ PollExit(h)

Stray(h) ==
  \/ PollResume(h)
  \/ \E p \in Procs, g \in Harts : SpawnSlot(h, p, g)
  \/ \E tid \in Issued : PollWake(h, tid) \/ TrapWake(h, tid)
                           \/ InterruptWake(h, tid)

Next ==
  \E h \in Harts : SendIpi(h) \/ Interrupt(h) \/ Run(h) \/ Return(h) \/ Stray(h)

Spec == Init /\ [][Next]_vars

\* Harts run, however often they are interrupted; the timer ends a wfi and a
\* stay in user mode; every poll returns.
FairSpec ==
  /\ Spec
  /\ \A h \in Harts : /\ WF_vars(SendIpi(h)) /\ WF_vars(Interrupt(h))
                       /\ SF_vars(Run(h)) /\ SF_vars(Return(h))

-----------------------------------------------------------------------------
(* Properties                                                              *)

TypeOK ==
  /\ ready \in [Harts -> Seq(Slots)]
  /\ table \in [Harts -> [Slots -> Procs \cup {None}]]
  /\ freeSlots \in [Harts -> Seq(Slots)]
  /\ nextSlot \in [Harts -> 0..MaxSlot]
  /\ taskId \in [Procs -> Tids]
  /\ pending \in [Procs -> BOOLEAN]
  /\ current \in [Harts -> Procs \cup {None}]
  /\ target \in [Harts -> Procs \cup {None}]
  /\ user \in [Harts -> Procs \cup {None}]
  /\ mode \in [Harts -> Modes]
  /\ held \in [Harts -> Procs \cup {None}]
  /\ slot \in [Harts -> Slots]
  /\ spawn \in [Harts -> [step : {"none", "publish", "insert", "enqueue"},
                         task : Procs \cup {None}, home : Harts, slot : Slots]]
  /\ kick \in [Harts -> Harts \cup {None}]
  /\ ipi \in [Harts -> BOOLEAN]
  /\ st \in [Procs -> {"absent", "user", "sys", "blocked", "done"}]

Queued(p) == \E i \in DOMAIN ready[taskId[p][1]] :
               ready[taskId[p][1]][i] = taskId[p][2]

\* A trap that has been posted (usertrap.rs:71) has its task queued on the task's
\* home hart, or under poll there: it cannot be left behind, whatever other
\* wake-ups, stale ids and slot reuse put in the queue.
TrapIsQueued ==
  \A p \in Procs : pending[p] =>
    Queued(p) \/ held[taskId[p][1]] = p

\* A hart in user mode runs the proc it polled last, whose task is its own and
\* awaits the trap, and the trap will be filed with that proc (usertrap.rs:28);
\* and a proc that awaits UserMode without running has a trap or its first poll
\* coming.  Spurious polls (executor.rs:66-69) neither enter user mode out of turn
\* nor strand a task.
UserModeInTurn ==
  /\ \A h \in Harts : mode[h] \in {"user", "trap"} =>
       /\ user[h] = current[h] /\ taskId[user[h]][1] = h
       /\ st[user[h]] = "user" /\ ~pending[user[h]]
  /\ \A p \in Procs : st[p] = "user" /\ (\A h \in Harts : p \notin {user[h], held[h]})
       => pending[p] \/ Queued(p) \/ \E g \in Harts : spawn[g].task = p

\* The raw pointers of a hart (cpu.rs:27-31) never outlive the task: current_proc
\* and, in user mode, the proc that runs are held by the hart's own table.
NoDanglingProc ==
  \A h \in Harts : current[h] # None =>
    /\ st[current[h]] = "done" => mode[h] = "recycle"
    /\ held[h] = current[h] \/ \E s \in Slots : table[h][s] = current[h]

\* Every trap is handled: the queue is first in first out, so neither stray
\* wake-ups nor a program that never sleeps keeps a task waiting for ever.
TrapsHandled == \A p \in Procs : pending[p] ~> ~pending[p]
=============================================================================
