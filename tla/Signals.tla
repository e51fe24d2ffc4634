------------------------------ MODULE Signals -------------------------------
(***************************************************************************)
(* Signals and what a process may be parked on besides files: kill, the    *)
(* handlers, masks and alarms of syscall.rs, usertrap.rs and time.rs;      *)
(* pause, sleep, and reads of the console (console_in.rs) and the keyboard *)
(* (virtio_input.rs).                                                      *)
(*                                                                         *)
(* Every process has a hart of its own, and so has every interrupt; a step *)
(* is what happens under one lock or to one atomic.                        *)
(***************************************************************************)
EXTENDS Integers, Sequences

CONSTANTS
  Procs, Harts,        \* Harts: those that take timer interrupts
  Inherited,           \* the actions of each process: fork copies the parent's
  Plans,               \* bounds, one of which Init chooses: the calls each process
                       \* makes and how many, how long time passes, which keys are
                       \* pressed and how often
  CAP, COOKED_CAP      \* of the console and of the keyboard

SIGKILL == 9
SIGUSR1 == 10
SIGALRM == 14
SIGCHLD == 17
Sigs == {SIGKILL, SIGUSR1, SIGALRM, SIGCHLD}
sig_default_kills(s) == s # SIGCHLD

SIG_DFL == 0
SIG_IGN == 1
USER == 2    \* any function of the program
Action(h, m, r) == [handler |-> h, mask |-> m, restorer |-> r]
Actions == [handler : {SIG_DFL, SIG_IGN, USER}, mask : SUBSET Sigs, restorer : BOOLEAN]
default_action == Action(SIG_DFL, {}, FALSE)

MAIN == 0

\* A call: whom it is for, a signal, a number (ticks, bytes), a set of signals, an
\* action, O_NONBLOCK; how and deadline are the call's own.
Request(call, who, s, n) ==
  [call |-> call, who |-> who, sig |-> s, n |-> n, set |-> {}, act |-> default_action,
   nonblock |-> FALSE, how |-> "none", d |-> 0, got |-> 0]

NoRequest == Request("none", CHOOSE p \in Procs : TRUE, SIGKILL, 0)

\* What a process may ask for; exec and sigreturn have no arguments.
Calls == {"sigaction", "sigprocmask", "sigreturn", "exec", "kill", "alarm", "pause", "sleep",
          "console_read", "input_read"}
Requests ==
  [call : Calls, who : Procs, sig : Sigs, n : Nat, set : SUBSET Sigs, act : Actions,
   nonblock : BOOLEAN, how : {"none"}, d : {0}, got : {0}]

ASSUME SignalsAssumption ==
  /\ {CAP, COOKED_CAP} \subseteq Nat \ {0}
  /\ Inherited \in [Procs -> [Sigs -> Actions]]
  /\ \A plan \in Plans :
       /\ {plan.time, plan.keys} \subseteq Nat
       /\ plan.max \in [Procs -> Nat]
       /\ plan.calls \in [Procs -> SUBSET Requests]

VARIABLES
  now, timers, alarms,               \* TIMERS and ALARMS
  drain,                             \* what a hart does in a timer interrupt
  killed, pending, blocked, actions, \* Proc.killed, sig_pending, ...
  saved,                             \* sig_saved_frame and sig_saved_blocked
  generation, deadline,              \* Proc.alarm_generation, alarm_deadline
  tf,                                \* the trap frame: what runs, MAIN or the handler
                                     \* of a signal, and whose value is in a0
  pc, arg, left,
  ready, waitWaker,                  \* queued tasks; wait_wakers that are set
  cooked, edit, readers, uart,       \* the console; uart: its wake_all is due
  events, inReaders, input,          \* the keyboard likewise
  keys, plan,
  main                               \* history: the mask of the main program

time == <<now, timers, alarms, drain>>
sig == <<killed, pending, blocked, actions, saved, generation, deadline>>
console == <<cooked, edit, readers, uart>>
keyboard == <<events, inReaders, input>>
wakers == <<ready, waitWaker>>
vars == <<time, sig, tf, pc, arg, left, wakers, console, keyboard, keys, plan, main>>

NoFrame == [tf |-> [at |-> MAIN, a0 |-> MAIN], blocked |-> {}, some |-> FALSE]

Idle == [at |-> <<>>, s |-> "idle", how |-> "none"]

Init ==
  /\ now = 1 /\ timers = <<>> /\ alarms = <<>>
  /\ drain = [h \in Harts |-> Idle]
  /\ killed = [p \in Procs |-> FALSE]
  /\ pending = [p \in Procs |-> {}]
  /\ blocked = [p \in Procs |-> {}]
  /\ actions = Inherited
  /\ saved = [p \in Procs |-> NoFrame]
  /\ generation = [p \in Procs |-> 0]
  /\ deadline = [p \in Procs |-> 0]
  /\ tf = [p \in Procs |-> [at |-> MAIN, a0 |-> MAIN]]
  /\ pc = [p \in Procs |-> "user"]
  /\ arg = [p \in Procs |-> NoRequest]
  /\ plan \in Plans
  /\ left = plan.max
  /\ ready = {} /\ waitWaker = {}
  /\ cooked = <<>> /\ edit = <<>> /\ readers = {} /\ uart = FALSE
  /\ events = 0 /\ inReaders = {} /\ input = FALSE
  /\ keys = plan.keys
  /\ main = [p \in Procs |-> {}]

Goto(p, l) == pc' = [pc EXCEPT ![p] = l]

-----------------------------------------------------------------------------
(* Calls and returns.                                                      *)

Call(p) ==
  /\ pc[p] = "user" /\ left[p] > 0
  /\ \E r \in plan.calls[p] :
       /\ arg' = [arg EXCEPT ![p] = [r EXCEPT !.d = now + r.n]]
       /\ Goto(p, r.call)
  /\ left' = [left EXCEPT ![p] = @ - 1]
  /\ UNCHANGED <<time, sig, tf, wakers, console, keyboard, keys, main>>

\* The handler returns, to the restorer, which calls sigreturn.
HandlerReturn(p) ==
  /\ pc[p] = "user" /\ tf[p].at # MAIN
  /\ Goto(p, "sigreturn")
  /\ UNCHANGED <<time, sig, tf, arg, left, wakers, console, keyboard, keys, main>>

\* A timer or an IPI interrupts the program.
Trap(p) ==
  /\ pc[p] = "user"
  /\ Goto(p, "return")
  /\ UNCHANGED <<time, sig, tf, arg, left, wakers, console, keyboard, keys, main>>

\* The call is over: proc_main stores its result in a0.
Result(p) ==
  /\ Goto(p, "return")
  /\ tf' = [tf EXCEPT ![p].a0 = tf[p].at]
  /\ arg' = [arg EXCEPT ![p] = NoRequest]

Stay(p, l) == Goto(p, l) /\ UNCHANGED <<tf, arg>>

\* The end of proc_main's loop.
KilledCheck(p) ==
  /\ pc[p] = "return"
  /\ Goto(p, IF killed[p] THEN "dead" ELSE "deliver")
  /\ UNCHANGED <<time, sig, tf, arg, left, wakers, console, keyboard, keys, main>>

Deliverable(p) == pending[p] \ blocked[p]

\* Variant: a handler may interrupt a handler.
InFlightNot(p) == FALSE

InFlight(p) == saved[p].some

\* maybe_deliver_signal, then user mode.
Deliver(p) ==
  LET s == CHOOSE s \in Deliverable(p) : \A x \in Deliverable(p) : s <= x
      a == actions[p][s]
  IN
  /\ pc[p] = "deliver"
  /\ Goto(p, "user")
  /\ IF InFlight(p) \/ Deliverable(p) = {} \/ (a.handler = USER /\ ~a.restorer)
     THEN UNCHANGED <<pending, saved, blocked, tf>>
     ELSE /\ pending' = [pending EXCEPT ![p] = @ \ {s}]
          /\ IF a.handler # USER
             THEN UNCHANGED <<saved, blocked, tf>>
             ELSE /\ saved' = [saved EXCEPT ![p] =
                                 [tf |-> tf[p], blocked |-> blocked[p], some |-> TRUE]]
                  /\ blocked' = [blocked EXCEPT ![p] = @ \cup a.mask \cup {s}]
                  /\ tf' = [tf EXCEPT ![p] = [at |-> s, a0 |-> s]]
  /\ UNCHANGED <<time, killed, actions, generation, deadline, arg, left, wakers,
                 console, keyboard, keys, main>>

-----------------------------------------------------------------------------
(* sigaction, sigprocmask, sigreturn, exec.                                *)

Sigaction(p) ==
  /\ pc[p] = "sigaction"
  /\ actions' = IF arg[p].sig = SIGKILL THEN actions
                ELSE [actions EXCEPT ![p][arg[p].sig] = arg[p].act]
  /\ Result(p)
  /\ UNCHANGED <<time, killed, pending, blocked, saved, generation, deadline, left,
                 wakers, console, keyboard, keys, main>>

\* SIG_SETMASK, of which the others are cases.
Sigprocmask(p) ==
  LET new == arg[p].set \ {SIGKILL} IN
  /\ pc[p] = "sigprocmask"
  /\ blocked' = [blocked EXCEPT ![p] = new]
  /\ Result(p)
  /\ main' = IF tf[p].at = MAIN THEN [main EXCEPT ![p] = new] ELSE main
  /\ UNCHANGED <<time, killed, pending, actions, saved, generation, deadline, left,
                 wakers, console, keyboard, keys>>

\* Without a saved frame it fails.
Sigreturn(p) ==
  /\ pc[p] = "sigreturn"
  /\ IF saved[p].some
     THEN /\ tf' = [tf EXCEPT ![p] = saved[p].tf]
          /\ blocked' = [blocked EXCEPT ![p] = saved[p].blocked]
          /\ saved' = [saved EXCEPT ![p] = NoFrame]
          /\ Goto(p, "return")
          /\ UNCHANGED arg
     ELSE /\ Result(p)
          /\ UNCHANGED <<blocked, saved>>
  /\ UNCHANGED <<time, killed, pending, actions, generation, deadline, left, wakers,
                 console, keyboard, keys, main>>

\* replace_image: handlers go, pending signals and the mask stay.
Exec(p) ==
  /\ pc[p] = "exec"
  /\ actions' = [actions EXCEPT ![p] = [s \in Sigs |-> default_action]]
  /\ saved' = [saved EXCEPT ![p] = NoFrame]
  /\ tf' = [tf EXCEPT ![p] = [at |-> MAIN, a0 |-> MAIN]]
  /\ main' = [main EXCEPT ![p] = blocked[p]]
  /\ arg' = [arg EXCEPT ![p] = NoRequest]
  /\ Goto(p, "return")
  /\ UNCHANGED <<time, killed, pending, blocked, generation, deadline, left, wakers,
                 console, keyboard, keys>>

-----------------------------------------------------------------------------
(* kill.  Signals 0 and SIGSTOP change nothing and are left out.           *)

\* What signal s does to q, as its action says: mark it killed, pending or not
\* at all.
Effect(q, s) ==
  CASE s = SIGKILL -> "killed"
    [] s # SIGKILL /\ actions[q][s].handler = SIG_DFL ->
         IF sig_default_kills(s) THEN "killed" ELSE "none"
    [] s # SIGKILL /\ actions[q][s].handler = SIG_IGN -> "none"
    [] s # SIGKILL /\ actions[q][s].handler = USER -> "pending"

Mark(q, s, how) ==
  /\ killed' = IF how = "killed" THEN [killed EXCEPT ![q] = TRUE] ELSE killed
  /\ pending' = IF how = "pending" THEN [pending EXCEPT ![q] = @ \cup {s}] ELSE pending

\* Variant: only the wait_waker is woken, not the task.
WakesCell(q) == waitWaker \cap {q}

\* wait_waker.wake and executor::wake
Wakes(q) == {q}

Wake(q) ==
  /\ ready' = ready \cup Wakes(q)
  /\ waitWaker' = waitWaker \ {q}

KillLook(p) ==
  LET how == Effect(arg[p].who, arg[p].sig) IN
  /\ pc[p] = "kill"
  /\ IF how = "none" THEN Result(p)
     ELSE /\ arg' = [arg EXCEPT ![p].how = how]
          /\ Goto(p, "mark")
          /\ UNCHANGED tf
  /\ UNCHANGED <<time, sig, left, wakers, console, keyboard, keys, main>>

KillMark(p) ==
  /\ pc[p] = "mark"
  /\ Mark(arg[p].who, arg[p].sig, arg[p].how)
  /\ Goto(p, "wake")
  /\ UNCHANGED <<time, blocked, actions, saved, generation, deadline, tf, arg, left,
                 wakers, console, keyboard, keys, main>>

\* All readers of the console are woken too.
KillWake(p) ==
  LET q == arg[p].who IN
  /\ pc[p] = "wake"
  /\ ready' = ready \cup Wakes(q) \cup readers
  /\ waitWaker' = waitWaker \ {q}
  /\ readers' = {}
  /\ Result(p)
  /\ UNCHANGED <<time, sig, left, cooked, edit, uart, keyboard, keys, main>>

-----------------------------------------------------------------------------
(* alarm and timers.                                                       *)

Elems(q) == {q[i] : i \in DOMAIN q}

\* Lists are sorted: those due at time t come first.
Due(q, t) ==
  CHOOSE k \in 0..Len(q) : /\ \A i \in 1..k : q[i].d <= t
                           /\ k < Len(q) => q[k + 1].d > t

\* A new entry goes behind those with its deadline.
Insert(q, e) ==
  LET k == Due(q, e.d) IN SubSeq(q, 1, k) \o <<e>> \o SubSeq(q, k + 1, Len(q))

Expired(q) == SubSeq(q, 1, Due(q, now))
NotExpired(q) == SubSeq(q, Due(q, now) + 1, Len(q))

\* Variant: alarm(0) keeps the generation.
NewGenerationIfAny(p) == IF arg[p].n = 0 THEN generation[p] ELSE generation[p] + 1

NewGeneration(p) == generation[p] + 1

Alarm(p) ==
  /\ pc[p] = "alarm"
  /\ generation' = [generation EXCEPT ![p] = NewGeneration(p)]
  /\ deadline' = [deadline EXCEPT ![p] = IF arg[p].n = 0 THEN 0 ELSE arg[p].d]
  /\ IF arg[p].n = 0 THEN Result(p) ELSE Stay(p, "add_alarm")
  /\ UNCHANGED <<time, killed, pending, blocked, actions, saved, left, wakers,
                 console, keyboard, keys, main>>

AddAlarm(p) ==
  /\ pc[p] = "add_alarm"
  /\ alarms' = Insert(alarms, [d |-> arg[p].d, p |-> p, gen |-> generation[p]])
  /\ Result(p)
  /\ UNCHANGED <<now, timers, drain, sig, left, wakers, console, keyboard, keys, main>>

Pass ==
  /\ now < plan.time
  /\ now' = now + 1
  /\ UNCHANGED <<timers, alarms, drain, sig, tf, pc, arg, left, wakers, console,
                 keyboard, keys, main>>

\* A timer interrupt: drain_expired wakes the sleepers ...  One that finds nothing
\* due changes nothing.
Timer(h) ==
  /\ drain[h].s = "idle" /\ Expired(timers) \o Expired(alarms) # <<>>
  /\ timers' = NotExpired(timers)
  /\ ready' = ready \cup {e.p : e \in Elems(Expired(timers))}
  /\ drain' = [drain EXCEPT ![h].s = "collect"]
  /\ UNCHANGED <<now, alarms, sig, tf, pc, arg, left, waitWaker, console, keyboard,
                 keys, main>>

\* ... and drain_expired_alarms takes the alarms that are due and goes through
\* them.
Collect(h) ==
  /\ drain[h].s = "collect"
  /\ alarms' = NotExpired(alarms)
  /\ drain' = [drain EXCEPT ![h] = [Idle EXCEPT !.at = Expired(alarms), !.s = "look"]]
  /\ UNCHANGED <<now, timers, sig, tf, pc, arg, left, wakers, console, keyboard, keys, main>>

\* The alarm of a process that has set another one since is dropped.
AlarmLook(h) ==
  LET due == drain[h].at
      e == Head(due)
  IN
  /\ drain[h].s = "look"
  /\ drain' = [drain EXCEPT ![h] =
       IF due = <<>> THEN Idle
       ELSE IF generation[e.p] # e.gen THEN [@ EXCEPT !.at = Tail(due)]
       ELSE [@ EXCEPT !.s = "mark", !.how = Effect(e.p, SIGALRM)]]
  /\ UNCHANGED <<now, timers, alarms, sig, tf, pc, arg, left, wakers, console, keyboard,
                 keys, main>>

AlarmMark(h) ==
  /\ drain[h].s = "mark"
  /\ Mark(Head(drain[h].at).p, SIGALRM, drain[h].how)
  /\ drain' = [drain EXCEPT ![h].s = "wake"]
  /\ UNCHANGED <<now, timers, alarms, blocked, actions, saved, generation, deadline, tf,
                 pc, arg, left, wakers, console, keyboard, keys, main>>

AlarmWake(h) ==
  /\ drain[h].s = "wake"
  /\ Wake(Head(drain[h].at).p)
  /\ drain' = [drain EXCEPT ![h] = [Idle EXCEPT !.at = Tail(drain[h].at), !.s = "look"]]
  /\ UNCHANGED <<now, timers, alarms, sig, tf, pc, arg, left, console, keyboard, keys, main>>

-----------------------------------------------------------------------------
(* Parking.                                                                *)

\* A future that returned Pending is polled again when its task is queued.
Repoll(p) ==
  /\ pc[p] = "parked" /\ p \in ready
  /\ ready' = ready \ {p}
  /\ Goto(p, arg[p].call)
  /\ UNCHANGED <<time, sig, tf, arg, left, waitWaker, console, keyboard, keys, main>>

\* The poll of a future starts with a look at `killed'.
Polled(p, call, next) ==
  /\ pc[p] = call
  /\ IF killed[p] THEN Result(p) ELSE Stay(p, next)
  /\ UNCHANGED <<time, sig, left, wakers, console, keyboard, keys, main>>

PauseKilled(p) == Polled(p, "pause", "pause_register")

PauseRegister(p) ==
  /\ pc[p] = "pause_register"
  /\ waitWaker' = waitWaker \cup {p}
  /\ Goto(p, "pause_check")
  /\ UNCHANGED <<time, sig, tf, arg, left, ready, console, keyboard, keys, main>>

PauseCheck(p) ==
  /\ pc[p] = "pause_check"
  /\ IF Deliverable(p) # {} THEN Result(p) ELSE Stay(p, "parked")
  /\ UNCHANGED <<time, sig, left, wakers, console, keyboard, keys, main>>

\* sleep and nanosleep: killed, or the deadline has passed, or a timer.
SleepKilled(p) == Polled(p, "sleep", "sleep_check")

SleepCheck(p) ==
  /\ pc[p] = "sleep_check"
  /\ IF now >= arg[p].d THEN Result(p) ELSE Stay(p, "add_timer")
  /\ UNCHANGED <<time, sig, left, wakers, console, keyboard, keys, main>>

AddTimer(p) ==
  /\ pc[p] = "add_timer"
  /\ timers' = Insert(timers, [d |-> arg[p].d, p |-> p])
  /\ Goto(p, "parked")
  /\ UNCHANGED <<now, alarms, drain, sig, tf, arg, left, wakers, console, keyboard, keys, main>>

-----------------------------------------------------------------------------
(* The console.                                                            *)

EOF == "^D"
NL == "nl"
KEY == "key"    \* of the keyboard

\* Variant: only a newline wakes the readers.
CompletesLine(c) == c = NL

Completes(c) == c \in {NL, EOF}

\* push: the line discipline, for a character that the UART received.
Push ==
  /\ ~uart /\ keys > 0
  /\ keys' = keys - 1
  /\ \E c \in plan.typed \ {KEY} :
       LET used == Len(cooked) + Len(edit)
           fits == used + 1 <= CAP
       IN
       \/ /\ c = "^U"
          /\ edit' = <<>> /\ UNCHANGED <<cooked, uart>>
       \/ /\ c = "bs"
          /\ edit' = IF edit = <<>> THEN edit ELSE SubSeq(edit, 1, Len(edit) - 1)
          /\ UNCHANGED <<cooked, uart>>
       \/ /\ c \in {NL, EOF}
          /\ IF fits
             THEN /\ cooked' = cooked \o edit \o <<c>>
                  /\ edit' = <<>>
                  /\ uart' = Completes(c)
             ELSE UNCHANGED <<cooked, edit, uart>>
       \/ /\ c \notin {"^U", "bs", NL, EOF}
          /\ edit' = IF fits THEN Append(edit, c) ELSE edit
          /\ UNCHANGED <<cooked, uart>>
  /\ UNCHANGED <<time, sig, tf, pc, arg, left, wakers, readers, keyboard, main>>

PushWake ==
  /\ uart
  /\ uart' = FALSE
  /\ ready' = ready \cup readers
  /\ readers' = {}
  /\ UNCHANGED <<time, sig, tf, pc, arg, left, waitWaker, cooked, edit, keyboard, keys, main>>

\* console_read: a blocking one polls ConsoleByte for each byte.
ConsoleKilled(p) ==
  ~arg[p].nonblock /\ Polled(p, "console_read", "console_register")

ConsoleNonblock(p) ==
  /\ pc[p] = "console_read" /\ arg[p].nonblock
  /\ Goto(p, "try_pop")
  /\ UNCHANGED <<time, sig, tf, arg, left, wakers, console, keyboard, keys, main>>

ConsoleRegister(p) ==
  /\ pc[p] = "console_register"
  /\ readers' = readers \cup {p}
  /\ Goto(p, "try_pop")
  /\ UNCHANGED <<time, sig, tf, arg, left, wakers, cooked, edit, uart, keyboard, keys, main>>

\* A line or the buffer ends the read.  An end-of-file mark ends it too, and
\* is put back if there was data before it.
TryPop(p) ==
  LET b == Head(cooked)
      got == arg[p].got + 1
  IN
  /\ pc[p] = "try_pop"
  /\ \/ /\ cooked = <<>>
        /\ IF arg[p].nonblock THEN Result(p) ELSE Stay(p, "parked")
        /\ UNCHANGED cooked
     \/ /\ cooked # <<>> /\ b = EOF
        /\ cooked' = Tail(cooked)
        /\ IF arg[p].got > 0 THEN Stay(p, "unget") ELSE Result(p)
     \/ /\ cooked # <<>> /\ b # EOF
        /\ cooked' = Tail(cooked)
        /\ IF b = NL \/ got = arg[p].n THEN Result(p)
           ELSE /\ arg' = [arg EXCEPT ![p].got = got]
                /\ Goto(p, "console_read")
                /\ UNCHANGED tf
  /\ UNCHANGED <<time, sig, left, wakers, edit, readers, uart, keyboard, keys, main>>

Unget(p) ==
  /\ pc[p] = "unget"
  /\ cooked' = <<EOF>> \o cooked
  /\ Result(p)
  /\ UNCHANGED <<time, sig, left, wakers, edit, readers, uart, keyboard, keys, main>>

-----------------------------------------------------------------------------
(* The keyboard.                                                           *)

\* on_irq: an event that does not fit is dropped.
Event ==
  /\ ~input /\ keys > 0 /\ KEY \in plan.typed
  /\ keys' = keys - 1
  /\ events' = IF events < COOKED_CAP THEN events + 1 ELSE events
  /\ input' = (events < COOKED_CAP)
  /\ UNCHANGED <<time, sig, tf, pc, arg, left, wakers, console, inReaders, main>>

EventWake ==
  /\ input
  /\ input' = FALSE
  /\ ready' = ready \cup inReaders
  /\ inReaders' = {}
  /\ UNCHANGED <<time, sig, tf, pc, arg, left, waitWaker, console, events, keys, main>>

\* input_read; polled again after it has parked, InputWait is ready.
InputKilled(p) == Polled(p, "input_read", "read_nonblock")

ReadNonblock(p) ==
  LET n == IF events < arg[p].n THEN events ELSE arg[p].n IN
  /\ pc[p] = "read_nonblock"
  /\ events' = events - n
  /\ IF n > 0 \/ arg[p].nonblock THEN Result(p)
     ELSE Stay(p, "input_wait")
  /\ UNCHANGED <<time, sig, left, wakers, console, inReaders, input, keys, main>>

InputWait(p) ==
  /\ pc[p] = "input_wait"
  /\ Goto(p, IF events > 0 \/ killed[p] THEN "input_read" ELSE "input_register")
  /\ UNCHANGED <<time, sig, tf, arg, left, wakers, console, keyboard, keys, main>>

InputRegister(p) ==
  /\ pc[p] = "input_register"
  /\ inReaders' = inReaders \cup {p}
  /\ Goto(p, "parked")
  /\ UNCHANGED <<time, sig, tf, arg, left, wakers, console, events, input, keys, main>>

-----------------------------------------------------------------------------
Program(p) == Call(p) \/ HandlerReturn(p) \/ Trap(p) \/ KilledCheck(p) \/ Deliver(p)
SignalCall(p) == Sigaction(p) \/ Sigprocmask(p) \/ Sigreturn(p) \/ Exec(p)
KillCall(p) == KillLook(p) \/ KillMark(p) \/ KillWake(p)
AlarmCall(p) == Alarm(p) \/ AddAlarm(p)
Wait(p) == Repoll(p) \/ PauseKilled(p) \/ PauseRegister(p) \/ PauseCheck(p)
           \/ SleepKilled(p) \/ SleepCheck(p) \/ AddTimer(p)
Input(p) == ConsoleKilled(p) \/ ConsoleNonblock(p) \/ ConsoleRegister(p)
            \/ TryPop(p) \/ Unget(p) \/ InputKilled(p) \/ ReadNonblock(p)
            \/ InputWait(p) \/ InputRegister(p)
Interrupt(h) == Timer(h) \/ Collect(h) \/ AlarmLook(h) \/ AlarmMark(h) \/ AlarmWake(h)

Next ==
  /\ \/ \E p \in Procs : Program(p) \/ SignalCall(p) \/ KillCall(p) \/ AlarmCall(p)
                         \/ Wait(p) \/ Input(p)
     \/ \E h \in Harts : Interrupt(h)
     \/ Pass \/ Push \/ PushWake \/ Event \/ EventWake
  /\ UNCHANGED plan

Spec == Init /\ [][Next]_vars

-----------------------------------------------------------------------------
(* Properties.                                                             *)

\* The task of p is queued, or somebody is about to queue it.
Coming(p) ==
  \/ p \in ready
  \/ \E q \in Procs : pc[q] = "wake" /\ arg[q].who = p
  \/ \E h \in Harts : drain[h].s = "wake" /\ Head(drain[h].at).p = p

\* Nobody stays parked who has a reason to go on: a killed process, whatever it
\* waits for; one in pause with a signal it does not block; a sleeper, who has
\* a timer for its deadline or an earlier one.
ParkedForReason ==
  \A p \in Procs : pc[p] = "parked" /\ ~Coming(p) =>
    /\ ~killed[p]
    /\ arg[p].call = "pause" => Deliverable(p) = {}
    /\ arg[p].call = "sleep" => \E e \in Elems(timers) : e.p = p /\ e.d <= arg[p].d

\* A reader of the console does not stay parked while there are bytes of a line
\* to read, though another reader leaves some or is killed.
ConsoleNotStuck ==
  \A p \in Procs :
    pc[p] = "parked" /\ arg[p].call = "console_read" /\ ~Coming(p) =>
      cooked = <<>> \/ Head(cooked) = EOF \/ (uart /\ p \in readers)

\* The alarm of the latest call, and no earlier one, is still to ring.
Armed(p) ==
  {e \in Elems(alarms) \cup UNION {Elems(drain[h].at) : h \in Harts} :
     e.p = p /\ e.gen = generation[p]}

AlarmScheduled ==
  \A p \in Procs : pc[p] # "add_alarm" =>
    /\ deadline[p] = 0 => Armed(p) = {}
    /\ deadline[p] > now => {e.d : e \in Armed(p)} = {deadline[p]}

\* A handler leaves no trace in the program it interrupts, wherever the signal
\* came in and whatever calls it makes: a0 is the program's own, the mask is the one
\* it has set, and no handler interrupts another.
Resumes ==
  \A p \in Procs :
    LET f == IF saved[p].some THEN saved[p] ELSE [tf |-> tf[p], blocked |-> blocked[p]]
    IN  pc[p] # "dead" =>
          /\ f.tf = [at |-> MAIN, a0 |-> MAIN]
          /\ f.blocked = main[p]
=============================================================================
