-------------------------------- MODULE Pipe --------------------------------
(***************************************************************************)
(* A pipe (file.rs, syscall.rs): read, write, poll and close of its two    *)
(* ends by the processes that share it after fork, in blocking and         *)
(* non-blocking mode, with processes killed while they wait.  A connected  *)
(* AF_UNIX socket is two such pipes.                                       *)
(*                                                                         *)
(* The bytes themselves do not matter here, only how many are buffered.    *)
(* Each access to the buffer, to an end count or to a waker list is a step *)
(* of its own; tasks that share a hart (Home) switch only where the code   *)
(* awaits.  poll is modelled without a deadline (timeout_ms < 0) and as a  *)
(* single look (timeout_ms = 0).                                           *)
(***************************************************************************)
EXTENDS Integers, FiniteSets

CONSTANTS
  Tasks,   \* the processes, one kernel task each
  Home,    \* the hart each task is polled on
  CAP,     \* PIPE_CAP
  MaxLen,  \* longest read or write, in bytes
  Calls,   \* the system calls made: a subset of {"read", "write", "poll"}
  Modes    \* the values of O_NONBLOCK they are made with

ASSUME PipeAssumption ==
  /\ Tasks # {}
  /\ CAP \in Nat \ {0} /\ MaxLen \in Nat \ {0} /\ Modes \subseteq BOOLEAN

VARIABLES
  fds,               \* the ends, "r" and "w", each process has an fd for
  buf,               \* bytes in the buffer
  readers, writers,  \* end counts: 1 until the description is dropped
  readWaker, writeWaker,
  woken,             \* tasks whose id is in a ready queue
  killed,
  pc, end, nb, need  \* position, end worked on, O_NONBLOCK, bytes to go

pipe == <<buf, readers, writers>>
wakers == <<readWaker, writeWaker>>
args == <<end, nb, need>>
vars == <<fds, pipe, wakers, woken, killed, pc, args>>

MidPoll == {"rreg", "rpop", "reof", "rwake", "rmore",
            "wtop", "wchk", "wreg", "wpush", "wfull", "wwake",
            "pbuf", "pends", "preg", "dec", "hup"}
Parked == {"rparked", "wparked", "pparked"}
PC == MidPoll \cup Parked \cup {"out", "exit", "dead"}

Runs(t) == \A u \in Tasks \ {t} : Home[u] = Home[t] => pc[u] \notin MidPoll

At(t, l) == Runs(t) /\ pc[t] = l
Goto(t, l) == pc' = [pc EXCEPT ![t] = l]

\* The system call returns; proc_main sends a killed process to sys_exit.
Return(t) ==
  /\ Goto(t, IF killed[t] THEN "exit" ELSE "out")
  /\ end' = [end EXCEPT ![t] = "r"]
  /\ nb' = [nb EXCEPT ![t] = FALSE]
  /\ need' = [need EXCEPT ![t] = 0]

Pass(t, l) == Goto(t, l) /\ UNCHANGED args

\* The pipe has been made by sys_pipe and inherited through fork.
Init ==
  /\ fds = [t \in Tasks |-> {"r", "w"}]
  /\ buf = 0 /\ readers = 1 /\ writers = 1
  /\ readWaker = {} /\ writeWaker = {}
  /\ woken = {}
  /\ killed = [t \in Tasks |-> FALSE]
  /\ pc = [t \in Tasks |-> "out"]
  /\ end = [t \in Tasks |-> "r"]
  /\ nb = [t \in Tasks |-> FALSE]
  /\ need = [t \in Tasks |-> 0]

-----------------------------------------------------------------------------
(* Wake-ups.                                                               *)

\* Variant: the waker of the other end is woken.
WakeReadersWrong ==
  /\ woken' = woken \cup writeWaker
  /\ writeWaker' = {}
  /\ UNCHANGED readWaker

\* read_waker.wake_all
WakeReaders ==
  /\ woken' = woken \cup readWaker
  /\ readWaker' = {}
  /\ UNCHANGED writeWaker

\* Variant: nobody is woken.
WakeWritersNot == UNCHANGED <<woken, wakers>>

\* write_waker.wake_all
WakeWriters ==
  /\ woken' = woken \cup writeWaker
  /\ writeWaker' = {}
  /\ UNCHANGED readWaker

\* The executor polls a parked task whose id is queued.
Repoll(t) ==
  /\ Runs(t)
  /\ pc[t] \in Parked
  /\ t \in woken
  /\ woken' = woken \ {t}
  /\ Goto(t, CASE pc[t] = "rparked" -> "rreg"
               [] pc[t] = "wparked" -> "wchk"
               [] pc[t] = "pparked" -> "pbuf")
  /\ UNCHANGED <<fds, pipe, wakers, killed, args>>

\* A wake-up that comes when the task is in user mode is spent there.
SpuriousPoll(t) ==
  /\ At(t, "out")
  /\ t \in woken
  /\ woken' = woken \ {t}
  /\ UNCHANGED <<fds, pipe, wakers, killed, pc, args>>

-----------------------------------------------------------------------------
(* pipe_read and PipeReadByte.                                             *)

Read(t) ==
  /\ At(t, "out")
  /\ "read" \in Calls /\ "r" \in fds[t]
  /\ \E b \in Modes, n \in 1..MaxLen :
       /\ nb' = [nb EXCEPT ![t] = b]
       /\ need' = [need EXCEPT ![t] = n]
       /\ Goto(t, IF b THEN "rpop" ELSE "rreg")
  /\ UNCHANGED <<fds, pipe, wakers, woken, killed, end>>

RegisterReader(t) == readWaker' = readWaker \cup {t}

\* PipeReadByte::poll: a killed reader leaves, others register ...
ReadRegister(t) ==
  /\ At(t, "rreg")
  /\ IF killed[t]
       THEN Return(t) /\ UNCHANGED readWaker
       ELSE RegisterReader(t) /\ Pass(t, "rpop")
  /\ UNCHANGED <<fds, pipe, writeWaker, woken, killed>>

\* ... take a byte ...
ReadPop(t) ==
  /\ At(t, "rpop")
  /\ IF buf > 0
       THEN buf' = buf - 1 /\ Goto(t, "rwake")
       ELSE UNCHANGED buf /\ Goto(t, "reof")
  /\ UNCHANGED <<fds, readers, writers, wakers, woken, killed, args>>

\* Variant: an empty buffer counts as end of file.
AtEofAlways == TRUE

AtEof == writers = 0

\* ... or find none: end of file, EAGAIN, or wait.
ReadEof(t) ==
  /\ At(t, "reof")
  /\ IF AtEof \/ nb[t] THEN Return(t) ELSE Pass(t, "rparked")
  /\ UNCHANGED <<fds, pipe, wakers, woken, killed>>

ReadWake(t) ==
  /\ At(t, "rwake")
  /\ WakeWriters
  /\ Goto(t, "rmore")
  /\ UNCHANGED <<fds, pipe, killed, args>>

\* The byte is stored and the loop goes on while bytes are there; a bad user
\* address ends the call after the byte is taken.
ReadMore(t) ==
  /\ At(t, "rmore")
  /\ \/ /\ need[t] > 1 /\ buf > 0
        /\ need' = [need EXCEPT ![t] = @ - 1]
        /\ Goto(t, IF nb[t] THEN "rpop" ELSE "rreg")
        /\ UNCHANGED <<end, nb>>
     \/ Return(t)
  /\ UNCHANGED <<fds, pipe, wakers, woken, killed>>

-----------------------------------------------------------------------------
(* pipe_write and PipeWriteByte.                                           *)

Write(t) ==
  /\ At(t, "out")
  /\ "write" \in Calls /\ "w" \in fds[t]
  /\ \E b \in Modes, n \in 1..MaxLen :
       /\ nb' = [nb EXCEPT ![t] = b]
       /\ need' = [need EXCEPT ![t] = n]
  /\ Goto(t, "wtop")
  /\ UNCHANGED <<fds, pipe, wakers, woken, killed, end>>

Broken == readers = 0

\* pipe_write's loop: killed or a bad user address, -1.
WriteTop(t) ==
  /\ At(t, "wtop")
  /\ \/ Return(t)
     \/ ~killed[t] /\ Pass(t, "wchk")
  /\ UNCHANGED <<fds, pipe, wakers, woken, killed>>

\* PipeWriteByte::poll: killed or no readers, -1; O_NONBLOCK: no readers, -1.
WriteCheck(t) ==
  /\ At(t, "wchk")
  /\ IF Broken \/ (killed[t] /\ ~nb[t])
       THEN Return(t)
       ELSE Pass(t, IF nb[t] THEN "wpush" ELSE "wreg")
  /\ UNCHANGED <<fds, pipe, wakers, woken, killed>>

WriteRegister(t) ==
  /\ At(t, "wreg")
  /\ writeWaker' = writeWaker \cup {t}
  /\ Goto(t, "wpush")
  /\ UNCHANGED <<fds, pipe, readWaker, woken, killed, args>>

Room == buf < CAP

WritePush(t) ==
  /\ At(t, "wpush")
  /\ IF Room
       THEN buf' = buf + 1 /\ Goto(t, "wwake")
       ELSE /\ UNCHANGED buf
            /\ Goto(t, IF nb[t] THEN "wfull" ELSE "wparked")
  /\ UNCHANGED <<fds, readers, writers, wakers, woken, killed, args>>

\* O_NONBLOCK and full: EPIPE or EAGAIN, or a short count.
WriteFull(t) ==
  /\ At(t, "wfull")
  /\ Return(t)
  /\ UNCHANGED <<fds, pipe, wakers, woken, killed>>

WriteWake(t) ==
  /\ At(t, "wwake")
  /\ WakeReaders
  /\ IF need[t] > 1
       THEN /\ need' = [need EXCEPT ![t] = @ - 1]
            /\ Goto(t, "wtop")
            /\ UNCHANGED <<end, nb>>
       ELSE Return(t)
  /\ UNCHANGED <<fds, pipe, killed>>

-----------------------------------------------------------------------------
(* sys_poll on one end and PollWait.                                       *)

PollCall(t) ==
  /\ At(t, "out")
  /\ "poll" \in Calls
  /\ \E e \in fds[t], b \in Modes :
       /\ end' = [end EXCEPT ![t] = e]
       /\ nb' = [nb EXCEPT ![t] = b]
  /\ Goto(t, "pbuf")
  /\ UNCHANGED <<fds, pipe, wakers, woken, killed, need>>

BufReady(e) == IF e = "r" THEN buf > 0 ELSE buf < CAP
Hangup(e) == IF e = "r" THEN writers = 0 ELSE readers = 0

\* file_revents: POLLIN or POLLOUT from the buffer ...
PollBuf(t) ==
  /\ At(t, "pbuf")
  /\ IF BufReady(end[t]) THEN Return(t) ELSE Pass(t, "pends")
  /\ UNCHANGED <<fds, pipe, wakers, woken, killed>>

\* ... POLLHUP or POLLERR from the count of the other end.
PollEnds(t) ==
  /\ At(t, "pends")
  /\ IF Hangup(end[t]) \/ nb[t] \/ killed[t] THEN Return(t) ELSE Pass(t, "preg")
  /\ UNCHANGED <<fds, pipe, wakers, woken, killed>>

\* PollWait::poll, first time: register and park without another look.
PollRegister(t) ==
  /\ At(t, "preg")
  /\ IF killed[t]
       THEN Goto(t, "pbuf") /\ UNCHANGED wakers
       ELSE /\ IF end[t] = "r"
                 THEN RegisterReader(t) /\ UNCHANGED writeWaker
                 ELSE writeWaker' = writeWaker \cup {t} /\ UNCHANGED readWaker
            /\ Goto(t, "pparked")
  /\ UNCHANGED <<fds, pipe, woken, killed, args>>

-----------------------------------------------------------------------------
(* close, exit and kill.                                                   *)

\* close_fd, or one entry of sys_exit's files.clear(): the fd of end e goes;
\* the last one anywhere drops the open file description.
CloseFd(t, e) ==
  /\ Runs(t)
  /\ pc[t] \in {"out", "exit"}
  /\ e \in fds[t]
  /\ fds' = [fds EXCEPT ![t] = @ \ {e}]
  /\ IF \A u \in Tasks \ {t} : e \notin fds[u]
       THEN /\ end' = [end EXCEPT ![t] = e]
            /\ Goto(t, "dec")
       ELSE UNCHANGED <<end, pc>>
  /\ UNCHANGED <<pipe, wakers, woken, killed, nb, need>>

\* Drop for File: decrement the count of the end ...
DropDec(t) ==
  /\ At(t, "dec")
  /\ IF end[t] = "r"
       THEN readers' = readers - 1 /\ UNCHANGED writers
       ELSE writers' = writers - 1 /\ UNCHANGED readers
  /\ Goto(t, "hup")
  /\ UNCHANGED <<fds, buf, wakers, woken, killed, args>>

\* ... and wake the other end.
DropWake(t) ==
  /\ At(t, "hup")
  /\ IF end[t] = "r" THEN WakeWriters ELSE WakeReaders
  /\ Return(t)
  /\ UNCHANGED <<fds, pipe, killed>>

\* proc_main finds the process killed when it next traps.
KilledTrap(t) ==
  /\ At(t, "out")
  /\ killed[t]
  /\ Goto(t, "exit")
  /\ UNCHANGED <<fds, pipe, wakers, woken, killed, args>>

Exit(t) ==
  /\ At(t, "exit")
  /\ fds[t] = {}
  /\ Goto(t, "dead")
  /\ UNCHANGED <<fds, pipe, wakers, woken, killed, args>>

\* Variant: the flag is set and the target left asleep.
KillQuietly(t) ==
  killed' = [killed EXCEPT ![t] = TRUE] /\ UNCHANGED woken

\* sys_kill's effect on the target: the flag, then executor::wake.
MarkKilled(t) ==
  /\ killed' = [killed EXCEPT ![t] = TRUE]
  /\ woken' = woken \cup {t}

Kill(t) ==
  /\ pc[t] \notin {"exit", "dead"}
  /\ ~killed[t]
  /\ MarkKilled(t)
  /\ UNCHANGED <<fds, pipe, wakers, pc, args>>

-----------------------------------------------------------------------------
Reading(t) ==
  ReadRegister(t) \/ ReadPop(t) \/ ReadEof(t) \/ ReadWake(t) \/ ReadMore(t)
Writing(t) ==
  \/ WriteTop(t) \/ WriteCheck(t) \/ WriteRegister(t) \/ WritePush(t)
  \/ WriteFull(t) \/ WriteWake(t)
Polling(t) == PollBuf(t) \/ PollEnds(t) \/ PollRegister(t)
Closing(t) ==
  \/ DropDec(t) \/ DropWake(t) \/ KilledTrap(t) \/ Exit(t)
  \/ pc[t] = "exit" /\ \E e \in fds[t] : CloseFd(t, e)

Next ==
  \E t \in Tasks :
    \/ Read(t) \/ Write(t) \/ PollCall(t)
    \/ \E e \in fds[t] : CloseFd(t, e)
    \/ Reading(t) \/ Writing(t) \/ Polling(t) \/ Closing(t)
    \/ Repoll(t) \/ SpuriousPoll(t)
    \/ Kill(t)

Spec == Init /\ [][Next]_vars

\* A task goes on with the call it is in, and a queued task is polled (the ready
\* queue is first in, first out).  Nothing obliges a process to call, to close
\* or to be killed.
Fairness ==
  \A t \in Tasks :
    SF_vars(Reading(t) \/ Writing(t) \/ Polling(t) \/ Closing(t) \/ Repoll(t))

FairSpec == Spec /\ Fairness

-----------------------------------------------------------------------------
(* Properties                                                              *)

TypeOK ==
  /\ fds \in [Tasks -> SUBSET {"r", "w"}]
  /\ buf \in 0..CAP
  /\ readers \in 0..1 /\ writers \in 0..1
  /\ readWaker \in SUBSET Tasks /\ writeWaker \in SUBSET Tasks
  /\ woken \in SUBSET Tasks
  /\ killed \in [Tasks -> BOOLEAN]
  /\ pc \in [Tasks -> PC]
  /\ end \in [Tasks -> {"r", "w"}]
  /\ nb \in [Tasks -> BOOLEAN]
  /\ need \in [Tasks -> 0..MaxLen]

\* A read that is about to report end of file has drained the pipe and has no
\* writer left ("EOF: writers all closed and buf empty", syscall.rs:2035).
EofMeansDrained ==
  \A t \in Tasks : pc[t] = "reof" /\ AtEof => buf = 0 /\ writers = 0

\* A reader does not stay parked while there is a byte or an end of file.
ReaderNotStuck ==
  \A t \in Tasks : ~<>[](pc[t] = "rparked" /\ (buf > 0 \/ writers = 0))

\* A writer does not stay parked while there is room or no reader is left.
WriterNotStuck ==
  \A t \in Tasks : ~<>[](pc[t] = "wparked" /\ (buf < CAP \/ readers = 0))

\* A killed process gets out of whatever call it is in and exits, and with it
\* the ends it held are closed (current_proc_killed in every future).
KilledExits == \A t \in Tasks : killed[t] ~> pc[t] = "dead"
=============================================================================
