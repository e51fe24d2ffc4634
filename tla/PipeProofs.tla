------------------------------ MODULE PipeProofs ----------------------------
(***************************************************************************)
(* Machine-checked proofs about pipes on one hart, for every set of        *)
(* processes that share the pipe, every capacity and every length of a     *)
(* read or write.                                                          *)
(***************************************************************************)
EXTENDS Pipe, TLAPS

\* Most steps are first-order; the others name the backend they need.
USE ZenonT(40)

\* All tasks are polled on the same hart, and so switch only where a future waits.
OneHart == \A t, u \in Tasks : Home[t] = Home[u]

-----------------------------------------------------------------------------
(* The inductive invariant.                                                *)

\* One task at a time is between two awaits.
OnePoll ==
  \A t, u \in Tasks : pc[t] \in MidPoll /\ pc[u] \in MidPoll => t = u

\* The end e is open: some process has an fd for it, or is about to drop the last.
Open(e) == \E t \in Tasks : e \in fds[t] \/ (pc[t] = "dec" /\ end[t] = e)

\* The count of an end is up as long as the end is open, and the process that
\* drops the last fd is the only one to take it down.
EndCounts ==
  /\ readers = 1 <=> Open("r")
  /\ writers = 1 <=> Open("w")
  /\ \A t \in Tasks : pc[t] = "dec" => \A u \in Tasks : end[t] \notin fds[u]

\* What a future saw at the start of its poll is still so at the end of it.
PollStands(t) ==
  /\ pc[t] = "reof" => buf = 0
  /\ pc[t] \in {"wreg", "wpush"} => readers # 0
  /\ pc[t] \in {"pends", "preg"} => ~BufReady(end[t])
  /\ pc[t] = "preg" => ~Hangup(end[t])
  /\ pc[t] \in {"rpop", "reof"} /\ ~nb[t] => t \in readWaker
  /\ pc[t] = "wpush" /\ ~nb[t] => t \in writeWaker
  /\ pc[t] \in {"rparked", "wparked"} => ~nb[t]

\* The end that a parked task waits on
Awaits(t) == IF pc[t] = "rparked" THEN "r" ELSE IF pc[t] = "wparked" THEN "w" ELSE end[t]

WakerOf(e) == IF e = "r" THEN readWaker ELSE writeWaker

\* There is nothing to do on the end e.
Idle(e) == ~BufReady(e) /\ ~Hangup(e)

\* u is about to wake those who wait on the end e.
Wakes(u, e) ==
  \/ pc[u] = (IF e = "r" THEN "wwake" ELSE "rwake")
  \/ pc[u] = "hup" /\ end[u] # e

\* A parked task that is not queued has its waker in place, and has nothing to
\* do: or whoever changed that has still to wake it.
WakeComes(t) ==
  pc[t] \in Parked /\ t \notin woken =>
    /\ t \in WakerOf(Awaits(t))
    /\ Idle(Awaits(t)) \/ \E u \in Tasks : Wakes(u, Awaits(t))

\* A process killed after it has looked at its flag is queued.
KillComes(t) ==
  /\ killed[t] /\ pc[t] \in Parked => t \in woken
  /\ killed[t] /\ pc[t] \in {"rpop", "reof", "wreg", "wpush"} /\ ~nb[t] => t \in woken

PipeInv ==
  /\ TypeOK /\ OnePoll /\ EndCounts
  /\ \A t \in Tasks : PollStands(t) /\ WakeComes(t) /\ KillComes(t)

-----------------------------------------------------------------------------
(* What a step of one task means for the others.                           *)

\* The other tasks of t's hart are not in mid-poll, and t's step is not theirs.
Others(t) ==
  \A u \in Tasks \ {t} :
    /\ pc[u] \notin MidPoll /\ pc'[u] = pc[u]
    /\ fds'[u] = fds[u] /\ end'[u] = end[u] /\ nb'[u] = nb[u] /\ killed'[u] = killed[u]

\* The task that takes a step is alone in mid-poll.
LEMMA Alone ==
  ASSUME OneHart, NEW t \in Tasks, Runs(t)
  PROVE  \A u \in Tasks \ {t} : pc[u] \notin MidPoll
  BY DEF OneHart, Runs

\* Nothing is lost for the others when whoever of them had nothing to do still has
\* nothing to do, is about to be woken, or has been.
LEMMA StepInv ==
  ASSUME PipeInv, TypeOK', EndCounts', NEW t \in Tasks, Others(t),
         PollStands(t)', WakeComes(t)', KillComes(t)',
         \A u \in Tasks \ {t} : u \in woken => u \in woken',
         \A u \in Tasks \ {t}, e \in {"r", "w"} :
           u \in WakerOf(e) => u \in WakerOf(e)' \/ u \in woken',
         \A e \in {"r", "w"} : Idle(e) \/ Wakes(t, e) =>
           Idle(e)' \/ Wakes(t, e)' \/ \A u \in Tasks \ {t} : u \in WakerOf(e) => u \in woken'
  PROVE  PipeInv'
<1>a. TypeOK  BY DEF PipeInv
<1>d. OnePoll  BY DEF PipeInv
<1>c. \A u \in Tasks : PollStands(u) /\ WakeComes(u) /\ KillComes(u)  BY DEF PipeInv
<1>1. OnePoll'  BY <1>d DEF OnePoll, Others
<1>2. ASSUME NEW u \in Tasks \ {t}
      PROVE  PollStands(u)' /\ KillComes(u)'
  <2>1. /\ pc'[u] = pc[u] /\ pc[u] \notin MidPoll /\ nb'[u] = nb[u]
        /\ killed'[u] = killed[u] /\ end'[u] = end[u]
    BY <1>2 DEF Others
  <2>2. PollStands(u)'  BY <1>c, <1>2, <2>1 DEF PollStands, MidPoll
  <2>3. KillComes(u)'  BY <1>c, <1>2, <2>1 DEF KillComes, MidPoll
  <2> QED  BY <2>2, <2>3
<1>3. ASSUME NEW u \in Tasks \ {t}, pc'[u] \in Parked, u \notin woken'
      PROVE  /\ u \in WakerOf(Awaits(u))'
             /\ Idle(Awaits(u))' \/ \E v \in Tasks : Wakes(v, Awaits(u))'
  <2>1. /\ pc'[u] = pc[u] /\ Awaits(u)' = Awaits(u) /\ u \notin woken
        /\ Awaits(u) \in {"r", "w"}
    BY <1>a, <1>3 DEF Others, Awaits, TypeOK
  <2>2. PICK e \in {"r", "w"} : e = Awaits(u)  BY <2>1
  <2>3. u \in WakerOf(e) /\ (Idle(e) \/ \E v \in Tasks : Wakes(v, e))
    BY <1>c, <1>3, <2>1, <2>2 DEF WakeComes
  <2>4. \A v \in Tasks \ {t} : ~Wakes(v, e)
    BY DEF Others, Wakes, MidPoll
  <2>5. Idle(e) \/ Wakes(t, e)  BY <2>3, <2>4
  <2>6. Idle(e)' \/ Wakes(t, e)'  BY <1>3, <2>3, <2>5
  <2>7. u \in WakerOf(e)'  BY <1>3, <2>3
  <2>8. Idle(Awaits(u))' = Idle(e)' /\ WakerOf(Awaits(u))' = WakerOf(e)'
    BY SMT, <2>1, <2>2 DEF Idle, WakerOf, BufReady, Hangup
  <2>9. Wakes(t, Awaits(u))' = Wakes(t, e)'  BY <2>1, <2>2 DEF Wakes
  <2> QED  BY <2>6, <2>7, <2>8, <2>9
<1>4. \A u \in Tasks \ {t} : WakeComes(u)'  BY <1>c, <1>3 DEF WakeComes
<1> QED  BY <1>1, <1>2, <1>4 DEF PipeInv

\* A step that touches no fd and no count, and is not in the middle of a drop.
LEMMA EndsSame ==
  ASSUME PipeInv, NEW t \in Tasks, Others(t), fds' = fds,
         readers' = readers, writers' = writers, pc[t] # "dec", pc'[t] # "dec"
  PROVE  EndCounts'
  BY DEF PipeInv, EndCounts, Open, Others, MidPoll

-----------------------------------------------------------------------------
(* The steps.                                                              *)

LEMMA InitInv == Init => PipeInv
<1> SUFFICES ASSUME Init  PROVE PipeInv
  OBVIOUS
<1> USE PipeAssumption DEF Init
<1>1. TypeOK  BY SMT DEF TypeOK, PC
<1>2. OnePoll  BY DEF OnePoll, MidPoll
<1>3. EndCounts  BY DEF EndCounts, Open
<1>4. \A t \in Tasks : PollStands(t) /\ WakeComes(t) /\ KillComes(t)
  BY DEF PollStands, WakeComes, KillComes, Parked
<1> QED  BY <1>1, <1>2, <1>3, <1>4 DEF PipeInv

\* Where a task waits for nothing and has nothing to remember.
Plain == {"out", "exit", "dead", "rreg", "rwake", "rmore", "wtop", "wchk", "wfull",
          "wwake", "pbuf", "dec", "hup"}

LEMMA PlainIsFine ==
  ASSUME NEW t \in Tasks, pc'[t] \in Plain
  PROVE  PollStands(t)' /\ WakeComes(t)' /\ KillComes(t)'
  BY DEF Plain, PollStands, WakeComes, KillComes, Parked

\* A step that changes nothing but where its task is and what it is about.
LEMMA ControlInv ==
  ASSUME PipeInv, TypeOK', NEW t \in Tasks, Others(t),
         PollStands(t)', WakeComes(t)', KillComes(t)',
         pc[t] \notin {"rwake", "wwake", "dec", "hup"}, pc'[t] # "dec",
         UNCHANGED <<fds, buf, readers, writers, readWaker, writeWaker, woken>>
  PROVE  PipeInv'
<1>1. EndCounts'  BY EndsSame
<1>2. \A e \in {"r", "w"} : /\ WakerOf(e)' = WakerOf(e) /\ Idle(e)' = Idle(e)
                            /\ ~Wakes(t, e)
  BY DEF WakerOf, Idle, BufReady, Hangup, Wakes
<1> QED  BY <1>1, <1>2, StepInv

\* Such a step, to a place that is plain.
LEMMA PlainInv ==
  ASSUME PipeInv, OneHart, NEW t \in Tasks, NEW l \in Plain \ {"dec"},
         Runs(t), pc[t] \notin {"rwake", "wwake", "dec", "hup"},
         pc' = [pc EXCEPT ![t] = l],
         NEW x \in {"r", "w"}, end' = [end EXCEPT ![t] = x],
         NEW b \in BOOLEAN, nb' = [nb EXCEPT ![t] = b],
         NEW n \in 0..MaxLen, need' = [need EXCEPT ![t] = n],
         UNCHANGED <<fds, buf, readers, writers, readWaker, writeWaker, woken, killed>>
  PROVE  PipeInv'
<1>1. TypeOK'  BY DEF PipeInv, TypeOK, Plain, PC, MidPoll
<1>2. pc'[t] = l  BY DEF PipeInv, TypeOK
<1>3. Others(t)  BY Alone DEF PipeInv, TypeOK, Others
<1> QED  BY <1>1, <1>2, <1>3, PlainIsFine, ControlInv

\* Return leaves the call with its arguments cleared.
LEMMA ReturnInv ==
  ASSUME PipeInv, OneHart, NEW t \in Tasks, Runs(t), Return(t),
         pc[t] \notin {"rwake", "wwake", "dec", "hup"},
         UNCHANGED <<fds, buf, readers, writers, readWaker, writeWaker, woken, killed>>
  PROVE  PipeInv'
<1>1. PICK l \in Plain \ {"dec"} : pc' = [pc EXCEPT ![t] = l]
  <2>1. (IF killed[t] THEN "exit" ELSE "out") \in Plain \ {"dec"}  BY DEF Plain
  <2> QED  BY <2>1 DEF Return, Goto
<1>2. /\ end' = [end EXCEPT ![t] = "r"] /\ nb' = [nb EXCEPT ![t] = FALSE]
      /\ need' = [need EXCEPT ![t] = 0]
  BY DEF Return
<1>3. 0 \in 0..MaxLen  BY SMT, PipeAssumption
<1> QED  BY <1>1, <1>2, <1>3, PlainInv

\* A step to another place of the call, its arguments kept.
LEMMA PassInv ==
  ASSUME PipeInv, OneHart, NEW t \in Tasks, NEW l \in PC \ {"dec"}, Runs(t),
         pc[t] \notin {"rwake", "wwake", "dec", "hup"},
         pc' = [pc EXCEPT ![t] = l], PollStands(t)', WakeComes(t)', KillComes(t)',
         UNCHANGED <<fds, buf, readers, writers, readWaker, writeWaker, woken, killed,
                     end, nb, need>>
  PROVE  PipeInv'
<1>1. TypeOK'  BY DEF PipeInv, TypeOK
<1>2. pc'[t] = l  BY DEF PipeInv, TypeOK
<1>3. Others(t)  BY Alone DEF PipeInv, TypeOK, Others
<1> QED  BY <1>1, <1>2, <1>3, ControlInv

\* The same with a plain place.
LEMMA PassPlainInv ==
  ASSUME PipeInv, OneHart, NEW t \in Tasks, NEW l \in Plain \ {"dec"}, Runs(t),
         pc[t] \notin {"rwake", "wwake", "dec", "hup"}, pc' = [pc EXCEPT ![t] = l],
         UNCHANGED <<fds, buf, readers, writers, readWaker, writeWaker, woken, killed,
                     end, nb, need>>
  PROVE  PipeInv'
<1>1. pc'[t] = l /\ l \in PC  BY DEF PipeInv, TypeOK, Plain, PC, MidPoll
<1> QED  BY <1>1, PlainIsFine, PassInv

\* The calls, and what leads out of them to exit.
LEMMA CallInv ==
  ASSUME PipeInv, OneHart, NEW t \in Tasks,
         Read(t) \/ Write(t) \/ PollCall(t) \/ KilledTrap(t) \/ Exit(t)
  PROVE  PipeInv'
<1>a. TypeOK  BY DEF PipeInv
<1>c. \A u \in Tasks : PollStands(u) /\ WakeComes(u) /\ KillComes(u)  BY DEF PipeInv
<1>0. /\ end[t] \in {"r", "w"} /\ nb[t] \in BOOLEAN /\ need[t] \in 0..MaxLen
      /\ end = [end EXCEPT ![t] = end[t]] /\ nb = [nb EXCEPT ![t] = nb[t]]
      /\ need = [need EXCEPT ![t] = need[t]]
  BY <1>a DEF TypeOK
<1>1. CASE Read(t)
  <2>1. PICK b \in BOOLEAN, n \in 0..MaxLen :
          /\ pc[t] = "out" /\ Runs(t)
          /\ nb' = [nb EXCEPT ![t] = b] /\ need' = [need EXCEPT ![t] = n]
          /\ pc' = [pc EXCEPT ![t] = IF b THEN "rpop" ELSE "rreg"]
          /\ UNCHANGED <<fds, buf, readers, writers, readWaker, writeWaker, woken, killed,
                         end>>
    <3>1. PICK b \in Modes, n \in 1..MaxLen :
            /\ nb' = [nb EXCEPT ![t] = b] /\ need' = [need EXCEPT ![t] = n]
            /\ pc' = [pc EXCEPT ![t] = IF b THEN "rpop" ELSE "rreg"]
      BY <1>1 DEF Read, Goto
    <3>2. b \in BOOLEAN /\ n \in 0..MaxLen  BY SMT, PipeAssumption
    <3> QED  BY <1>1, <3>1, <3>2 DEF Read, At, pipe, wakers
  <2>2. CASE b
    <3>1. TypeOK'  BY <1>a, <2>1, <2>2 DEF TypeOK, PC, MidPoll
    <3>2. pc'[t] = "rpop" /\ nb'[t]  BY <1>a, <2>1, <2>2 DEF TypeOK
    <3>3. Others(t)  BY <1>a, <2>1, Alone DEF TypeOK, Others
    <3>4. PollStands(t)' /\ WakeComes(t)' /\ KillComes(t)'
      BY <1>c, <3>2 DEF PollStands, WakeComes, KillComes, Parked
    <3> QED  BY <2>1, <3>1, <3>2, <3>3, <3>4, ControlInv
  <2>3. CASE ~b
    <3>1. "rreg" \in Plain \ {"dec"} /\ pc' = [pc EXCEPT ![t] = "rreg"]
      BY <2>1, <2>3 DEF Plain
    <3> QED  BY <1>0, <2>1, <3>1, PlainInv
  <2> QED  BY <2>2, <2>3
<1>2. CASE Write(t)
  <2>1. PICK b \in BOOLEAN, n \in 0..MaxLen :
          /\ pc[t] = "out" /\ Runs(t)
          /\ nb' = [nb EXCEPT ![t] = b] /\ need' = [need EXCEPT ![t] = n]
          /\ pc' = [pc EXCEPT ![t] = "wtop"]
          /\ UNCHANGED <<fds, buf, readers, writers, readWaker, writeWaker, woken, killed,
                         end>>
    <3>1. PICK b \in Modes, n \in 1..MaxLen :
            /\ nb' = [nb EXCEPT ![t] = b] /\ need' = [need EXCEPT ![t] = n]
            /\ pc' = [pc EXCEPT ![t] = "wtop"]
      BY <1>2 DEF Write, Goto
    <3>2. b \in BOOLEAN /\ n \in 0..MaxLen  BY SMT, PipeAssumption
    <3> QED  BY <1>2, <3>1, <3>2 DEF Write, At, pipe, wakers
  <2>2. "wtop" \in Plain \ {"dec"}  BY DEF Plain
  <2> QED  BY <1>0, <2>1, <2>2, PlainInv
<1>3. CASE PollCall(t)
  <2>1. PICK b \in BOOLEAN, x \in {"r", "w"} :
          /\ pc[t] = "out" /\ Runs(t)
          /\ nb' = [nb EXCEPT ![t] = b] /\ end' = [end EXCEPT ![t] = x]
          /\ pc' = [pc EXCEPT ![t] = "pbuf"]
          /\ UNCHANGED <<fds, buf, readers, writers, readWaker, writeWaker, woken, killed,
                         need>>
    <3>1. fds[t] \subseteq {"r", "w"}  BY <1>a DEF TypeOK
    <3>2. PICK x \in fds[t], b \in Modes :
            nb' = [nb EXCEPT ![t] = b] /\ end' = [end EXCEPT ![t] = x]
      BY <1>3 DEF PollCall
    <3>3. x \in {"r", "w"} /\ b \in BOOLEAN  BY <3>1, PipeAssumption
    <3> QED  BY <1>3, <3>2, <3>3 DEF PollCall, At, Goto, pipe, wakers
  <2>2. "pbuf" \in Plain \ {"dec"}  BY DEF Plain
  <2> QED  BY <1>0, <2>1, <2>2, PlainInv
<1>4. CASE KilledTrap(t) \/ Exit(t)
  <2>1. PICK l \in Plain \ {"dec"} : pc' = [pc EXCEPT ![t] = l]
    <3>1. {"exit", "dead"} \subseteq Plain \ {"dec"}  BY DEF Plain
    <3>2. \E l \in {"exit", "dead"} : pc' = [pc EXCEPT ![t] = l]
      BY <1>4 DEF KilledTrap, Exit, Goto
    <3> QED  BY <3>1, <3>2
  <2> QED  BY <1>4, <2>1, PassPlainInv DEF KilledTrap, Exit, At, pipe, wakers, args
<1> QED  BY <1>1, <1>2, <1>3, <1>4

\* The steps of read and poll that give up, find nothing, or go round.
LEMMA LookInv ==
  ASSUME PipeInv, OneHart, NEW t \in Tasks,
         \/ ReadRegister(t) /\ killed[t]
         \/ ReadPop(t) /\ ~(buf > 0)
         \/ ReadEof(t) \/ ReadMore(t)
         \/ PollBuf(t) \/ PollEnds(t)
         \/ PollRegister(t) /\ killed[t]
  PROVE  PipeInv'
<1>a. TypeOK  BY DEF PipeInv
<1>c. \A u \in Tasks : PollStands(u) /\ WakeComes(u) /\ KillComes(u)  BY DEF PipeInv
<1>0. /\ Runs(t)
      /\ pc[t] \in {"rreg", "rpop", "reof", "rmore", "pbuf", "pends", "preg"}
      /\ UNCHANGED <<fds, buf, readers, writers, readWaker, writeWaker, woken, killed>>
  BY DEF ReadRegister, ReadPop, ReadEof, ReadMore, PollBuf, PollEnds, PollRegister, At,
     pipe, wakers
<1>1. CASE Return(t)  BY <1>0, <1>1, ReturnInv
<1>2. ASSUME NEW l \in {"reof", "rparked", "pends", "preg", "pbuf"},
             pc' = [pc EXCEPT ![t] = l], UNCHANGED args,
             l = "reof" => pc[t] = "rpop" /\ buf = 0,
             l = "rparked" => pc[t] = "reof" /\ ~nb[t] /\ writers # 0,
             l = "pends" => ~BufReady(end[t]),
             l = "preg" => pc[t] = "pends" /\ ~Hangup(end[t])
      PROVE  PipeInv'
  <2>1. pc'[t] = l /\ l \in PC \ {"dec"}  BY <1>a, <1>2 DEF TypeOK, PC, MidPoll, Parked
  <2>2. UNCHANGED <<end, nb, need>>  BY <1>2 DEF args
  <2>3. PollStands(t)'
    BY <1>c, <1>0, <1>2, <2>1, <2>2 DEF PollStands, BufReady, Hangup
  <2>4. KillComes(t)'
    BY <1>c, <1>0, <1>2, <2>1, <2>2 DEF KillComes, Parked
  <2>5. WakeComes(t)'
    BY SMT, <1>a, <1>c, <1>0, <1>2, <2>1, <2>2 DEF WakeComes, PollStands, Awaits, WakerOf, Idle, BufReady,
       Hangup, Parked, TypeOK
  <2> QED  BY <1>0, <1>2, <2>1, <2>2, <2>3, <2>4, <2>5, PassInv
<1>3. CASE ReadRegister(t) /\ killed[t]  BY <1>1, <1>3 DEF ReadRegister
<1>4. CASE ReadPop(t) /\ ~(buf > 0)
  <2>1. buf = 0 /\ pc' = [pc EXCEPT ![t] = "reof"] /\ pc[t] = "rpop" /\ UNCHANGED args
    BY SMT, <1>a, <1>4, PipeAssumption DEF ReadPop, Goto, At, TypeOK
  <2> QED  BY <1>2, <2>1
<1>5. CASE ReadEof(t)
  BY <1>1, <1>2, <1>5 DEF ReadEof, AtEof, Pass, Goto, At
<1>6. CASE PollBuf(t)
  BY <1>1, <1>2, <1>6 DEF PollBuf, Pass, Goto, At
<1>7. CASE PollEnds(t)
  BY <1>1, <1>2, <1>7 DEF PollEnds, Pass, Goto, At
<1>8. CASE PollRegister(t) /\ killed[t]
  BY <1>2, <1>8 DEF PollRegister, Goto, At
<1>9. CASE ReadMore(t) /\ ~Return(t)
  <2>1. /\ need' = [need EXCEPT ![t] = @ - 1] /\ need[t] > 1
        /\ pc' = [pc EXCEPT ![t] = IF nb[t] THEN "rpop" ELSE "rreg"]
        /\ UNCHANGED <<end, nb>>
    BY <1>9 DEF ReadMore, Goto
  <2>2. TypeOK'
    <3>1. need[t] - 1 \in 0..MaxLen  BY SMT, <1>a, <2>1, PipeAssumption DEF TypeOK
    <3>2. need' \in [Tasks -> 0..MaxLen]  BY <1>a, <2>1, <3>1 DEF TypeOK
    <3>3. pc' \in [Tasks -> PC]  BY <1>a, <2>1 DEF TypeOK, PC, MidPoll
    <3> QED  BY <1>a, <1>0, <2>1, <3>2, <3>3 DEF TypeOK
  <2>3. pc'[t] = (IF nb[t] THEN "rpop" ELSE "rreg")  BY <1>a, <2>1 DEF TypeOK
  <2>4. Others(t)  BY <1>a, <1>0, <2>1, Alone DEF TypeOK, Others
  <2>5. PollStands(t)' /\ WakeComes(t)' /\ KillComes(t)'
    BY SMT, <2>1, <2>3 DEF PollStands, WakeComes, KillComes, Parked
  <2> QED  BY <1>0, <2>2, <2>3, <2>4, <2>5, ControlInv
<1> QED  BY <1>1, <1>3, <1>4, <1>5, <1>6, <1>7, <1>8, <1>9

\* The steps of write that give up, find no room, or go on to the next check.
LEMMA TryInv ==
  ASSUME PipeInv, OneHart, NEW t \in Tasks,
         WriteTop(t) \/ WriteCheck(t) \/ (WritePush(t) /\ ~Room) \/ WriteFull(t)
  PROVE  PipeInv'
<1>a. TypeOK  BY DEF PipeInv
<1>c. \A u \in Tasks : PollStands(u) /\ WakeComes(u) /\ KillComes(u)  BY DEF PipeInv
<1>0. /\ Runs(t) /\ pc[t] \in {"wtop", "wchk", "wpush", "wfull"}
      /\ UNCHANGED <<fds, buf, readers, writers, readWaker, writeWaker, woken, killed>>
  BY DEF WriteTop, WriteCheck, WritePush, WriteFull, At, pipe, wakers
<1>1. CASE Return(t)  BY <1>0, <1>1, ReturnInv
<1>2. ASSUME NEW l \in {"wchk", "wreg", "wpush", "wfull", "wparked"},
             pc' = [pc EXCEPT ![t] = l], UNCHANGED args,
             l \in {"wreg", "wpush"} => readers # 0,
             l = "wreg" => ~killed[t],
             l = "wpush" => nb[t],
             l = "wparked" => ~nb[t] /\ pc[t] = "wpush" /\ ~Room
      PROVE  PipeInv'
  <2>1. pc'[t] = l /\ l \in PC \ {"dec"}  BY <1>a, <1>2 DEF TypeOK, PC, MidPoll, Parked
  <2>2. UNCHANGED <<end, nb, need>>  BY <1>2 DEF args
  <2>3. PollStands(t)'  BY <1>c, <1>0, <1>2, <2>1, <2>2 DEF PollStands
  <2>4. KillComes(t)'  BY <1>c, <1>0, <1>2, <2>1, <2>2 DEF KillComes, Parked
  <2>5. WakeComes(t)'
    <3>1. CASE l # "wparked"  BY <1>c, <1>2, <2>1, <3>1 DEF WakeComes, Parked
    <3>2. CASE l = "wparked"
      <4>1. t \in writeWaker /\ readers # 0 /\ ~(buf < CAP)
        BY <1>c, <1>2, <3>2 DEF PollStands, Room
      <4> QED  BY <1>c, <1>0, <2>1, <3>2, <4>1 DEF WakeComes, Awaits, WakerOf, Idle, BufReady, Hangup
    <3> QED  BY <3>1, <3>2
  <2> QED  BY <1>0, <1>2, <2>1, <2>2, <2>3, <2>4, <2>5, PassInv
<1>3. CASE WriteTop(t)  BY <1>1, <1>2, <1>3 DEF WriteTop, Pass, Goto
<1>4. CASE WriteCheck(t)
  BY <1>1, <1>2, <1>4 DEF WriteCheck, Broken, Pass, Goto
<1>5. CASE WritePush(t) /\ ~Room
  BY <1>2, <1>5 DEF WritePush, Goto, At
<1>6. CASE WriteFull(t)  BY <1>1, <1>6 DEF WriteFull
<1> QED  BY <1>3, <1>4, <1>5, <1>6

\* A reader, a writer or a poller puts its waker in the list of its end.
LEMMA RegisterInv ==
  ASSUME PipeInv, OneHart, NEW t \in Tasks,
         \/ ReadRegister(t) /\ ~killed[t]
         \/ WriteRegister(t)
         \/ PollRegister(t) /\ ~killed[t]
  PROVE  PipeInv'
<1>a. TypeOK  BY DEF PipeInv
<1>c. \A u \in Tasks : PollStands(u) /\ WakeComes(u) /\ KillComes(u)  BY DEF PipeInv
<1>1. PICK l \in {"rpop", "wpush", "pparked"} :
        /\ Runs(t) /\ pc' = [pc EXCEPT ![t] = l]
        /\ pc[t] = (IF l = "rpop" THEN "rreg" ELSE IF l = "wpush" THEN "wreg" ELSE "preg")
        /\ readWaker \subseteq readWaker' /\ writeWaker \subseteq writeWaker'
        /\ readWaker' \subseteq readWaker \cup {t} /\ writeWaker' \subseteq writeWaker \cup {t}
        /\ l = "rpop" \/ (l = "pparked" /\ end[t] = "r") => t \in readWaker'
        /\ l = "wpush" \/ (l = "pparked" /\ end[t] # "r") => t \in writeWaker'
        /\ l # "wpush" => ~killed[t]
        /\ UNCHANGED <<fds, buf, readers, writers, woken, killed, end, nb, need>>
  <2>1. CASE ReadRegister(t) /\ ~killed[t]
    BY <2>1 DEF ReadRegister, RegisterReader, Pass, At, Goto, pipe, args
  <2>2. CASE WriteRegister(t)
    BY <2>2 DEF WriteRegister, At, Goto, pipe, args
  <2>3. CASE PollRegister(t) /\ ~killed[t]
    BY <2>3 DEF PollRegister, RegisterReader, At, Goto, pipe, args
  <2> QED  BY <2>1, <2>2, <2>3
<1>2. TypeOK'  BY <1>a, <1>1 DEF TypeOK, PC, MidPoll, Parked
<1>3. pc'[t] = l  BY <1>a, <1>1 DEF TypeOK
<1>4. Others(t)  BY <1>a, <1>1, Alone DEF TypeOK, Others
<1>5. EndCounts'  BY <1>1, <1>3, <1>4, EndsSame
<1>6. PollStands(t)'  BY <1>c, <1>1, <1>3 DEF PollStands
<1>7. KillComes(t)'  BY <1>c, <1>1, <1>3 DEF KillComes, Parked
<1>8. WakeComes(t)'
  <2>1. CASE l # "pparked"  BY <1>c, <1>3, <2>1 DEF WakeComes, Parked
  <2>2. CASE l = "pparked"
    <3>1. ~BufReady(end[t]) /\ ~Hangup(end[t])  BY <1>c, <1>1, <2>2 DEF PollStands
    <3>2. Awaits(t)' = end[t]  BY <1>1, <1>3, <2>2 DEF Awaits
    <3>3. Idle(Awaits(t))'  BY <1>1, <3>1, <3>2 DEF Idle, BufReady, Hangup
    <3>4. t \in WakerOf(Awaits(t))'  BY <1>1, <2>2, <3>2 DEF WakerOf
    <3> QED  BY <1>c, <3>3, <3>4 DEF WakeComes
  <2> QED  BY <2>1, <2>2
<1>9. \A e \in {"r", "w"} : Idle(e)' = Idle(e) /\ WakerOf(e) \subseteq WakerOf(e)' /\ ~Wakes(t, e)
  BY <1>1 DEF Idle, BufReady, Hangup, WakerOf, Wakes
<1> QED  BY <1>1, <1>2, <1>4, <1>5, <1>6, <1>7, <1>8, <1>9, StepInv

\* A byte is taken or put; the task goes on to wake the other end.
LEMMA MoveByteInv ==
  ASSUME PipeInv, OneHart, NEW t \in Tasks,
         (ReadPop(t) /\ buf > 0) \/ (WritePush(t) /\ Room)
  PROVE  PipeInv'
<1>a. TypeOK  BY DEF PipeInv
<1>1. PICK l \in {"rwake", "wwake"} :
        /\ Runs(t) /\ pc[t] \in {"rpop", "wpush"} /\ pc' = [pc EXCEPT ![t] = l]
        /\ buf' = IF l = "rwake" THEN buf - 1 ELSE buf + 1
        /\ buf' \in 0..CAP
        /\ UNCHANGED <<fds, readers, writers, readWaker, writeWaker, woken, killed, end, nb,
                       need>>
  <2>1. CASE ReadPop(t) /\ buf > 0
    BY SMT, <1>a, <2>1, PipeAssumption DEF ReadPop, At, Goto, wakers, args, TypeOK
  <2>2. CASE WritePush(t) /\ Room
    BY SMT, <1>a, <2>2, PipeAssumption DEF WritePush, Room, At, Goto, wakers, args, TypeOK
  <2> QED  BY <2>1, <2>2
<1>2. TypeOK'  BY <1>a, <1>1 DEF TypeOK, PC, MidPoll
<1>3. pc'[t] = l  BY <1>a, <1>1 DEF TypeOK
<1>4. Others(t)  BY <1>a, <1>1, Alone DEF TypeOK, Others
<1>5. EndCounts'  BY <1>1, <1>3, <1>4, EndsSame
<1>6. PollStands(t)' /\ WakeComes(t)' /\ KillComes(t)'
  BY <1>3, PlainIsFine DEF Plain
<1>7. \A e \in {"r", "w"} : /\ WakerOf(e)' = WakerOf(e) /\ ~Wakes(t, e)
                            /\ Idle(e) => Idle(e)' \/ Wakes(t, e)'
  <2>1. buf \in Int /\ CAP \in Int  BY SMT, <1>a, PipeAssumption DEF TypeOK
  <2>2. \A e \in {"r", "w"} : WakerOf(e)' = WakerOf(e) /\ ~Wakes(t, e)
    BY <1>1 DEF WakerOf, Wakes
  <2>3. Idle("r") => Idle("r")' \/ Wakes(t, "r")'
    BY SMT, <1>1, <1>3, <2>1 DEF Idle, BufReady, Hangup, Wakes
  <2>4. Idle("w") => Idle("w")' \/ Wakes(t, "w")'
    BY SMT, <1>1, <1>3, <2>1 DEF Idle, BufReady, Hangup, Wakes
  <2> QED  BY <2>2, <2>3, <2>4
<1> QED  BY <1>1, <1>2, <1>4, <1>5, <1>6, <1>7, StepInv

\* The wake-up of those who wait on the end x, after which t is somewhere plain.
LEMMA WakeAllInv ==
  ASSUME PipeInv, TypeOK', NEW t \in Tasks, Others(t), NEW x \in {"r", "w"},
         pc[t] # "dec", pc'[t] \in Plain \ {"dec", "rwake", "wwake", "hup"},
         \A e \in {"r", "w"} : Wakes(t, e) => e = x,
         woken' = woken \cup WakerOf(x),
         \A e \in {"r", "w"} \ {x} : WakerOf(e)' = WakerOf(e),
         UNCHANGED <<fds, buf, readers, writers>>
  PROVE  PipeInv'
<1>1. EndCounts'  BY EndsSame
<1>2. PollStands(t)' /\ WakeComes(t)' /\ KillComes(t)'  BY PlainIsFine
<1>3. \A e \in {"r", "w"} : Idle(e)' = Idle(e)  BY DEF Idle, BufReady, Hangup
<1> QED  BY <1>1, <1>2, <1>3, StepInv

\* wake_all after a byte is moved, and in Drop for File.
LEMMA WakeUpInv ==
  ASSUME PipeInv, OneHart, NEW t \in Tasks,
         ReadWake(t) \/ WriteWake(t) \/ DropWake(t)
  PROVE  PipeInv'
<1>a. TypeOK  BY DEF PipeInv
<1>1. PICK l \in {"rmore", "wtop", "out", "exit"}, x \in {"r", "w"} :
        /\ Runs(t) /\ pc[t] \in {"rwake", "wwake", "hup"} /\ pc' = [pc EXCEPT ![t] = l]
        /\ \A e \in {"r", "w"} : Wakes(t, e) => e = x
        /\ IF x = "r" THEN WakeReaders ELSE WakeWriters
        /\ UNCHANGED <<fds, buf, readers, writers, killed>>
  <2>0. end[t] \in {"r", "w"}  BY <1>a DEF TypeOK
  <2>1. CASE ReadWake(t)
    BY <2>1 DEF ReadWake, At, Goto, pipe, Wakes
  <2>2. CASE WriteWake(t)
    BY <2>2 DEF WriteWake, Return, At, Goto, pipe, Wakes
  <2>3. CASE DropWake(t)
    BY <2>0, <2>3 DEF DropWake, Return, At, Goto, pipe, Wakes
  <2> QED  BY <2>1, <2>2, <2>3
<1>2. PICK d \in {"r", "w"}, b \in BOOLEAN, n \in 0..MaxLen :
        /\ end' = [end EXCEPT ![t] = d] /\ nb' = [nb EXCEPT ![t] = b]
        /\ need' = [need EXCEPT ![t] = n]
  <2>0. /\ end[t] \in {"r", "w"} /\ nb[t] \in BOOLEAN /\ need[t] \in 0..MaxLen
        /\ 0 \in 0..MaxLen
        /\ end = [end EXCEPT ![t] = end[t]] /\ nb = [nb EXCEPT ![t] = nb[t]]
        /\ need = [need EXCEPT ![t] = need[t]]
    BY SMT, <1>a, PipeAssumption DEF TypeOK
  <2>1. CASE UNCHANGED args  BY <2>0, <2>1 DEF args
  <2>2. CASE Return(t)  BY <2>0, <2>2 DEF Return
  <2>3. CASE need[t] > 1 /\ need' = [need EXCEPT ![t] = @ - 1] /\ UNCHANGED <<end, nb>>
    <3>1. need[t] - 1 \in 0..MaxLen  BY SMT, <2>0, <2>3, PipeAssumption
    <3> QED  BY <2>0, <2>3, <3>1
  <2> QED  BY <2>1, <2>2, <2>3 DEF ReadWake, WriteWake, DropWake
<1>3. readWaker' \in {readWaker, {}} /\ writeWaker' \in {writeWaker, {}}
  BY <1>1 DEF WakeReaders, WakeWriters
<1>4. woken' = woken \cup WakerOf(x)
  BY <1>1 DEF WakeReaders, WakeWriters, WakerOf
<1>5. \A e \in {"r", "w"} \ {x} : WakerOf(e)' = WakerOf(e)
  BY SMT, <1>1 DEF WakeReaders, WakeWriters, WakerOf
<1>6. TypeOK'
  <2>1. WakerOf(x) \subseteq Tasks  BY <1>a DEF WakerOf, TypeOK
  <2> QED  BY <1>a, <1>1, <1>2, <1>3, <1>4, <2>1 DEF TypeOK, PC, MidPoll
<1>7. pc'[t] = l  BY <1>a, <1>1 DEF TypeOK
<1>8. Others(t)  BY <1>a, <1>1, <1>2, Alone DEF TypeOK, Others
<1>9. l \in Plain \ {"dec", "rwake", "wwake", "hup"}  BY DEF Plain
<1> QED  BY <1>1, <1>4, <1>5, <1>6, <1>7, <1>8, <1>9, WakeAllInv

\* An fd goes; the last one of an end starts the drop of its description.
LEMMA CloseInv ==
  ASSUME PipeInv, OneHart, NEW t \in Tasks, NEW e \in {"r", "w"}, CloseFd(t, e)
  PROVE  PipeInv'
<1>a. TypeOK  BY DEF PipeInv
<1>b. EndCounts  BY DEF PipeInv
<1>1. PICK l \in {"out", "exit", "dec"}, x \in {"r", "w"} :
        /\ Runs(t) /\ pc[t] \in {"out", "exit"} /\ e \in fds[t]
        /\ pc' = [pc EXCEPT ![t] = l] /\ end' = [end EXCEPT ![t] = x]
        /\ IF \A u \in Tasks \ {t} : e \notin fds[u] THEN l = "dec" /\ x = e ELSE l # "dec"
        /\ fds' = [fds EXCEPT ![t] = @ \ {e}]
        /\ UNCHANGED <<buf, readers, writers, readWaker, writeWaker, woken, killed, nb, need>>
  <2>1. /\ pc = [pc EXCEPT ![t] = pc[t]] /\ end = [end EXCEPT ![t] = end[t]]
        /\ end[t] \in {"r", "w"}
    BY <1>a DEF TypeOK
  <2>2. CASE \A u \in Tasks \ {t} : e \notin fds[u]
    BY <2>2 DEF CloseFd, Goto, pipe, wakers
  <2>3. CASE ~\A u \in Tasks \ {t} : e \notin fds[u]
    BY <2>1, <2>3 DEF CloseFd, pipe, wakers
  <2> QED  BY <2>2, <2>3
<1>2. TypeOK'  BY <1>a, <1>1 DEF TypeOK, PC, MidPoll
<1>3. pc'[t] = l /\ end'[t] = x /\ fds'[t] = fds[t] \ {e}  BY <1>a, <1>1 DEF TypeOK
<1>4. Others(t)  BY <1>a, <1>1, Alone DEF TypeOK, Others
<1>5. \A u \in Tasks : pc[u] # "dec"  BY <1>1, <1>4 DEF Others, MidPoll
<1>6. \A d \in {"r", "w"} : Open(d)' <=> Open(d)
  <2>1. CASE l = "dec"
    <3>1. x = e /\ \A u \in Tasks \ {t} : fds'[u] = fds[u]  BY <1>1, <1>4, <2>1 DEF Others
    <3>2. \A d \in {"r", "w"} \ {e}, u \in Tasks : d \in fds'[u] <=> d \in fds[u]
      BY <1>3, <3>1
    <3>3. \A u \in Tasks : pc'[u] = "dec" => u = t  BY <1>4, <1>5 DEF Others
    <3>4. Open(e)' /\ Open(e)  BY <1>1, <1>3, <2>1, <3>1 DEF Open
    <3> QED  BY SMT, <1>3, <1>5, <3>1, <3>2, <3>3, <3>4 DEF Open
  <2>2. CASE l # "dec"
    <3>1. PICK v \in Tasks \ {t} : e \in fds[v]  BY <1>1, <2>2
    <3>2. \A u \in Tasks \ {t} : fds'[u] = fds[u]  BY <1>4 DEF Others
    <3>3. \A u \in Tasks : pc'[u] # "dec"  BY <1>3, <1>4, <1>5, <2>2 DEF Others
    <3>4. Open(e)' /\ Open(e)  BY <3>1, <3>2 DEF Open
    <3>5. \A d \in {"r", "w"} \ {e}, u \in Tasks : d \in fds'[u] <=> d \in fds[u]
      BY <1>3, <3>2
    <3> QED  BY <1>5, <3>3, <3>4, <3>5 DEF Open
  <2> QED  BY <2>1, <2>2
<1>7. EndCounts'
  <2>1. \A u \in Tasks : pc'[u] = "dec" => u = t /\ x = e /\ \A v \in Tasks : e \notin fds'[v]
    BY <1>1, <1>3, <1>4, <1>5 DEF Others
  <2> QED  BY SMT, <1>b, <1>1, <1>3, <1>6, <2>1 DEF EndCounts
<1>8. PollStands(t)' /\ WakeComes(t)' /\ KillComes(t)'
  BY <1>3, PlainIsFine DEF Plain
<1>9. \A d \in {"r", "w"} : Idle(d)' = Idle(d) /\ WakerOf(d)' = WakerOf(d) /\ ~Wakes(t, d)
  BY <1>1 DEF Idle, BufReady, Hangup, WakerOf, Wakes
<1> QED  BY <1>1, <1>2, <1>4, <1>7, <1>8, <1>9, StepInv

\* The count of the end goes down, and the wake-up of the other end is due.
LEMMA DropDecInv ==
  ASSUME PipeInv, OneHart, NEW t \in Tasks, DropDec(t)
  PROVE  PipeInv'
<1>a. TypeOK  BY DEF PipeInv
<1>b. EndCounts  BY DEF PipeInv
<1>1. /\ Runs(t) /\ pc[t] = "dec" /\ pc' = [pc EXCEPT ![t] = "hup"]
      /\ IF end[t] = "r"
           THEN readers' = readers - 1 /\ writers' = writers
           ELSE writers' = writers - 1 /\ readers' = readers
      /\ UNCHANGED <<fds, buf, readWaker, writeWaker, woken, killed, end, nb, need>>
  BY DEF DropDec, At, Goto, wakers, args
<1>2. end[t] \in {"r", "w"} /\ Open(end[t])  BY <1>a, <1>1 DEF Open, TypeOK
<1>3. IF end[t] = "r" THEN readers = 1 /\ readers' = 0 ELSE writers = 1 /\ writers' = 0
  <2>1. EndCounts  BY <1>b
  <2>2. CASE end[t] = "r"
    <3>1. readers = 1  BY ONLY <1>b, <1>2, <2>1, <2>2 DEF EndCounts
    <3> QED  BY ONLY SMT, <1>1, <2>2, <3>1
  <2>3. CASE end[t] = "w"
    <3>1. writers = 1  BY ONLY <1>b, <1>2, <2>1, <2>3 DEF EndCounts
    <3> QED  BY ONLY SMT, <1>1, <2>3, <3>1
  <2> QED  BY ONLY <1>2, <2>2, <2>3
<1>4. TypeOK'  BY SMT, <1>a, <1>1, <1>3 DEF TypeOK, PC, MidPoll
<1>5. pc'[t] = "hup"  BY <1>a, <1>1 DEF TypeOK
<1>6. Others(t)  BY <1>a, <1>1, Alone DEF TypeOK, Others
<1>7. \A u \in Tasks : pc'[u] # "dec"  BY <1>5, <1>6 DEF Others, MidPoll
<1>8. \A e \in {"r", "w"} : Open(e)' <=> (e # end[t] /\ Open(e))
  <2>1. ~Open(end[t])'  BY <1>b, <1>1, <1>7 DEF Open, EndCounts
  <2>2. \A u \in Tasks : pc[u] = "dec" => u = t  BY <1>6 DEF Others, MidPoll
  <2> QED  BY <1>1, <1>2, <1>7, <2>1, <2>2 DEF Open
<1>9. EndCounts'
  BY SMT, <1>b, <1>1, <1>2, <1>3, <1>7, <1>8 DEF EndCounts
<1>10. PollStands(t)' /\ WakeComes(t)' /\ KillComes(t)'
  BY <1>5, PlainIsFine DEF Plain
<1>11. \A e \in {"r", "w"} :
         /\ WakerOf(e)' = WakerOf(e) /\ ~Wakes(t, e)
         /\ Idle(e) => Idle(e)' \/ Wakes(t, e)'
  <2>1. \A e \in {"r", "w"} : ~Wakes(t, e) /\ WakerOf(e)' = WakerOf(e)
    BY <1>1 DEF Wakes, WakerOf
  <2>2. \A e \in {"r", "w"} : BufReady(e)' = BufReady(e)  BY <1>1 DEF BufReady
  <2>3. \A e \in {"r", "w"} : e # end[t] => Wakes(t, e)'  BY <1>1, <1>5 DEF Wakes
  <2>4. \A e \in {"r", "w"} : e = end[t] => Hangup(e)' = Hangup(e)
    BY <1>1, <1>2 DEF Hangup
  <2> QED  BY <2>1, <2>2, <2>3, <2>4 DEF Idle
<1> QED  BY <1>1, <1>4, <1>6, <1>9, <1>10, <1>11, StepInv

\* The executor polls a queued task: the future looks again from the start.
LEMMA PolledInv ==
  ASSUME PipeInv, OneHart, NEW t \in Tasks, Repoll(t) \/ SpuriousPoll(t)
  PROVE  PipeInv'
<1>a. TypeOK  BY DEF PipeInv
<1>1. PICK l \in {"rreg", "wchk", "pbuf", "out"} :
        /\ Runs(t) /\ pc[t] \in Parked \cup {"out"} /\ pc' = [pc EXCEPT ![t] = l]
        /\ woken' = woken \ {t}
        /\ UNCHANGED <<fds, buf, readers, writers, readWaker, writeWaker, killed, end, nb, need>>
  <2>1. CASE Repoll(t)
    <3>1. /\ pc[t] = "rparked" => Goto(t, "rreg")
          /\ pc[t] = "wparked" => Goto(t, "wchk")
          /\ pc[t] = "pparked" => Goto(t, "pbuf")
      BY <2>1 DEF Repoll
    <3> QED  BY <2>1, <3>1 DEF Repoll, Parked, Goto, pipe, wakers, args
  <2>2. CASE SpuriousPoll(t)
    <3>1. pc = [pc EXCEPT ![t] = "out"]  BY <1>a, <2>2 DEF SpuriousPoll, At, TypeOK
    <3> QED  BY <2>2, <3>1 DEF SpuriousPoll, At, pipe, wakers, args
  <2> QED  BY <2>1, <2>2
<1>2. TypeOK'  BY <1>a, <1>1 DEF TypeOK, PC, MidPoll
<1>3. pc'[t] = l  BY <1>a, <1>1 DEF TypeOK
<1>4. Others(t)  BY <1>a, <1>1, Alone DEF TypeOK, Others
<1>5. EndCounts'  BY <1>1, <1>3, <1>4, EndsSame DEF Parked
<1>6. PollStands(t)' /\ WakeComes(t)' /\ KillComes(t)'
  BY <1>3, PlainIsFine DEF Plain
<1>7. \A e \in {"r", "w"} :
        WakerOf(e)' = WakerOf(e) /\ Idle(e)' = Idle(e) /\ ~Wakes(t, e)
  BY <1>1 DEF WakerOf, Idle, BufReady, Hangup, Wakes, Parked
<1> QED  BY <1>1, <1>2, <1>4, <1>5, <1>6, <1>7, StepInv

\* A kill may come at any moment of its target: the flag goes up and it is queued.
LEMMA KillInv ==
  ASSUME PipeInv, NEW t \in Tasks, Kill(t)
  PROVE  PipeInv'
<1>a. TypeOK  BY DEF PipeInv
<1>b. EndCounts  BY DEF PipeInv
<1>d. OnePoll  BY DEF PipeInv
<1>c. \A u \in Tasks : PollStands(u) /\ WakeComes(u) /\ KillComes(u)  BY DEF PipeInv
<1>1. /\ killed' = [killed EXCEPT ![t] = TRUE] /\ woken' = woken \cup {t}
      /\ UNCHANGED <<fds, buf, readers, writers, readWaker, writeWaker, pc, end, nb, need>>
  BY DEF Kill, MarkKilled, pipe, wakers, args
<1>2. TypeOK'  BY <1>a, <1>1 DEF TypeOK
<1>3. OnePoll' /\ EndCounts'  BY <1>b, <1>d, <1>1 DEF OnePoll, EndCounts, Open
<1>4. ASSUME NEW u \in Tasks
      PROVE  PollStands(u)' /\ WakeComes(u)' /\ KillComes(u)'
  <2>1. u \in woken => u \in woken'  BY <1>1
  <2>2. killed'[u] => killed[u] \/ u \in woken'  BY <1>a, <1>1 DEF TypeOK
  <2>3. PollStands(u)'  BY <1>c, <1>1 DEF PollStands, BufReady, Hangup
  <2>4. WakeComes(u)'
    BY <1>c, <1>1, <2>1 DEF WakeComes, Awaits, WakerOf, Idle, BufReady, Hangup, Wakes
  <2>5. KillComes(u)'  BY <1>c, <1>1, <2>1, <2>2 DEF KillComes
  <2> QED  BY <2>3, <2>4, <2>5
<1> QED  BY <1>2, <1>3, <1>4 DEF PipeInv

-----------------------------------------------------------------------------
(* The theorems.                                                           *)

LEMMA NextInv ==
  ASSUME PipeInv, OneHart, [Next]_vars
  PROVE  PipeInv'
<1>1. CASE UNCHANGED vars
  <2>1. /\ UNCHANGED <<fds, buf, readers, writers, readWaker, writeWaker, woken, killed>>
        /\ UNCHANGED <<pc, end, nb, need>>
    BY <1>1 DEF vars, pipe, wakers, args
  <2>2. TypeOK' /\ OnePoll' /\ EndCounts'
    BY <2>1 DEF PipeInv, TypeOK, OnePoll, EndCounts, Open
  <2>3. ASSUME NEW t \in Tasks
        PROVE  PollStands(t)' /\ WakeComes(t)' /\ KillComes(t)'
    <3>1. PollStands(t)'  BY <2>1 DEF PipeInv, PollStands, BufReady, Hangup
    <3>2. WakeComes(t)'
      BY <2>1 DEF PipeInv, WakeComes, Awaits, WakerOf, Idle, BufReady, Hangup, Wakes
    <3>3. KillComes(t)'  BY <2>1 DEF PipeInv, KillComes
    <3> QED  BY <3>1, <3>2, <3>3
  <2> QED  BY <2>2, <2>3 DEF PipeInv
<1>2. CASE Next
  <2>1. PICK t \in Tasks :
          \/ Read(t) \/ Write(t) \/ PollCall(t)
          \/ \E e \in fds[t] : CloseFd(t, e)
          \/ Reading(t) \/ Writing(t) \/ Polling(t) \/ Closing(t)
          \/ Repoll(t) \/ SpuriousPoll(t) \/ Kill(t)
    BY <1>2 DEF Next
  <2>2. fds[t] \subseteq {"r", "w"}  BY DEF PipeInv, TypeOK
  <2>3. CASE \E e \in fds[t] : CloseFd(t, e)  BY <2>2, <2>3, CloseInv
  <2>4. CASE Reading(t)
    BY <2>4, LookInv, RegisterInv, MoveByteInv, WakeUpInv DEF Reading
  <2>5. CASE Writing(t)
    BY <2>5, TryInv, RegisterInv, MoveByteInv, WakeUpInv DEF Writing
  <2>6. CASE Polling(t)  BY <2>6, LookInv, RegisterInv DEF Polling
  <2>7. CASE Closing(t)  BY <2>3, <2>7, DropDecInv, WakeUpInv, CallInv DEF Closing
  <2> QED  BY <2>1, <2>3, <2>4, <2>5, <2>6, <2>7, CallInv, PolledInv, KillInv
<1> QED  BY <1>1, <1>2

\* On one hart the invariant holds in every reachable state.
THEOREM PipeInvariant ==
  ASSUME OneHart
  PROVE  Spec => []PipeInv
<1>1. Init => PipeInv  BY InitInv
<1>2. PipeInv /\ [Next]_vars => PipeInv'  BY NextInv
<1> QED  BY <1>1, <1>2, PTL DEF Spec

\* A read reports end of file only when the pipe is drained and the last writer
\* has gone (PipeReadByte::poll looks at the count after it found no byte).
THEOREM EofIsDrained ==
  ASSUME OneHart
  PROVE  Spec => []EofMeansDrained
<1>1. PipeInv => EofMeansDrained  BY DEF PipeInv, PollStands, EofMeansDrained, AtEof
<1> QED  BY <1>1, PipeInvariant, PTL

\* A reader or a poller of the read end that is parked and not queued, although
\* there is a byte or an end of file for it, is about to be woken by a writer
\* (read_waker.wake_all in pipe_write and in Drop for File); and the same of the
\* write end.
NoLostWake ==
  \A t \in Tasks :
    pc[t] \in Parked /\ t \notin woken /\ ~Idle(Awaits(t)) =>
      /\ t \in WakerOf(Awaits(t))
      /\ \E u \in Tasks : Wakes(u, Awaits(t))

\* No wake-up is lost between a future's look at the pipe and its waker being
\* read: register-then-check of PipeReadByte and PipeWriteByte, and
\* check-then-register of PollWait, are both sound on one hart.
THEOREM WakeNotLost ==
  ASSUME OneHart
  PROVE  Spec => []NoLostWake
<1>1. PipeInv => NoLostWake  BY DEF PipeInv, WakeComes, NoLostWake
<1> QED  BY <1>1, PipeInvariant, PTL

\* A process killed while it is parked is queued, so its future sees the flag.
NoLostKill == \A t \in Tasks : killed[t] /\ pc[t] \in Parked => t \in woken

\* A kill that lands between the look at the flag and the park is not lost.
THEOREM KillNotLost ==
  ASSUME OneHart
  PROVE  Spec => []NoLostKill
<1>1. PipeInv => NoLostKill  BY DEF PipeInv, KillComes, NoLostKill
<1> QED  BY <1>1, PipeInvariant, PTL

\* An end counts as open exactly as long as a process has an fd for it or is
\* dropping the last one: no count underflows and none is left up.
THEOREM EndsAreCounted ==
  ASSUME OneHart
  PROVE  Spec => []EndCounts
<1>1. PipeInv => EndCounts  BY DEF PipeInv
<1> QED  BY <1>1, PipeInvariant, PTL

=============================================================================
