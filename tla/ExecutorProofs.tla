--------------------------- MODULE ExecutorProofs ---------------------------
(***************************************************************************)
(* Proofs about the executor, for any number of harts, procs and slots: no *)
(* trap is left behind, user mode is entered in turn, and no hart keeps a  *)
(* pointer to a task that is gone.                                         *)
(***************************************************************************)
EXTENDS Executor, TLAPS

\* Most steps are first-order; the others name the backend they need.
USE ZenonT(40)

-----------------------------------------------------------------------------
(* The inductive invariant.                                                *)

In(q, s) == \E i \in DOMAIN q : q[i] = s
Once(q) == \A i, j \in DOMAIN q : q[i] = q[j] => i = j

\* A live task is in its slot of its home's table, or its home hart has taken it
\* out and is polling it.
InSlot ==
  \A h \in Harts, s \in Slots : table[h][s] # None =>
    LET p == table[h][s] IN
    taskId[p][1] = h /\ taskId[p][2] = s /\ st[p] \in {"user", "blocked"}
Somewhere ==
  \A p \in Procs : st[p] # "absent" =>
    LET h == taskId[p][1] IN table[h][taskId[p][2]] = p \/ held[h] = p

\* What a hart has in hand, at each place in run.
Holding ==
  \A h \in Harts :
    /\ held[h] # None <=> mode[h] \in {"poll", "spawn", "putback", "recycle"}
    /\ held[h] # None => /\ taskId[held[h]][1] = h /\ taskId[held[h]][2] = slot[h]
                         /\ current[h] = held[h]
    /\ mode[h] = "poll" => st[held[h]] \in {"user", "sys", "blocked"}
    /\ mode[h] = "spawn" => st[held[h]] = "sys"
    /\ mode[h] = "putback" => st[held[h]] \in {"user", "blocked"}
    /\ mode[h] = "recycle" => st[held[h]] = "done"

\* The proc a hart points to is alive, and at home there.
Pointing ==
  \A h \in Harts : current[h] # None => st[current[h]] # "absent" /\ taskId[current[h]][1] = h

HeldAt(g, s) == held[g] # None /\ slot[g] = s
Reserved(h, g, s) ==
  spawn[h].step \in {"publish", "insert"} /\ spawn[h].home = g /\ spawn[h].slot = s

\* A slot is empty, free once, reserved by one hart that spawns, or its task's.
SlotApart(g, s) ==
  /\ table[g][s] # None \/ HeldAt(g, s) \/ In(freeSlots[g], s)
       \/ (\E h \in Harts : Reserved(h, g, s)) => s < nextSlot[g]
  /\ table[g][s] # None => ~HeldAt(g, s) /\ ~In(freeSlots[g], s)
  /\ HeldAt(g, s) => ~In(freeSlots[g], s)
  /\ \A h \in Harts : Reserved(h, g, s) =>
       /\ table[g][s] = None /\ ~HeldAt(g, s) /\ ~In(freeSlots[g], s)
       /\ \A k \in Harts : Reserved(k, g, s) => k = h

SlotsApart == \A g \in Harts, s \in Slots : SlotApart(g, s)
FreeOnce == \A g \in Harts : Once(freeSlots[g])

\* insert_task works for one task at a time, and has the id it published.
Spawning ==
  \A h \in Harts :
    /\ spawn[h].step # "none" <=> mode[h] = "spawn"
    /\ spawn[h].step # "none" <=> spawn[h].task # None
    /\ spawn[h].step \in {"publish", "insert"} => st[spawn[h].task] = "absent"
    /\ spawn[h].step = "insert" \/ (spawn[h].step = "enqueue" /\ st[spawn[h].task] # "absent") =>
         /\ taskId[spawn[h].task][1] = spawn[h].home
         /\ taskId[spawn[h].task][2] = spawn[h].slot
    /\ \A k \in Harts : spawn[k].task = spawn[h].task /\ spawn[h].task # None => k = h

\* Who is asked for, who runs and whose trap has come.
InUser ==
  /\ \A h \in Harts :
       /\ target[h] # None <=> mode[h] = "putback" /\ st[held[h]] = "user"
       /\ target[h] # None => target[h] = held[h] /\ ~pending[target[h]]
       /\ user[h] # None <=> mode[h] \in {"user", "trap"}
       /\ user[h] # None => /\ user[h] = current[h] /\ st[user[h]] = "user"
                            /\ ~pending[user[h]]
  /\ \A p \in Procs : pending[p] => st[p] = "user"

\* A proc that awaits user mode is about to be polled.
Coming ==
  \A p \in Procs : st[p] = "user" =>
    \/ Queued(p) \/ (\E h \in Harts : held[h] = p)
    \/ ~pending[p] /\ \E h \in Harts : user[h] = p \/ spawn[h].task = p

ExecInv ==
  /\ TypeOK /\ InSlot /\ Somewhere /\ Holding /\ Pointing
  /\ SlotsApart /\ FreeOnce /\ Spawning
  /\ InUser /\ Coming

-----------------------------------------------------------------------------
(* Queues of slots.                                                        *)

LEMMA InAppend ==
  ASSUME NEW q \in Seq(Slots), NEW s \in Slots
  PROVE  /\ Enqueue(q, s) \in Seq(Slots) /\ In(Enqueue(q, s), s)
         /\ \A x : In(q, x) => In(Enqueue(q, s), x)
         /\ \A x : In(Enqueue(q, s), x) => In(q, x) \/ x = s
<1>1. /\ Append(q, s) \in Seq(Slots) /\ DOMAIN q = 1..Len(q) /\ Len(q) \in Nat
      /\ DOMAIN Append(q, s) = 1..(Len(q) + 1)
      /\ Append(q, s)[Len(q) + 1] = s
      /\ \A i \in 1..Len(q) : Append(q, s)[i] = q[i]
  BY SMT
<1>2. /\ Len(q) + 1 \in 1..(Len(q) + 1)
      /\ \A i \in 1..Len(q) : i \in 1..(Len(q) + 1)
      /\ \A i \in 1..(Len(q) + 1) : i \in 1..Len(q) \/ i = Len(q) + 1
  BY SMT, <1>1
<1> QED  BY <1>1, <1>2 DEF In, Enqueue

LEMMA InTail ==
  ASSUME NEW q \in Seq(Slots), q # <<>>
  PROVE  /\ Tail(q) \in Seq(Slots) /\ Head(q) \in Slots
         /\ \A x : In(q, x) => x = Head(q) \/ In(Tail(q), x)
<1>1. /\ Tail(q) \in Seq(Slots) /\ Head(q) \in Slots /\ DOMAIN q = 1..Len(q)
      /\ DOMAIN Tail(q) = 1..(Len(q) - 1) /\ Head(q) = q[1] /\ Len(q) \in Nat
      /\ \A i \in 1..(Len(q) - 1) : Tail(q)[i] = q[i + 1]
  BY SMT
<1>2. ASSUME NEW x, NEW i \in DOMAIN q, q[i] = x
      PROVE  x = Head(q) \/ In(Tail(q), x)
  <2>1. CASE i = 1  BY <1>1, <1>2, <2>1
  <2>2. CASE i # 1
    <3>1. i - 1 \in 1..(Len(q) - 1) /\ (i - 1) + 1 = i  BY SMT, <1>1, <2>2
    <3>2. Tail(q)[i - 1] = x  BY <1>1, <1>2, <3>1
    <3> QED  BY <1>1, <3>1, <3>2 DEF In
  <2> QED  BY <2>1, <2>2
<1> QED  BY <1>1, <1>2 DEF In

\* Taking the last free slot, and giving one back.
LEMMA FreeTake ==
  ASSUME NEW q \in Seq(Slots), q # <<>>, Once(q)
  PROVE  /\ Top(q) \in Slots /\ In(q, Top(q))
         /\ Popped(q) \in Seq(Slots) /\ Once(Popped(q)) /\ ~In(Popped(q), Top(q))
         /\ \A x : In(Popped(q), x) => In(q, x)
<1>1. Len(q) \in Nat \ {0} /\ DOMAIN q = 1..Len(q)  BY SMT
<1>2. /\ Len(q) \in 1..Len(q)
      /\ \A i \in 1..(Len(q) - 1) : i \in 1..Len(q) /\ i # Len(q)
  <2>1. ASSUME NEW n \in Nat \ {0}
        PROVE  n \in 1..n /\ \A i \in 1..(n - 1) : i \in 1..n /\ i # n
    BY ONLY SMT
  <2> QED  BY <1>1, <2>1
<1>3. /\ Popped(q) \in Seq(Slots) /\ Top(q) = q[Len(q)] /\ Len(q) \in Nat \ {0}
      /\ DOMAIN q = 1..Len(q) /\ DOMAIN Popped(q) = 1..(Len(q) - 1)
      /\ \A i \in 1..(Len(q) - 1) : Popped(q)[i] = q[i]
  <2>1. Popped(q) = SubSeq(q, 1, Len(q) - 1) /\ Top(q) = q[Len(q)]  BY DEF Popped, Top
  <2>2. /\ SubSeq(q, 1, Len(q) - 1) \in Seq(Slots)
        /\ Len(SubSeq(q, 1, Len(q) - 1)) = Len(q) - 1
    BY SMT, <1>1
  <2>3. DOMAIN SubSeq(q, 1, Len(q) - 1) = 1..(Len(q) - 1)  BY SMT, <1>1, <2>2
  <2>4. \A i \in 1..(Len(q) - 1) : SubSeq(q, 1, Len(q) - 1)[i] = q[i]  BY SMT, <1>1
  <2> QED  BY <1>1, <2>1, <2>2, <2>3, <2>4
<1>4. Top(q) \in Slots
  <2>1. \A i \in 1..Len(q) : q[i] \in Slots  BY SMT
  <2> QED  BY <1>3, <1>2, <2>1
<1>5. In(q, Top(q)) /\ \A x : In(Popped(q), x) => In(q, x)  BY <1>3, <1>2 DEF In
<1>6. Once(Popped(q))  BY <1>3, <1>2 DEF Once
<1>7. ~In(Popped(q), Top(q))  BY <1>3, <1>2 DEF In, Once
<1> QED  BY <1>3, <1>4, <1>5, <1>6, <1>7

LEMMA FreeGive ==
  ASSUME NEW q \in Seq(Slots), NEW s \in Slots, Once(q), ~In(q, s)
  PROVE  /\ Append(q, s) \in Seq(Slots) /\ Once(Append(q, s))
         /\ \A x : In(Append(q, s), x) <=> In(q, x) \/ x = s
<1>1. /\ Append(q, s) \in Seq(Slots) /\ DOMAIN q = 1..Len(q) /\ Len(q) \in Nat
      /\ DOMAIN Append(q, s) = 1..(Len(q) + 1)
      /\ Append(q, s)[Len(q) + 1] = s
      /\ \A i \in 1..Len(q) : Append(q, s)[i] = q[i]
  BY SMT
<1>2. \A i \in 1..(Len(q) + 1) : i \in 1..Len(q) \/ i = Len(q) + 1  BY SMT, <1>1
<1>3. Once(Append(q, s))  BY <1>1, <1>2 DEF In, Once
<1> QED  BY <1>1, <1>3, InAppend DEF Enqueue

-----------------------------------------------------------------------------
(* The initial state, and steps that leave every task where it is.         *)

LEMMA InitInv == Init => ExecInv
<1> SUFFICES ASSUME Init PROVE ExecInv  OBVIOUS
<1> DEFINE Place(p) == CHOOSE i \in DOMAIN Boot : Boot[i] = p
<1>1. /\ DOMAIN Boot = 1..Len(Boot) /\ Len(Boot) \in Nat /\ 0 \in Slots /\ 0 \in 0..MaxSlot
      /\ Len(Boot) \in 0..MaxSlot
      /\ \A i \in DOMAIN Boot : i - 1 \in Slots /\ i - 1 < Len(Boot) /\ (i - 1) + 1 = i
      /\ \A s \in Slots : s < Len(Boot) => s + 1 \in DOMAIN Boot /\ (s + 1) - 1 = s
  BY SMT, ExecutorAssumption DEF Slots
<1>2. \A i \in DOMAIN Boot : Boot[i] \in Procs  BY SMT, ExecutorAssumption
<1>3. Booted = {Boot[i] : i \in DOMAIN Boot}  BY DEF Booted
<1>4. \A i \in DOMAIN Boot : Place(Boot[i]) = i  BY ExecutorAssumption
<1>5. \A p \in Booted : Place(p) \in DOMAIN Boot /\ Boot[Place(p)] = p
  BY <1>3, <1>4
<1>6. /\ \A p \in Booted \cap Procs : taskId[p] = <<0, Place(p) - 1>> /\ st[p] = "user"
      /\ \A p \in Procs \ Booted : taskId[p] = <<0, 0>> /\ st[p] = "absent"
  BY DEF Init
<1>7. /\ \A s \in Slots : s < Len(Boot) => table[0][s] = Boot[s + 1]
      /\ \A h \in Harts, s \in Slots : table[h][s] # None => h = 0 /\ s < Len(Boot)
  BY ExecutorAssumption DEF Init
<1> HIDE DEF Place
<1>8. TypeOK
  <2>1. ready \in [Harts -> Seq(Slots)]
    <3>1. [i \in DOMAIN Boot |-> i - 1] \in Seq(Slots)  BY SMT, <1>1
    <3>2. <<>> \in Seq(Slots)  BY SMT
    <3> QED  BY <3>1, <3>2 DEF Init
  <2>2. table \in [Harts -> [Slots -> Procs \cup {None}]]
    BY <1>1, <1>2 DEF Init
  <2>3. freeSlots \in [Harts -> Seq(Slots)]
    <3>1. <<>> \in Seq(Slots)  BY SMT
    <3> QED  BY <3>1 DEF Init
  <2>4. nextSlot \in [Harts -> 0..MaxSlot]  BY <1>1 DEF Init
  <2>5. taskId \in [Procs -> Tids]
    <3>1. <<0, 0>> \in Tids  BY <1>1, ExecutorAssumption DEF Tids
    <3>2. \A p \in Booted : <<0, Place(p) - 1>> \in Tids
      BY <1>1, <1>5, ExecutorAssumption DEF Tids
    <3> QED  BY <3>1, <3>2 DEF Init, Place
  <2>6. spawn \in [Harts -> [step : {"none", "publish", "insert", "enqueue"},
                             task : Procs \cup {None}, home : Harts, slot : Slots]]
    BY <1>1, ExecutorAssumption DEF Init, NoSpawn
  <2>7. slot \in [Harts -> Slots] /\ mode \in [Harts -> Modes]  BY <1>1 DEF Init, Modes
  <2> QED  BY <2>1, <2>2, <2>3, <2>4, <2>5, <2>6, <2>7 DEF Init, TypeOK
<1>9. InSlot /\ Somewhere
  <2>1. ASSUME NEW h \in Harts, NEW s \in Slots, table[h][s] # None
        PROVE  /\ taskId[table[h][s]][1] = h /\ taskId[table[h][s]][2] = s
               /\ st[table[h][s]] \in {"user", "blocked"}
    <3>1. h = 0 /\ s < Len(Boot) /\ table[h][s] = Boot[s + 1] /\ s + 1 \in DOMAIN Boot
      BY <1>1, <1>7, <2>1
    <3>2. Boot[s + 1] \in Booted \cap Procs /\ Place(Boot[s + 1]) = s + 1
      BY <1>2, <1>3, <1>4, <3>1
    <3>3. taskId[Boot[s + 1]] = <<0, (s + 1) - 1>> /\ st[Boot[s + 1]] = "user"
      BY <1>6, <3>2
    <3>4. taskId[Boot[s + 1]][1] = 0 /\ taskId[Boot[s + 1]][2] = (s + 1) - 1  BY SMT, <3>3
    <3> QED  BY <1>1, <3>1, <3>3, <3>4
  <2>2. ASSUME NEW p \in Procs, st[p] # "absent"
        PROVE  table[taskId[p][1]][taskId[p][2]] = p
    <3>1. p \in Booted  BY <1>6, <2>2
    <3>2. taskId[p] = <<0, Place(p) - 1>>  BY <1>6, <3>1
    <3>3. taskId[p][1] = 0 /\ taskId[p][2] = Place(p) - 1  BY SMT, <3>2
    <3>4. Place(p) - 1 \in Slots /\ Place(p) - 1 < Len(Boot) /\ Boot[(Place(p) - 1) + 1] = p
      BY <1>1, <1>5, <3>1
    <3> QED  BY <1>7, <3>3, <3>4
  <2> QED  BY <2>1, <2>2 DEF InSlot, Somewhere
<1>10. Holding /\ Pointing /\ Spawning /\ InUser
  BY ExecutorAssumption DEF Init, Holding, Pointing, Spawning, InUser, NoSpawn
<1>11. \A g \in Harts : freeSlots[g] = <<>>  BY DEF Init
<1>12. FreeOnce /\ \A g \in Harts : \A x : ~In(freeSlots[g], x)
  <2>1. DOMAIN <<>> = {}  BY SMT
  <2> QED  BY <1>11, <2>1 DEF FreeOnce, In, Once
<1>13. SlotsApart
  <2>1. \A g \in Harts, s \in Slots : ~HeldAt(g, s) /\ \A h \in Harts : ~Reserved(h, g, s)
    BY DEF Init, HeldAt, Reserved, NoSpawn
  <2>2. \A g \in Harts, s \in Slots : table[g][s] # None => s < nextSlot[g]
    BY <1>7 DEF Init
  <2> QED  BY <1>12, <2>1, <2>2 DEF SlotApart, SlotsApart
<1>14. Coming
  <2>1. ASSUME NEW p \in Procs, st[p] = "user"
        PROVE  Queued(p)
    <3>1. p \in Booted  BY <1>6, <2>1
    <3>2. taskId[p] = <<0, Place(p) - 1>>  BY <1>6, <3>1
    <3>3. taskId[p][1] = 0 /\ taskId[p][2] = Place(p) - 1  BY SMT, <3>2
    <3>4. ready[0] = [i \in DOMAIN Boot |-> i - 1]  BY ExecutorAssumption DEF Init
    <3>5. Place(p) \in DOMAIN Boot  BY <1>5, <3>1
    <3>6. Place(p) \in DOMAIN ready[0] /\ ready[0][Place(p)] = Place(p) - 1
      BY <3>4, <3>5
    <3> QED  BY <3>3, <3>6 DEF Queued
  <2> QED  BY <2>1 DEF Coming
<1> QED  BY <1>8, <1>9, <1>10, <1>12, <1>13, <1>14 DEF ExecInv

\* Queues may grow, and lose what is nobody's id; a hart may move within the
\* kernel without a task, or within user mode.
LEMMA QuietInv ==
  ASSUME ExecInv, TypeOK',
         UNCHANGED <<table, freeSlots, nextSlot, taskId, pending, current, target, user, slot,
                     held, spawn, st>>,
         \A h \in Harts : \/ mode'[h] = mode[h]
                          \/ {mode[h], mode'[h]} \subseteq {"pop", "idle", "asleep"}
                          \/ {mode[h], mode'[h]} \subseteq {"user", "trap"},
         \A p \in Procs : st[p] = "user" /\ Queued(p) => Queued(p)'
  PROVE  ExecInv'
<1> USE DEF ExecInv
<1>1. /\ UNCHANGED <<table, taskId, st, held, freeSlots, nextSlot, slot, spawn>>
      /\ InSlot /\ Somewhere /\ Spawning /\ SlotsApart
  OBVIOUS
<1>2. \A h \in Harts :
        /\ \A m \in {"poll", "spawn", "putback", "recycle"} : mode'[h] = m <=> mode[h] = m
        /\ mode'[h] \in {"user", "trap"} <=> mode[h] \in {"user", "trap"}
  OBVIOUS
<1>3. InSlot' /\ Somewhere'  BY ONLY SMT, <1>1 DEF InSlot, Somewhere
<1>4. Holding' /\ Pointing'  BY <1>2 DEF Holding, Pointing
<1>5. SlotsApart'
  BY ONLY SMT, <1>1 DEF SlotsApart, SlotApart, HeldAt, Reserved, In
<1>6. FreeOnce'  BY DEF FreeOnce, Once
<1>7. Spawning'  BY ONLY SMT, <1>1, <1>2 DEF Spawning
<1>8. InUser'  BY <1>2 DEF InUser
<1>9. Coming'  BY DEF Coming
<1> QED  BY <1>3, <1>4, <1>5, <1>6, <1>7, <1>8, <1>9

\* wake pushes an id and disturbs nothing else.
LEMMA WakeIs ==
  ASSUME TypeOK, NEW h \in Harts, NEW tid \in Tids, Wake(h, tid), taskId' = taskId
  PROVE  /\ ready' \in [Harts -> Seq(Slots)] /\ kick' \in [Harts -> Harts \cup {None}]
         /\ In(ready'[tid[1]], tid[2])
         /\ \A p \in Procs : Queued(p) => Queued(p)'
<1>1. tid[1] \in Harts /\ tid[2] \in Slots  BY SMT DEF Tids
<1>2. /\ ready' = [ready EXCEPT ![tid[1]] = Enqueue(ready[tid[1]], tid[2])]
      /\ kick' = [kick EXCEPT ![h] = IF tid[1] = h THEN None ELSE tid[1]]
  BY DEF Wake, SlotOf
<1>3. ready[tid[1]] \in Seq(Slots)  BY <1>1 DEF TypeOK
<1>4. /\ Enqueue(ready[tid[1]], tid[2]) \in Seq(Slots)
      /\ In(Enqueue(ready[tid[1]], tid[2]), tid[2])
      /\ \A x : In(ready[tid[1]], x) => In(Enqueue(ready[tid[1]], tid[2]), x)
  BY <1>1, <1>3, InAppend
<1>5. ready' \in [Harts -> Seq(Slots)]  BY <1>1, <1>2, <1>4 DEF TypeOK
<1>6. kick' \in [Harts -> Harts \cup {None}]  BY <1>1, <1>2 DEF TypeOK
<1>7. \A g \in Harts : \A x : In(ready[g], x) => In(ready'[g], x)
  BY <1>1, <1>2, <1>4 DEF TypeOK
<1>8. In(ready'[tid[1]], tid[2])  BY <1>1, <1>2, <1>4 DEF TypeOK
<1>9. ASSUME NEW p \in Procs, Queued(p) PROVE Queued(p)'
  <2>1. taskId[p] \in Harts \X Slots  BY DEF TypeOK, Tids
  <2>2. taskId[p][1] \in Harts  BY SMT, <2>1
  <2>3. In(ready[taskId[p][1]], taskId[p][2])  BY <1>9 DEF Queued, In
  <2> QED  BY <1>7, <2>2, <2>3 DEF Queued, In
<1> QED  BY <1>5, <1>6, <1>8, <1>9

\* A task in its slot is no stale id.
LEMMA StaleIsNobody ==
  ASSUME ExecInv, NEW h \in Harts, mode[h] = "pop", NEW s \in Slots, table[h][s] = None,
         NEW p \in Procs, st[p] # "absent"
  PROVE  ~(taskId[p][1] = h /\ taskId[p][2] = s)
<1>1. SUFFICES ASSUME taskId[p][1] = h /\ taskId[p][2] = s PROVE FALSE  OBVIOUS
<1>2. held[h] = None /\ None \notin Procs  BY ExecutorAssumption DEF ExecInv, Holding
<1>3. LET g == taskId[p][1] IN table[g][taskId[p][2]] = p \/ held[g] = p
  BY DEF ExecInv, Somewhere
<1>4. table[h][s] = p \/ held[h] = p  BY <1>1, <1>3
<1> QED  BY <1>2, <1>4

LEMMA QuietSteps ==
  ASSUME ExecInv, NEW h \in Harts,
         \/ SendIpi(h) \/ Interrupt(h) \/ PopEmpty(h) \/ PopStale(h) \/ Sleep(h) \/ Trap(h)
         \/ \E tid \in Issued : PollWake(h, tid) \/ TrapWake(h, tid) \/ InterruptWake(h, tid)
  PROVE  ExecInv'
<1> USE DEF ExecInv
<1>1. /\ UNCHANGED <<table, freeSlots, nextSlot, taskId, pending, current, target, user, slot,
                     held, spawn, st>>
      /\ \/ mode' = mode
         \/ mode[h] = "pop" /\ mode' = [mode EXCEPT ![h] = "idle"]
         \/ mode[h] = "idle" /\ mode' = [mode EXCEPT ![h] = "asleep"]
         \/ mode[h] = "asleep" /\ mode' = [mode EXCEPT ![h] = "pop"]
         \/ mode[h] = "user" /\ mode' = [mode EXCEPT ![h] = "trap"]
      /\ \/ ready' = ready /\ ipi' \in [Harts -> BOOLEAN] /\ kick' \in [Harts -> Harts \cup {None}]
         \/ /\ PopStale(h) /\ ipi' = ipi /\ kick' = kick
         \/ ipi' = ipi /\ \E tid \in Tids : Wake(h, tid)
  <2>0. mode' = [mode EXCEPT ![h] = mode[h]] => mode' = mode  BY DEF TypeOK
  <2>1. CASE SendIpi(h)
    <3>1. kick[h] \in Harts  BY <2>1 DEF SendIpi, TypeOK
    <3> QED  BY <2>1, <3>1 DEF SendIpi, TypeOK, tables, cpus
  <2>2. CASE Interrupt(h)
    <3>1. \/ mode' = mode
          \/ mode[h] = "asleep" /\ mode' = [mode EXCEPT ![h] = "pop"]
      BY <2>0, <2>2 DEF Interrupt, Goto
    <3> QED  BY <2>2, <3>1 DEF Interrupt, TypeOK, tables, cpus
  <2>3. CASE PopEmpty(h) \/ Sleep(h)
    BY <2>3 DEF PopEmpty, Sleep, TypeOK, tables, cpus, Goto
  <2>4. CASE PopStale(h)  BY <2>4 DEF PopStale, tables, cpus
  <2>5. CASE Trap(h)  BY <2>5 DEF Trap, TypeOK, tables, cpus, Goto
  <2>6. ASSUME NEW tid \in Issued, PollWake(h, tid) \/ TrapWake(h, tid)
        PROVE  /\ UNCHANGED <<table, freeSlots, nextSlot, taskId, pending, current, target, user,
                              slot, held, spawn, st, mode, ipi>>
               /\ tid \in Tids /\ Wake(h, tid)
    BY <2>6 DEF PollWake, TrapWake, tables, cpus, Issued
  <2>7. ASSUME NEW tid \in Issued, InterruptWake(h, tid)
        PROVE  /\ UNCHANGED <<table, freeSlots, nextSlot, taskId, pending, current, target, user,
                              slot, held, spawn, st, ipi>>
               /\ tid \in Tids /\ Wake(h, tid)
               /\ \/ mode' = mode
                  \/ mode[h] = "asleep" /\ mode' = [mode EXCEPT ![h] = "pop"]
    BY <2>0, <2>7 DEF InterruptWake, tables, cpus, Goto, Issued
  <2> QED  BY <2>1, <2>2, <2>3, <2>4, <2>5, <2>6, <2>7
<1>2. /\ mode' \in [Harts -> Modes]
      /\ \A g \in Harts : \/ mode'[g] = mode[g]
                          \/ {mode[g], mode'[g]} \subseteq {"pop", "idle", "asleep"}
                          \/ {mode[g], mode'[g]} \subseteq {"user", "trap"}
  <2>1. mode \in [Harts -> Modes]  BY DEF TypeOK
  <2>2. mode' \in [Harts -> Modes] /\ \A g \in Harts \ {h} : mode'[g] = mode[g]
    BY <1>1, <2>1 DEF Modes
  <2>3. \/ mode'[h] = mode[h]
        \/ {mode[h], mode'[h]} \subseteq {"pop", "idle", "asleep"}
        \/ {mode[h], mode'[h]} \subseteq {"user", "trap"}
    BY <1>1, <2>1
  <2> QED  BY <2>2, <2>3
<1>3. /\ ready' \in [Harts -> Seq(Slots)] /\ ipi' \in [Harts -> BOOLEAN]
      /\ kick' \in [Harts -> Harts \cup {None}]
      /\ \A p \in Procs : st[p] = "user" /\ Queued(p) => Queued(p)'
  <2>1. CASE ready' = ready /\ ipi' \in [Harts -> BOOLEAN] /\ kick' \in [Harts -> Harts \cup {None}]
    BY <1>1, <2>1 DEF TypeOK, Queued
  <2>2. CASE PopStale(h) /\ ipi' = ipi /\ kick' = kick
    <3>1. /\ mode[h] = "pop" /\ ready[h] # <<>> /\ table[h][Head(ready[h])] = None
          /\ ready' = [ready EXCEPT ![h] = Tail(ready[h])]
      BY <2>2 DEF PopStale
    <3>2. ready[h] \in Seq(Slots)  BY DEF TypeOK
    <3>3. /\ Tail(ready[h]) \in Seq(Slots) /\ Head(ready[h]) \in Slots
          /\ \A x : In(ready[h], x) => x = Head(ready[h]) \/ In(Tail(ready[h]), x)
      BY <3>1, <3>2, InTail
    <3>4. ready' \in [Harts -> Seq(Slots)]  BY <3>1, <3>3 DEF TypeOK
    <3>5. ASSUME NEW p \in Procs, st[p] = "user", Queued(p) PROVE Queued(p)'
      <4>1. taskId[p] \in Harts \X Slots  BY DEF TypeOK, Tids
      <4>2. taskId[p][1] \in Harts  BY SMT, <4>1
      <4>3. In(ready[taskId[p][1]], taskId[p][2])  BY <3>5 DEF Queued, In
      <4>4. ~(taskId[p][1] = h /\ taskId[p][2] = Head(ready[h]))
        BY <3>1, <3>3, <3>5, StaleIsNobody
      <4>5. In(ready'[taskId[p][1]], taskId[p][2])
        <5>1. CASE taskId[p][1] = h
          <6>1. ready'[h] = Tail(ready[h])  BY <3>1 DEF TypeOK
          <6>2. taskId[p][2] # Head(ready[h])  BY <4>4, <5>1
          <6> QED  BY <3>3, <4>3, <5>1, <6>1, <6>2
        <5>2. CASE taskId[p][1] # h
          <6>1. ready'[taskId[p][1]] = ready[taskId[p][1]]  BY <3>1, <4>2, <5>2 DEF TypeOK
          <6> QED  BY <4>3, <6>1
        <5> QED  BY <5>1, <5>2
      <4> QED  BY <1>1, <4>5 DEF Queued, In
    <3> QED  BY <2>2, <3>4, <3>5 DEF TypeOK
  <2>3. ASSUME NEW tid \in Tids, ipi' = ipi, Wake(h, tid)
        PROVE  /\ ready' \in [Harts -> Seq(Slots)] /\ ipi' \in [Harts -> BOOLEAN]
               /\ kick' \in [Harts -> Harts \cup {None}]
               /\ \A p \in Procs : Queued(p) => Queued(p)'
    BY <1>1, <2>3, WakeIs DEF TypeOK
  <2> QED  BY <1>1, <2>1, <2>2, <2>3
<1>4. TypeOK'  BY <1>1, <1>2, <1>3 DEF TypeOK
<1> QED  BY <1>1, <1>2, <1>3, <1>4, QuietInv

-----------------------------------------------------------------------------
(* Tasks leave their slots and come back.                                  *)

LEMMA IdIs ==
  ASSUME TypeOK, NEW p \in Procs
  PROVE  taskId[p] \in Tids /\ taskId[p][1] \in Harts /\ taskId[p][2] \in Slots
<1>1. taskId[p] \in Harts \X Slots  BY DEF TypeOK, Tids
<1> QED  BY SMT, <1>1 DEF Tids

\* What a hart holds is nobody else's, and in no table.
LEMMA HeldIs ==
  ASSUME ExecInv, NEW h \in Harts, held[h] # None
  PROVE  /\ held[h] \in Procs /\ slot[h] \in Slots /\ current[h] = held[h]
         /\ taskId[held[h]][1] = h /\ taskId[held[h]][2] = slot[h]
         /\ table[h][slot[h]] = None /\ st[held[h]] # "absent"
         /\ \A k \in Harts \ {h} : held[k] # held[h] /\ current[k] # held[h] /\ user[k] # held[h]
         /\ \A g \in Harts, s \in Slots : table[g][s] # held[h]
<1> USE DEF ExecInv
<1>1. held[h] \in Procs /\ slot[h] \in Slots  BY DEF TypeOK
<1>2. taskId[held[h]][2] = slot[h] /\ current[h] = held[h]  BY DEF Holding
<1>3. taskId[held[h]][1] = h  BY DEF Holding
<1>4. table[h][slot[h]] = None  BY <1>1 DEF SlotsApart, SlotApart, HeldAt
<1>5. st[held[h]] # "absent"  BY DEF Holding
<1>6. ASSUME NEW k \in Harts \ {h}
      PROVE  held[k] # held[h] /\ current[k] # held[h] /\ user[k] # held[h]
  <2>1. current[k] # held[h]  BY <1>3, ExecutorAssumption DEF Pointing
  <2>2. held[k] # held[h]  BY <2>1 DEF Holding
  <2>3. user[k] # held[h]  BY <2>1 DEF InUser
  <2> QED  BY <2>1, <2>2, <2>3
<1>7. ASSUME NEW g \in Harts, NEW s \in Slots
      PROVE  table[g][s] # held[h]
  <2>1. SUFFICES ASSUME table[g][s] = held[h] PROVE FALSE  OBVIOUS
  <2>2. taskId[held[h]][1] = g /\ taskId[held[h]][2] = s
    BY SMT, <2>1 DEF InSlot
  <2> QED  BY <1>2, <1>3, <1>4, <2>1, <2>2
<1> QED  BY <1>1, <1>2, <1>3, <1>4, <1>5, <1>6, <1>7

LEMMA PopTaskInv ==
  ASSUME ExecInv, NEW h \in Harts, PopTask(h)
  PROVE  ExecInv'
<1> USE DEF ExecInv
<1>0. PICK s, p : s = Head(ready[h]) /\ p = table[h][s]  OBVIOUS
<1>1. /\ mode[h] = "pop" /\ ready[h] # <<>> /\ p # None
      /\ ready' = [ready EXCEPT ![h] = Tail(ready[h])]
      /\ slot' = [slot EXCEPT ![h] = s] /\ held' = [held EXCEPT ![h] = p]
      /\ table' = [table EXCEPT ![h] = [table[h] EXCEPT ![s] = None]]
      /\ current' = [current EXCEPT ![h] = p] /\ mode' = [mode EXCEPT ![h] = "poll"]
      /\ UNCHANGED <<freeSlots, nextSlot, taskId, pending, target, user, spawn, kick, ipi, st>>
  BY <1>0 DEF PopTask, Goto
<1>2. /\ Tail(ready[h]) \in Seq(Slots) /\ s \in Slots
      /\ \A x : In(ready[h], x) => x = s \/ In(Tail(ready[h]), x)
  BY <1>0, <1>1, InTail DEF TypeOK
<1>3. p \in Procs /\ st[p] \in {"user", "blocked"}
  <2>1. table[h][s] \in Procs \cup {None}  BY SMT, <1>2 DEF TypeOK
  <2> QED  BY <1>0, <1>1, <1>2, <2>1 DEF InSlot
<1>4. taskId[p][1] = h /\ taskId[p][2] = s  BY SMTT(30), <1>0, <1>1, <1>2 DEF InSlot
<1>5. /\ held[h] = None /\ user[h] = None /\ target[h] = None
  BY <1>1 DEF Holding, InUser
<1>6. /\ mode'[h] = "poll" /\ held'[h] = p /\ slot'[h] = s /\ current'[h] = p
      /\ ready'[h] = Tail(ready[h])
      /\ \A k \in Harts \ {h} : /\ mode'[k] = mode[k] /\ held'[k] = held[k] /\ slot'[k] = slot[k]
                                /\ current'[k] = current[k] /\ ready'[k] = ready[k]
  BY <1>1 DEF TypeOK
<1>7. /\ table'[h][s] = None
      /\ \A g \in Harts, x \in Slots : (g # h \/ x # s) => table'[g][x] = table[g][x]
  <2>1. table[h] \in [Slots -> Procs \cup {None}]  BY DEF TypeOK
  <2> QED  BY <1>1, <1>2, <2>1 DEF TypeOK
<1>8. TypeOK'
  <2>1. table' \in [Harts -> [Slots -> Procs \cup {None}]]
    <3>1. [table[h] EXCEPT ![s] = None] \in [Slots -> Procs \cup {None}]  BY DEF TypeOK
    <3> QED  BY <1>1, <3>1 DEF TypeOK
  <2>2. ready' \in [Harts -> Seq(Slots)]  BY <1>1, <1>2 DEF TypeOK
  <2>3. /\ slot' \in [Harts -> Slots] /\ held' \in [Harts -> Procs \cup {None}]
        /\ current' \in [Harts -> Procs \cup {None}]
    BY <1>1, <1>2, <1>3 DEF TypeOK
  <2>4. mode' \in [Harts -> Modes]  BY <1>1 DEF TypeOK, Modes
  <2> QED  BY <1>1, <2>1, <2>2, <2>3, <2>4 DEF TypeOK
<1>9. InSlot' /\ Somewhere'
  <2>1. ASSUME NEW g \in Harts, NEW x \in Slots, table'[g][x] # None
        PROVE  /\ taskId'[table'[g][x]][1] = g /\ taskId'[table'[g][x]][2] = x
               /\ st'[table'[g][x]] \in {"user", "blocked"}
    <3>1. table'[g][x] = table[g][x]  BY <1>7, <2>1
    <3> QED  BY SMT, <1>1, <2>1, <3>1 DEF InSlot
  <2>2. ASSUME NEW q \in Procs, st'[q] # "absent"
        PROVE  table'[taskId'[q][1]][taskId'[q][2]] = q \/ held'[taskId'[q][1]] = q
    <3>1. CASE q = p  BY <1>1, <1>4, <1>6, <3>1
    <3>2. CASE q # p
      <4>1. PICK g \in Harts, x \in Slots : g = taskId[q][1] /\ x = taskId[q][2]  BY IdIs
      <4>2. table[g][x] = q \/ held[g] = q  BY <1>1, <2>2, <4>1 DEF Somewhere
      <4>3. CASE table[g][x] = q
        <5>1. g # h \/ x # s  BY <1>0, <3>2, <4>3
        <5> QED  BY SMT, <1>1, <1>7, <4>1, <4>3, <5>1
      <4>4. CASE held[g] = q
        <5>1. g # h  BY <1>5, <4>4, ExecutorAssumption
        <5> QED  BY SMT, <1>1, <1>6, <4>1, <4>4, <5>1
      <4> QED  BY <4>2, <4>3, <4>4
    <3> QED  BY <3>1, <3>2
  <2> QED  BY <2>1, <2>2 DEF InSlot, Somewhere
<1>10. Holding'
  <2> SUFFICES ASSUME NEW k \in Harts
               PROVE  /\ held'[k] # None <=> mode'[k] \in {"poll", "spawn", "putback", "recycle"}
                      /\ held'[k] # None => /\ taskId'[held'[k]][1] = k
                                            /\ taskId'[held'[k]][2] = slot'[k]
                                            /\ current'[k] = held'[k]
                      /\ mode'[k] = "poll" => st'[held'[k]] \in {"user", "sys", "blocked"}
                      /\ mode'[k] = "spawn" => st'[held'[k]] = "sys"
                      /\ mode'[k] = "putback" => st'[held'[k]] \in {"user", "blocked"}
                      /\ mode'[k] = "recycle" => st'[held'[k]] = "done"
    BY DEF Holding
  <2>1. CASE k = h  BY SMT, <1>1, <1>3, <1>4, <1>6, <2>1
  <2>2. CASE k # h
    <3>1. /\ mode'[k] = mode[k] /\ held'[k] = held[k] /\ slot'[k] = slot[k]
          /\ current'[k] = current[k] /\ taskId' = taskId /\ st' = st
      BY <1>1, <1>6, <2>2
    <3> QED  BY SMT, <3>1 DEF Holding
  <2> QED  BY <2>1, <2>2
<1>11. Pointing'
  <2>1. \A k \in Harts : (current'[k] = p /\ k = h) \/ current'[k] = current[k]  BY <1>6
  <2> QED  BY <1>1, <1>3, <1>4, <2>1 DEF Pointing
<1>12. ASSUME NEW g \in Harts, NEW x \in Slots PROVE SlotApart(g, x)'
  <2>1. SlotApart(g, x)  BY DEF SlotsApart
  <2>2. \A k \in Harts : Reserved(k, g, x)' <=> Reserved(k, g, x)  BY <1>1 DEF Reserved
  <2>3. In(freeSlots[g], x)' <=> In(freeSlots[g], x)  BY <1>1 DEF In
  <2>4. CASE g = h /\ x = s
    <3>1. /\ HeldAt(g, x)' /\ table'[g][x] = None /\ table[g][x] # None
          /\ nextSlot' = nextSlot
      BY <1>0, <1>1, <1>6, <1>7, <2>4 DEF HeldAt
    <3> QED  BY <2>1, <2>2, <2>3, <3>1 DEF SlotApart
  <2>5. CASE ~(g = h /\ x = s)
    <3>1. table'[g][x] = table[g][x] /\ nextSlot' = nextSlot  BY <1>1, <1>7, <2>5
    <3>2. HeldAt(g, x)' <=> HeldAt(g, x)  BY <1>5, <1>6, <2>5 DEF HeldAt
    <3> QED  BY <2>1, <2>2, <2>3, <3>1, <3>2 DEF SlotApart
  <2> QED  BY <2>4, <2>5
<1>13. FreeOnce'  BY <1>1 DEF FreeOnce, Once
<1>14. Spawning'
  <2>1. \A k \in Harts : mode'[k] = "spawn" <=> mode[k] = "spawn"  BY <1>1, <1>6
  <2> QED  BY SMT, <1>1, <2>1 DEF Spawning
<1>15. InUser'
  <2>1. \A k \in Harts \ {h} : mode'[k] = mode[k] /\ held'[k] = held[k] /\ current'[k] = current[k]
    BY <1>6
  <2>2. /\ target' = target /\ user' = user /\ st' = st /\ pending' = pending
    BY <1>1
  <2> QED  BY SMT, <1>5, <1>6, <2>1, <2>2 DEF InUser
<1>16. Coming'
  <2>1. ASSUME NEW q \in Procs, st[q] = "user", Queued(q), q # p
        PROVE  Queued(q)'
    <3>1. ~(taskId[q][1] = h /\ taskId[q][2] = s)
      <4>1. SUFFICES ASSUME taskId[q][1] = h /\ taskId[q][2] = s PROVE FALSE  OBVIOUS
      <4>2. table[h][s] = q \/ held[h] = q  BY <2>1, <4>1 DEF Somewhere
      <4> QED  BY <1>0, <1>5, <2>1, <4>2, ExecutorAssumption
    <3>2. /\ taskId[q][1] \in Harts
          /\ In(ready[taskId[q][1]], taskId[q][2])
      BY <2>1, IdIs DEF Queued, In
    <3>3. In(ready'[taskId[q][1]], taskId[q][2])
      <4>1. CASE taskId[q][1] = h
        <5>1. taskId[q][2] # s  BY <3>1, <4>1
        <5> QED  BY <1>2, <1>6, <3>2, <4>1, <5>1
      <4>2. CASE taskId[q][1] # h  BY <1>6, <3>2, <4>2
      <4> QED  BY <4>1, <4>2
    <3> QED  BY <1>1, <3>3 DEF Queued, In
  <2>2. \A k \in Harts, q \in Procs : held[k] = q => held'[k] = q
    BY <1>5, <1>6, ExecutorAssumption
  <2>3. ASSUME NEW q \in Procs, st'[q] = "user"
        PROVE  \/ Queued(q)' \/ (\E k \in Harts : held'[k] = q)
               \/ ~pending'[q] /\ \E k \in Harts : user'[k] = q \/ spawn'[k].task = q
    <3>1. CASE q = p  BY <1>6, <3>1
    <3>2. CASE q # p
      <4>1. st[q] = "user" /\ pending' = pending /\ user' = user /\ spawn' = spawn
        BY <1>1, <2>3
      <4>2. \/ Queued(q) \/ (\E k \in Harts : held[k] = q)
            \/ ~pending[q] /\ \E k \in Harts : user[k] = q \/ spawn[k].task = q
        BY <4>1 DEF Coming
      <4> QED  BY <2>1, <2>2, <3>2, <4>1, <4>2
    <3> QED  BY <3>1, <3>2
  <2> QED  BY <2>3 DEF Coming
<1> QED  BY <1>8, <1>9, <1>10, <1>11, <1>12, <1>13, <1>14, <1>15, <1>16
   DEF SlotsApart

LEMMA PutBackInv ==
  ASSUME ExecInv, NEW h \in Harts, PutBack(h)
  PROVE  ExecInv'
<1> USE DEF ExecInv
<1>0. PICK s, p : s = slot[h] /\ p = held[h]  OBVIOUS
<1>1. /\ mode[h] = "putback"
      /\ table' = [table EXCEPT ![h] = [table[h] EXCEPT ![s] = p]]
      /\ held' = [held EXCEPT ![h] = None] /\ slot' = [slot EXCEPT ![h] = 0]
      /\ target' = [target EXCEPT ![h] = None] /\ user' = [user EXCEPT ![h] = target[h]]
      /\ mode' = [mode EXCEPT ![h] = IF target[h] = None THEN "pop" ELSE "user"]
      /\ UNCHANGED <<ready, freeSlots, nextSlot, taskId, pending, current, spawn, kick, ipi, st>>
  BY <1>0 DEF PutBack, TakeTarget, Goto
<1>2. p # None  BY <1>0, <1>1 DEF Holding
<1>3. /\ p \in Procs /\ s \in Slots /\ current[h] = p /\ taskId[p][1] = h /\ taskId[p][2] = s
      /\ table[h][s] = None
      /\ \A k \in Harts \ {h} : held[k] # p
  BY <1>0, <1>2, HeldIs
<1>4. st[p] \in {"user", "blocked"}  BY <1>0, <1>1 DEF Holding
<1>5. /\ user[h] = None
      /\ target[h] # None <=> st[p] = "user"
      /\ target[h] # None => target[h] = p /\ ~pending[p]
  BY <1>0, <1>1 DEF InUser
<1>6. /\ held'[h] = None /\ target'[h] = None /\ user'[h] = target[h]
      /\ target[h] = None => mode'[h] = "pop"
      /\ target[h] # None => mode'[h] = "user"
      /\ \A k \in Harts \ {h} : /\ mode'[k] = mode[k] /\ held'[k] = held[k] /\ slot'[k] = slot[k]
                                /\ target'[k] = target[k] /\ user'[k] = user[k]
  BY <1>1 DEF TypeOK
<1>7. /\ table'[h][s] = p
      /\ \A g \in Harts, x \in Slots : (g # h \/ x # s) => table'[g][x] = table[g][x]
  <2>1. table[h] \in [Slots -> Procs \cup {None}]  BY DEF TypeOK
  <2> QED  BY <1>1, <1>3, <2>1 DEF TypeOK
<1>8. TypeOK'
  <2>1. table' \in [Harts -> [Slots -> Procs \cup {None}]]
    <3>1. [table[h] EXCEPT ![s] = p] \in [Slots -> Procs \cup {None}]  BY <1>3 DEF TypeOK
    <3> QED  BY <1>1, <3>1 DEF TypeOK
  <2>2. slot' \in [Harts -> Slots]
    <3>1. 0 \in Slots  BY SMT, ExecutorAssumption DEF Slots
    <3> QED  BY <1>1, <3>1 DEF TypeOK
  <2>3. /\ held' \in [Harts -> Procs \cup {None}] /\ target' \in [Harts -> Procs \cup {None}]
        /\ user' \in [Harts -> Procs \cup {None}]
    BY <1>1 DEF TypeOK
  <2>4. mode' \in [Harts -> Modes]  BY <1>1 DEF TypeOK, Modes
  <2> QED  BY <1>1, <2>1, <2>2, <2>3, <2>4 DEF TypeOK
<1>9. InSlot' /\ Somewhere'
  <2>1. ASSUME NEW g \in Harts, NEW x \in Slots, table'[g][x] # None
        PROVE  /\ taskId'[table'[g][x]][1] = g /\ taskId'[table'[g][x]][2] = x
               /\ st'[table'[g][x]] \in {"user", "blocked"}
    <3>1. CASE g = h /\ x = s  BY <1>1, <1>3, <1>4, <1>7, <3>1
    <3>2. CASE ~(g = h /\ x = s)
      <4>1. table'[g][x] = table[g][x]  BY <1>7, <3>2
      <4> QED  BY SMT, <1>1, <2>1, <4>1 DEF InSlot
    <3> QED  BY <3>1, <3>2
  <2>2. ASSUME NEW q \in Procs, st'[q] # "absent"
        PROVE  table'[taskId'[q][1]][taskId'[q][2]] = q \/ held'[taskId'[q][1]] = q
    <3>1. CASE q = p  BY <1>1, <1>3, <1>7, <3>1
    <3>2. CASE q # p
      <4>1. PICK g \in Harts, x \in Slots : g = taskId[q][1] /\ x = taskId[q][2]  BY IdIs
      <4>2. table[g][x] = q \/ held[g] = q  BY <1>1, <2>2, <4>1 DEF Somewhere
      <4>3. CASE table[g][x] = q
        <5>1. g # h \/ x # s  BY <1>3, <4>3, ExecutorAssumption
        <5> QED  BY SMT, <1>1, <1>7, <4>1, <4>3, <5>1
      <4>4. CASE held[g] = q
        <5>1. g # h  BY <1>0, <3>2, <4>4
        <5> QED  BY SMT, <1>1, <1>6, <4>1, <4>4, <5>1
      <4> QED  BY <4>2, <4>3, <4>4
    <3> QED  BY <3>1, <3>2
  <2> QED  BY <2>1, <2>2 DEF InSlot, Somewhere
<1>10. Holding'
  <2>1. ASSUME NEW k \in Harts, k # h
        PROVE  /\ mode'[k] = mode[k] /\ held'[k] = held[k] /\ slot'[k] = slot[k]
               /\ current'[k] = current[k] /\ taskId' = taskId /\ st' = st
    BY <1>1, <1>6, <2>1
  <2>2. held'[h] = None /\ mode'[h] \in {"pop", "user"}  BY <1>6
  <2> QED  BY SMT, <2>1, <2>2 DEF Holding
<1>11. Pointing'  BY <1>1 DEF Pointing
<1>12. ASSUME NEW g \in Harts, NEW x \in Slots PROVE SlotApart(g, x)'
  <2>1. SlotApart(g, x)  BY DEF SlotsApart
  <2>2. \A k \in Harts : Reserved(k, g, x)' <=> Reserved(k, g, x)  BY <1>1 DEF Reserved
  <2>3. In(freeSlots[g], x)' <=> In(freeSlots[g], x)  BY <1>1 DEF In
  <2>4. CASE g = h /\ x = s
    <3>1. HeldAt(g, x) /\ ~HeldAt(g, x)' /\ nextSlot' = nextSlot
      BY <1>0, <1>1, <1>2, <1>6, <2>4 DEF HeldAt
    <3> QED  BY <2>1, <2>2, <2>3, <3>1 DEF SlotApart
  <2>5. CASE ~(g = h /\ x = s)
    <3>1. table'[g][x] = table[g][x] /\ nextSlot' = nextSlot  BY <1>1, <1>7, <2>5
    <3>2. HeldAt(g, x)' <=> HeldAt(g, x)  BY <1>0, <1>6, <2>5 DEF HeldAt
    <3> QED  BY <2>1, <2>2, <2>3, <3>1, <3>2 DEF SlotApart
  <2> QED  BY <2>4, <2>5
<1>13. FreeOnce'  BY <1>1 DEF FreeOnce, Once
<1>14. Spawning'
  <2>1. \A k \in Harts : mode'[k] = "spawn" <=> mode[k] = "spawn"  BY <1>1, <1>6
  <2> QED  BY SMT, <1>1, <2>1 DEF Spawning
<1>15. InUser'
  <2>1. \A k \in Harts \ {h} : /\ mode'[k] = mode[k] /\ held'[k] = held[k]
                               /\ target'[k] = target[k] /\ user'[k] = user[k]
    BY <1>6
  <2>2. current' = current /\ st' = st /\ pending' = pending  BY <1>1
  <2> QED  BY SMT, <1>3, <1>5, <1>6, <2>1, <2>2 DEF InUser
<1>16. Coming'
  <2>1. ASSUME NEW q \in Procs, st'[q] = "user"
        PROVE  \/ Queued(q)' \/ (\E k \in Harts : held'[k] = q)
               \/ ~pending'[q] /\ \E k \in Harts : user'[k] = q \/ spawn'[k].task = q
    <3>1. st[q] = "user" /\ pending' = pending /\ spawn' = spawn  BY <1>1, <2>1
    <3>2. CASE q = p  BY <1>5, <1>6, <3>1, <3>2
    <3>3. CASE q # p
      <4>1. \/ Queued(q) \/ (\E k \in Harts : held[k] = q)
            \/ ~pending[q] /\ \E k \in Harts : user[k] = q \/ spawn[k].task = q
        BY <3>1 DEF Coming
      <4>2. Queued(q) => Queued(q)'  BY <1>1 DEF Queued
      <4>3. \A k \in Harts : held[k] = q => held'[k] = q  BY <1>0, <1>6, <3>3
      <4>4. \A k \in Harts : user[k] = q => user'[k] = q  BY <1>5, <1>6, ExecutorAssumption
      <4> QED  BY <3>1, <4>1, <4>2, <4>3, <4>4
    <3> QED  BY <3>2, <3>3
  <2> QED  BY <2>1 DEF Coming
<1> QED  BY <1>8, <1>9, <1>10, <1>11, <1>12, <1>13, <1>14, <1>15, <1>16
   DEF SlotsApart

LEMMA FinishInv ==
  ASSUME ExecInv, NEW h \in Harts, Finish(h)
  PROVE  ExecInv'
<1> USE DEF ExecInv
<1>0. PICK s, p : s = slot[h] /\ p = held[h]  OBVIOUS
<1>1. /\ mode[h] = "recycle"
      /\ st' = [st EXCEPT ![p] = "absent"] /\ taskId' = [taskId EXCEPT ![p] = <<0, 0>>]
      /\ current' = [current EXCEPT ![h] = None]
      /\ freeSlots' = [freeSlots EXCEPT ![h] = Append(freeSlots[h], s)]
      /\ held' = [held EXCEPT ![h] = None] /\ slot' = [slot EXCEPT ![h] = 0]
      /\ mode' = [mode EXCEPT ![h] = "pop"]
      /\ UNCHANGED <<ready, table, nextSlot, pending, target, user, spawn, kick, ipi>>
  BY <1>0 DEF Finish, Forget, Recycle, Goto
<1>2. p # None /\ st[p] = "done"  BY <1>0, <1>1 DEF Holding
<1>3. /\ p \in Procs /\ s \in Slots /\ table[h][s] = None
      /\ \A k \in Harts \ {h} : held[k] # p /\ current[k] # p /\ user[k] # p
      /\ \A g \in Harts, x \in Slots : table[g][x] # p
  BY SMT, <1>0, <1>2, HeldIs
<1>4. HeldAt(h, s)  BY <1>0, <1>2 DEF HeldAt
<1>5. user[h] = None /\ target[h] = None  BY <1>1 DEF InUser
<1>6. /\ ~In(freeSlots[h], s) /\ freeSlots[h] \in Seq(Slots) /\ Once(freeSlots[h])
      /\ s < nextSlot[h] /\ \A k \in Harts : ~Reserved(k, h, s)
  BY <1>3, <1>4 DEF SlotsApart, SlotApart, FreeOnce, TypeOK
<1>7. /\ Append(freeSlots[h], s) \in Seq(Slots) /\ Once(Append(freeSlots[h], s))
      /\ \A x : In(Append(freeSlots[h], s), x) <=> In(freeSlots[h], x) \/ x = s
  BY <1>3, <1>6, FreeGive
<1>8. /\ held'[h] = None /\ current'[h] = None /\ mode'[h] = "pop"
      /\ freeSlots'[h] = Append(freeSlots[h], s)
      /\ \A k \in Harts \ {h} : /\ mode'[k] = mode[k] /\ held'[k] = held[k] /\ slot'[k] = slot[k]
                                /\ current'[k] = current[k] /\ freeSlots'[k] = freeSlots[k]
  BY <1>1 DEF TypeOK
<1>9. /\ st'[p] = "absent"
      /\ \A q \in Procs \ {p} : st'[q] = st[q] /\ taskId'[q] = taskId[q]
  BY <1>1, <1>3 DEF TypeOK
<1>10. TypeOK'
  <2>1. freeSlots' \in [Harts -> Seq(Slots)]  BY <1>1, <1>7 DEF TypeOK
  <2>2. 0 \in Slots  BY SMT, ExecutorAssumption DEF Slots
  <2>3. slot' \in [Harts -> Slots]  BY <1>1, <2>2 DEF TypeOK
  <2>4. taskId' \in [Procs -> Tids]
    <3>1. <<0, 0>> \in Tids  BY <2>2, ExecutorAssumption DEF Tids
    <3> QED  BY <1>1, <3>1 DEF TypeOK
  <2>5. mode' \in [Harts -> Modes]  BY <1>1 DEF TypeOK, Modes
  <2>6. /\ held' \in [Harts -> Procs \cup {None}] /\ current' \in [Harts -> Procs \cup {None}]
    BY <1>1 DEF TypeOK
  <2>7. st' \in [Procs -> {"absent", "user", "sys", "blocked", "done"}]  BY <1>1 DEF TypeOK
  <2> QED  BY <1>1, <2>1, <2>3, <2>4, <2>5, <2>6, <2>7 DEF TypeOK
<1>11. InSlot' /\ Somewhere'
  <2>1. ASSUME NEW g \in Harts, NEW x \in Slots, table'[g][x] # None
        PROVE  /\ taskId'[table'[g][x]][1] = g /\ taskId'[table'[g][x]][2] = x
               /\ st'[table'[g][x]] \in {"user", "blocked"}
    <3>1. PICK q \in Procs \ {p} : table[g][x] = q /\ table'[g][x] = q
      <4>1. table[g][x] \in Procs \cup {None}  BY SMT DEF TypeOK
      <4> QED  BY <1>1, <1>3, <2>1, <4>1
    <3>2. taskId[q][1] = g /\ taskId[q][2] = x /\ st[q] \in {"user", "blocked"}
      BY SMT, <1>1, <2>1, <3>1 DEF InSlot
    <3> QED  BY <1>9, <3>1, <3>2
  <2>2. ASSUME NEW q \in Procs, st'[q] # "absent"
        PROVE  table'[taskId'[q][1]][taskId'[q][2]] = q \/ held'[taskId'[q][1]] = q
    <3>1. q # p  BY <1>9, <2>2
    <3>2. st[q] # "absent" /\ taskId'[q] = taskId[q]  BY <1>9, <2>2, <3>1
    <3>3. PICK g \in Harts, x \in Slots : g = taskId[q][1] /\ x = taskId[q][2]  BY IdIs
    <3>4. table[g][x] = q \/ held[g] = q  BY <3>2, <3>3 DEF Somewhere
    <3>5. held[g] = q => held'[g] = q  BY <1>0, <1>8, <3>1
    <3> QED  BY <1>1, <3>2, <3>3, <3>4, <3>5
  <2> QED  BY <2>1, <2>2 DEF InSlot, Somewhere
<1>12. Holding'
  <2>1. ASSUME NEW k \in Harts, k # h
        PROVE  /\ mode'[k] = mode[k] /\ held'[k] = held[k] /\ slot'[k] = slot[k]
               /\ current'[k] = current[k]
               /\ held[k] # None => taskId'[held[k]] = taskId[held[k]] /\ st'[held[k]] = st[held[k]]
    <3>1. held[k] \in Procs \cup {None} /\ held[k] # p  BY <1>3, <2>1 DEF TypeOK
    <3> QED  BY <1>8, <1>9, <2>1, <3>1
  <2>2. held'[h] = None /\ mode'[h] = "pop"  BY <1>8
  <2> QED  BY SMT, <2>1, <2>2 DEF Holding
<1>13. Pointing'
  <2>1. ASSUME NEW k \in Harts, current'[k] # None
        PROVE  st'[current'[k]] # "absent" /\ taskId'[current'[k]][1] = k
    <3>1. k # h  BY <1>8, <2>1
    <3>2. current'[k] = current[k] /\ current[k] \in Procs \ {p}
      <4>1. current[k] \in Procs \cup {None}  BY DEF TypeOK
      <4> QED  BY <1>3, <1>8, <2>1, <3>1, <4>1
    <3>3. st[current[k]] # "absent" /\ taskId[current[k]][1] = k  BY <2>1, <3>2 DEF Pointing
    <3> QED  BY <1>9, <3>2, <3>3
  <2> QED  BY <2>1 DEF Pointing
<1>14. ASSUME NEW g \in Harts, NEW x \in Slots PROVE SlotApart(g, x)'
  <2>1. SlotApart(g, x)  BY DEF SlotsApart
  <2>2. \A k \in Harts : Reserved(k, g, x)' <=> Reserved(k, g, x)  BY <1>1 DEF Reserved
  <2>3. table' = table /\ nextSlot' = nextSlot  BY <1>1
  <2>4. CASE g = h /\ x = s
    <3>1. ~HeldAt(g, x)' /\ In(freeSlots[g], x)'  BY <1>7, <1>8, <2>4 DEF HeldAt
    <3> QED  BY <1>3, <1>6, <2>2, <2>3, <2>4, <3>1 DEF SlotApart
  <2>5. CASE ~(g = h /\ x = s)
    <3>1. HeldAt(g, x)' => HeldAt(g, x)  BY <1>8 DEF HeldAt
    <3>2. In(freeSlots[g], x)' <=> In(freeSlots[g], x)  BY <1>7, <1>8, <2>5
    <3> QED  BY <2>1, <2>2, <2>3, <3>1, <3>2 DEF SlotApart
  <2> QED  BY <2>4, <2>5
<1>15. FreeOnce'  BY <1>7, <1>8 DEF FreeOnce
<1>16. \A k \in Harts : spawn'[k] = spawn[k]  BY <1>1
<1>17. Spawning'
  <2>1. \A k \in Harts : mode'[k] = "spawn" <=> mode[k] = "spawn"  BY <1>1, <1>8
  <2>2. ASSUME NEW k \in Harts, spawn[k].task # None
        PROVE  /\ spawn[k].step \in {"publish", "insert"} => st'[spawn[k].task] = "absent"
               /\ spawn[k].step = "insert"
                    \/ (spawn[k].step = "enqueue" /\ st'[spawn[k].task] # "absent") =>
                    /\ taskId'[spawn[k].task][1] = spawn[k].home
                    /\ taskId'[spawn[k].task][2] = spawn[k].slot
    <3>1. spawn[k].task \in Procs  BY <2>2 DEF TypeOK
    <3>2. /\ spawn[k].step \in {"publish", "insert"} => st[spawn[k].task] = "absent"
          /\ spawn[k].step = "insert"
                    \/ (spawn[k].step = "enqueue" /\ st[spawn[k].task] # "absent") =>
                    /\ taskId[spawn[k].task][1] = spawn[k].home
                    /\ taskId[spawn[k].task][2] = spawn[k].slot
      BY SMT, <2>2 DEF Spawning
    <3>3. CASE spawn[k].task = p  BY <1>2, <1>9, <3>2, <3>3
    <3>4. CASE spawn[k].task # p  BY <1>9, <3>1, <3>2, <3>4
    <3> QED  BY <3>3, <3>4
  <2> QED  BY SMT, <1>16, <2>1, <2>2 DEF Spawning
<1>18. InUser'
  <2>1. ASSUME NEW k \in Harts
        PROVE  /\ target'[k] # None <=> mode'[k] = "putback" /\ st'[held'[k]] = "user"
               /\ target'[k] # None => target'[k] = held'[k] /\ ~pending'[target'[k]]
               /\ user'[k] # None <=> mode'[k] \in {"user", "trap"}
               /\ user'[k] # None => /\ user'[k] = current'[k] /\ st'[user'[k]] = "user"
                                     /\ ~pending'[user'[k]]
    <3>1. CASE k = h  BY <1>1, <1>5, <1>8, <3>1
    <3>2. CASE k # h
      <4>1. /\ mode'[k] = mode[k] /\ held'[k] = held[k] /\ current'[k] = current[k]
            /\ target' = target /\ user' = user /\ pending' = pending
        BY <1>1, <1>8, <3>2
      <4>2. held[k] # None => st'[held[k]] = st[held[k]]  BY <1>3, <1>9, <3>2 DEF TypeOK
      <4>3. user[k] # None => st'[user[k]] = st[user[k]]  BY <1>3, <1>9, <3>2 DEF TypeOK
      <4>4. mode[k] = "putback" => held[k] # None  BY DEF Holding
      <4> QED  BY SMT, <4>1, <4>2, <4>3, <4>4 DEF InUser
    <3> QED  BY <3>1, <3>2
  <2>2. ASSUME NEW q \in Procs, pending'[q] PROVE st'[q] = "user"
    <3>1. st[q] = "user"  BY <1>1, <2>2 DEF InUser
    <3> QED  BY <1>2, <1>9, <3>1
  <2> QED  BY <2>1, <2>2 DEF InUser
<1>19. Coming'
  <2>1. ASSUME NEW q \in Procs, st'[q] = "user"
        PROVE  \/ Queued(q)' \/ (\E k \in Harts : held'[k] = q)
               \/ ~pending'[q] /\ \E k \in Harts : user'[k] = q \/ spawn'[k].task = q
    <3>1. q # p  BY <1>9, <2>1
    <3>2. st[q] = "user" /\ taskId'[q] = taskId[q]  BY <1>9, <2>1, <3>1
    <3>3. \/ Queued(q) \/ (\E k \in Harts : held[k] = q)
          \/ ~pending[q] /\ \E k \in Harts : user[k] = q \/ spawn[k].task = q
      BY <3>2 DEF Coming
    <3>4. Queued(q) => Queued(q)'  BY <1>1, <3>2 DEF Queued
    <3>5. \A k \in Harts : held[k] = q => held'[k] = q  BY <1>0, <1>8, <3>1
    <3> QED  BY <1>1, <3>3, <3>4, <3>5
  <2> QED  BY <2>1 DEF Coming
<1> QED  BY <1>10, <1>11, <1>12, <1>13, <1>14, <1>15, <1>17, <1>18, <1>19
   DEF SlotsApart

-----------------------------------------------------------------------------
(* Polls.                                                                  *)

\* The future of the held task moves from one await to another.
LEMMA PollMoves ==
  ASSUME ExecInv, NEW h \in Harts, mode[h] = "poll", NEW m, NEW v, NEW b \in BOOLEAN, NEW t,
         \/ m = "poll" /\ v \in {"user", "sys", "blocked"} /\ t = None
         \/ m = "putback" /\ v = "user" /\ t = held[h] /\ ~b
         \/ m = "putback" /\ v = "blocked" /\ t = None
         \/ m = "recycle" /\ v = "done" /\ t = None,
         b => v = "user",
         mode' = [mode EXCEPT ![h] = m], st' = [st EXCEPT ![held[h]] = v],
         pending' = [pending EXCEPT ![held[h]] = b], target' = [target EXCEPT ![h] = t],
         UNCHANGED <<ready, table, freeSlots, nextSlot, taskId, current, user, slot, held,
                     spawn, kick, ipi>>
  PROVE  ExecInv'
<1> USE DEF ExecInv
<1>0. PICK p : p = held[h]  OBVIOUS
<1>1. p # None /\ st[p] \in {"user", "sys", "blocked"}  BY <1>0 DEF Holding
<1>2. /\ p \in Procs
      /\ \A k \in Harts \ {h} : held[k] # p /\ current[k] # p /\ user[k] # p
      /\ \A g \in Harts, x \in Slots : table[g][x] # p
  BY SMT, <1>0, <1>1, HeldIs
<1>3. user[h] = None  BY DEF InUser
<1>4. v \in {"user", "sys", "blocked", "done"} /\ m \in {"poll", "putback", "recycle"}
  OBVIOUS
<1>5. /\ mode'[h] = m /\ target'[h] = t
      /\ \A k \in Harts \ {h} : mode'[k] = mode[k] /\ target'[k] = target[k]
  BY DEF TypeOK
<1>6. /\ st'[p] = v /\ pending'[p] = b
      /\ \A q \in Procs \ {p} : st'[q] = st[q] /\ pending'[q] = pending[q]
  BY <1>0, <1>2 DEF TypeOK
<1>7. TypeOK'
  <2>1. mode' \in [Harts -> Modes]  BY <1>4 DEF TypeOK, Modes
  <2>2. st' \in [Procs -> {"absent", "user", "sys", "blocked", "done"}]  BY <1>4 DEF TypeOK
  <2>3. pending' \in [Procs -> BOOLEAN]  BY DEF TypeOK
  <2>4. target' \in [Harts -> Procs \cup {None}]
    <3>1. t \in Procs \cup {None}  BY <1>0, <1>2
    <3> QED  BY <3>1 DEF TypeOK
  <2> QED  BY <2>1, <2>2, <2>3, <2>4 DEF TypeOK
<1>8. InSlot' /\ Somewhere'
  <2>1. ASSUME NEW g \in Harts, NEW x \in Slots, table'[g][x] # None
        PROVE  /\ taskId'[table'[g][x]][1] = g /\ taskId'[table'[g][x]][2] = x
               /\ st'[table'[g][x]] \in {"user", "blocked"}
    <3>1. PICK q \in Procs \ {p} : table[g][x] = q /\ table'[g][x] = q
      <4>1. table[g][x] \in Procs \cup {None}  BY SMT DEF TypeOK
      <4> QED  BY <1>2, <2>1, <4>1
    <3>2. taskId[q][1] = g /\ taskId[q][2] = x /\ st[q] \in {"user", "blocked"}
      BY SMT, <2>1, <3>1 DEF InSlot
    <3> QED  BY <1>6, <3>1, <3>2
  <2>2. ASSUME NEW q \in Procs, st'[q] # "absent"
        PROVE  table'[taskId'[q][1]][taskId'[q][2]] = q \/ held'[taskId'[q][1]] = q
    <3>1. st[q] # "absent"  BY <1>1, <1>6, <2>2
    <3> QED  BY <3>1 DEF Somewhere
  <2> QED  BY <2>1, <2>2 DEF InSlot, Somewhere
<1>9. Holding'
  <2>1. ASSUME NEW k \in Harts, k # h
        PROVE  mode'[k] = mode[k] /\ (held[k] # None => st'[held[k]] = st[held[k]])
    <3>1. held[k] \in Procs \cup {None} /\ held[k] # p  BY <1>2, <2>1 DEF TypeOK
    <3> QED  BY <1>5, <1>6, <2>1, <3>1
  <2>2. ASSUME NEW k \in Harts
               PROVE  /\ held'[k] # None <=> mode'[k] \in {"poll", "spawn", "putback", "recycle"}
                      /\ held'[k] # None => /\ taskId'[held'[k]][1] = k
                                            /\ taskId'[held'[k]][2] = slot'[k]
                                            /\ current'[k] = held'[k]
                      /\ mode'[k] = "poll" => st'[held'[k]] \in {"user", "sys", "blocked"}
                      /\ mode'[k] = "spawn" => st'[held'[k]] = "sys"
                      /\ mode'[k] = "putback" => st'[held'[k]] \in {"user", "blocked"}
                      /\ mode'[k] = "recycle" => st'[held'[k]] = "done"
    <3>1. CASE k = h
      <4>1. /\ mode'[k] = m /\ st'[held'[k]] = v /\ held'[k] = p /\ p # None
        BY <1>0, <1>1, <1>5, <1>6, <3>1
      <4>2. taskId'[held'[k]][1] = k /\ taskId'[held'[k]][2] = slot'[k] /\ current'[k] = held'[k]
        BY SMT, <1>0, <1>1, <3>1 DEF Holding
      <4> QED  BY <1>4, <4>1, <4>2
    <3>2. CASE k # h  BY SMT, <2>1, <3>2 DEF Holding
    <3> QED  BY <3>1, <3>2
  <2> QED  BY <2>2 DEF Holding
<1>10. Pointing'
  <2>1. \A q \in Procs : st[q] # "absent" => st'[q] # "absent"  BY <1>4, <1>6
  <2> QED  BY SMT, <2>1 DEF Pointing, TypeOK
<1>11. SlotsApart'
  <2>1. UNCHANGED <<table, freeSlots, nextSlot, held, slot, spawn>> /\ SlotsApart  OBVIOUS
  <2> QED  BY ONLY SMT, <2>1 DEF SlotsApart, SlotApart, HeldAt, Reserved, In
<1>12. FreeOnce'  BY DEF FreeOnce, Once
<1>13. Spawning'
  <2>1. \A k \in Harts : mode'[k] = "spawn" <=> mode[k] = "spawn"  BY <1>4, <1>5
  <2>2. \A q \in Procs : st'[q] = "absent" <=> st[q] = "absent"  BY <1>1, <1>4, <1>6
  <2>3. \A k \in Harts : spawn[k].task \in Procs \cup {None}  BY SMT DEF TypeOK
  <2> QED  BY SMT, <2>1, <2>2, <2>3 DEF Spawning
<1>14. InUser'
  <2>1. ASSUME NEW k \in Harts
        PROVE  /\ target'[k] # None <=> mode'[k] = "putback" /\ st'[held'[k]] = "user"
               /\ target'[k] # None => target'[k] = held'[k] /\ ~pending'[target'[k]]
               /\ user'[k] # None <=> mode'[k] \in {"user", "trap"}
               /\ user'[k] # None => /\ user'[k] = current'[k] /\ st'[user'[k]] = "user"
                                     /\ ~pending'[user'[k]]
    <3>1. CASE k = h
      <4>1. /\ mode'[k] = m /\ st'[held'[k]] = v /\ held'[k] = p /\ p # None
            /\ target'[k] = t /\ pending'[p] = b /\ user'[k] = None
        BY <1>0, <1>1, <1>3, <1>5, <1>6, <3>1
      <4> QED  BY <1>0, <4>1
    <3>2. CASE k # h
      <4>1. mode'[k] = mode[k] /\ target'[k] = target[k]  BY <1>5, <3>2
      <4>2. held[k] # None => st'[held[k]] = st[held[k]] /\ pending'[held[k]] = pending[held[k]]
        BY <1>2, <1>6, <3>2 DEF TypeOK
      <4>3. user[k] # None => st'[user[k]] = st[user[k]] /\ pending'[user[k]] = pending[user[k]]
        BY <1>2, <1>6, <3>2 DEF TypeOK
      <4>4. mode[k] = "putback" => held[k] # None  BY DEF Holding
      <4> QED  BY SMT, <4>1, <4>2, <4>3, <4>4 DEF InUser
    <3> QED  BY <3>1, <3>2
  <2>2. ASSUME NEW q \in Procs, pending'[q] PROVE st'[q] = "user"
    BY <1>6, <2>2 DEF InUser
  <2> QED  BY <2>1, <2>2 DEF InUser
<1>15. Coming'
  <2>1. ASSUME NEW q \in Procs, st'[q] = "user"
        PROVE  \/ Queued(q)' \/ (\E k \in Harts : held'[k] = q)
               \/ ~pending'[q] /\ \E k \in Harts : user'[k] = q \/ spawn'[k].task = q
    <3>1. CASE q = p  BY <1>0, <3>1
    <3>2. CASE q # p
      <4>1. st[q] = "user" /\ pending'[q] = pending[q]  BY <1>6, <2>1, <3>2
      <4>2. Queued(q) => Queued(q)'  BY DEF Queued
      <4> QED  BY <4>1, <4>2 DEF Coming
    <3> QED  BY <3>1, <3>2
  <2> QED  BY <2>1 DEF Coming
<1> QED  BY <1>7, <1>8, <1>9, <1>10, <1>11, <1>12, <1>13, <1>14, <1>15

LEMMA PollInv ==
  ASSUME ExecInv, NEW h \in Harts,
         \/ PollTrap(h) \/ PollUser(h) \/ PollLoop(h) \/ PollBlock(h) \/ PollResume(h)
         \/ PollExit(h)
  PROVE  ExecInv'
<1> USE DEF ExecInv
<1>1. mode[h] = "poll"
  BY DEF PollTrap, PollUser, PollLoop, PollBlock, PollResume, PollExit, Polling
<1>2. held[h] # None /\ held[h] \in Procs /\ target[h] = None
  BY SMT, <1>1, ExecutorAssumption DEF Holding, InUser, TypeOK
<1>3. /\ mode = [mode EXCEPT ![h] = "poll"] /\ target = [target EXCEPT ![h] = None]
  BY <1>1, <1>2 DEF TypeOK
<1>4. ASSUME st[held[h]] # "user"
      PROVE  pending = [pending EXCEPT ![held[h]] = FALSE]
  <2>1. pending[held[h]] = FALSE  BY SMT, <1>2, <1>4 DEF InUser, TypeOK
  <2> QED  BY <1>2, <2>1 DEF TypeOK
<1>5. CASE PollTrap(h)
  <2>1. /\ pending' = [pending EXCEPT ![held[h]] = FALSE] /\ st' = [st EXCEPT ![held[h]] = "sys"]
        /\ UNCHANGED <<ready, table, freeSlots, nextSlot, taskId, current, target, user, slot,
                       held, mode, spawn, kick, ipi>>
    BY <1>5 DEF PollTrap, SetSt, tables, cpus
  <2>2. mode' = [mode EXCEPT ![h] = "poll"] /\ target' = [target EXCEPT ![h] = None]
    BY <1>3, <2>1
  <2> QED  BY <1>1, <2>1, <2>2, PollMoves
<1>6. CASE PollUser(h)
  <2>1. /\ st[held[h]] = "user" /\ ~pending[held[h]]
        /\ target' = [target EXCEPT ![h] = held[h]] /\ mode' = [mode EXCEPT ![h] = "putback"]
        /\ UNCHANGED <<ready, table, freeSlots, nextSlot, taskId, pending, current, user, slot,
                       held, spawn, kick, ipi, st>>
    BY <1>6 DEF PollUser, Polling, Goto, tables
  <2>2. /\ st' = [st EXCEPT ![held[h]] = "user"]
        /\ pending' = [pending EXCEPT ![held[h]] = FALSE]
    <3>1. pending[held[h]] = FALSE  BY <1>2, <2>1 DEF TypeOK
    <3> QED  BY <1>2, <2>1, <3>1 DEF TypeOK
  <2> QED  BY <1>1, <2>1, <2>2, PollMoves
<1>7. CASE PollLoop(h) \/ PollResume(h)
  <2>1. PICK v \in {"user", "sys"} :
        /\ st[held[h]] # "user" /\ st' = [st EXCEPT ![held[h]] = v]
        /\ UNCHANGED <<ready, table, freeSlots, nextSlot, taskId, pending, current, target, user,
                       slot, held, mode, spawn, kick, ipi>>
    BY <1>7 DEF PollLoop, PollResume, Polling, SetSt, tables, cpus
  <2>2. /\ mode' = [mode EXCEPT ![h] = "poll"] /\ target' = [target EXCEPT ![h] = None]
        /\ pending' = [pending EXCEPT ![held[h]] = FALSE]
    BY <1>3, <1>4, <2>1
  <2> QED  BY <1>1, <2>1, <2>2, PollMoves
<1>8. CASE PollBlock(h)
  <2>1. /\ st[held[h]] # "user" /\ st' = [st EXCEPT ![held[h]] = "blocked"]
        /\ mode' = [mode EXCEPT ![h] = "putback"]
        /\ UNCHANGED <<ready, table, freeSlots, nextSlot, taskId, pending, current, target, user,
                       slot, held, spawn, kick, ipi>>
    BY <1>8 DEF PollBlock, Polling, SetSt, Goto, tables, cpus
  <2>2. /\ target' = [target EXCEPT ![h] = None]
        /\ pending' = [pending EXCEPT ![held[h]] = FALSE]
    BY <1>3, <1>4, <2>1
  <2> QED  BY <1>1, <2>1, <2>2, PollMoves
<1>9. CASE PollExit(h)
  <2>1. /\ st[held[h]] # "user" /\ st' = [st EXCEPT ![held[h]] = "done"]
        /\ mode' = [mode EXCEPT ![h] = "recycle"]
        /\ UNCHANGED <<ready, table, freeSlots, nextSlot, taskId, pending, current, target, user,
                       slot, held, spawn, kick, ipi>>
    BY <1>9 DEF PollExit, Polling, SetSt, Goto, tables, cpus
  <2>2. /\ target' = [target EXCEPT ![h] = None]
        /\ pending' = [pending EXCEPT ![held[h]] = FALSE]
    BY <1>3, <1>4, <2>1
  <2> QED  BY <1>1, <2>1, <2>2, PollMoves
<1> QED  BY <1>5, <1>6, <1>7, <1>8, <1>9

-----------------------------------------------------------------------------
(* insert_task.                                                            *)

\* The slot it takes: free no longer, and nobody's.
LEMMA SlotTaken ==
  ASSUME ExecInv, NEW h \in Harts, NEW p \in Procs, NEW g \in Harts, SpawnSlot(h, p, g)
  PROVE  \E x \in Slots :
           /\ spawn' = [spawn EXCEPT ![h] = [step |-> "publish", task |-> p, home |-> g,
                                            slot |-> x]]
           /\ freeSlots' \in [Harts -> Seq(Slots)] /\ FreeOnce'
           /\ nextSlot' \in [Harts -> 0..MaxSlot]
           /\ table[g][x] = None /\ ~HeldAt(g, x) /\ \A k \in Harts : ~Reserved(k, g, x)
           /\ x < nextSlot'[g] /\ ~In(freeSlots'[g], x)
           /\ \A k \in Harts : \A y : In(freeSlots'[k], y) => In(freeSlots[k], y)
           /\ \A k \in Harts, y \in Slots : y < nextSlot[k] => y < nextSlot'[k]
<1> USE DEF ExecInv
<1>1. freeSlots[g] \in Seq(Slots) /\ Once(freeSlots[g])  BY DEF TypeOK, FreeOnce
<1>2. CASE freeSlots[g] # <<>>
  <2> DEFINE x == Top(freeSlots[g])
  <2>1. /\ spawn' = [spawn EXCEPT ![h] = [step |-> "publish", task |-> p, home |-> g, slot |-> x]]
        /\ freeSlots' = [freeSlots EXCEPT ![g] = Popped(freeSlots[g])] /\ nextSlot' = nextSlot
    BY <1>2 DEF SpawnSlot
  <2>2. /\ x \in Slots /\ In(freeSlots[g], x)
        /\ Popped(freeSlots[g]) \in Seq(Slots) /\ Once(Popped(freeSlots[g]))
        /\ ~In(Popped(freeSlots[g]), x)
        /\ \A y : In(Popped(freeSlots[g]), y) => In(freeSlots[g], y)
    BY <1>1, <1>2, FreeTake
  <2> HIDE DEF x
  <2>3. SlotApart(g, x)  BY <2>2 DEF SlotsApart
  <2>4. table[g][x] = None /\ ~HeldAt(g, x) /\ x < nextSlot[g]  BY <2>2, <2>3 DEF SlotApart
  <2>5. \A k \in Harts : ~Reserved(k, g, x)  BY <2>2, <2>3 DEF SlotApart
  <2>6. /\ freeSlots'[g] = Popped(freeSlots[g])
        /\ \A k \in Harts \ {g} : freeSlots'[k] = freeSlots[k]
    BY <2>1 DEF TypeOK
  <2>7. FreeOnce'  BY <2>2, <2>6 DEF FreeOnce
  <2>8. \A k \in Harts : \A y : In(freeSlots'[k], y) => In(freeSlots[k], y)  BY <2>2, <2>6
  <2>9. freeSlots' \in [Harts -> Seq(Slots)]  BY <2>1, <2>2 DEF TypeOK
  <2>10. ~In(freeSlots'[g], x)  BY <2>2, <2>6
  <2>11. nextSlot' \in [Harts -> 0..MaxSlot]  BY <2>1 DEF TypeOK
  <2> QED  BY <2>1, <2>2, <2>4, <2>5, <2>7, <2>8, <2>9, <2>10, <2>11
<1>3. CASE freeSlots[g] = <<>>
  <2> DEFINE x == nextSlot[g]
  <2>1. /\ spawn' = [spawn EXCEPT ![h] = [step |-> "publish", task |-> p, home |-> g, slot |-> x]]
        /\ nextSlot' = [nextSlot EXCEPT ![g] = nextSlot[g] + 1] /\ freeSlots' = freeSlots
        /\ x < MaxSlot
    BY <1>3 DEF SpawnSlot
  <2>2. nextSlot \in [Harts -> 0..MaxSlot] /\ x \in 0..MaxSlot  BY DEF TypeOK
  <2> HIDE DEF x
  <2>3. x \in Slots /\ x + 1 \in 0..MaxSlot /\ x < x + 1 /\ ~(x < x)
    BY ONLY SMT, <2>1, <2>2, ExecutorAssumption DEF Slots
  <2>4. \A y \in Slots : y < x => y < x + 1  BY ONLY SMT, <2>2 DEF Slots
  <2>5. nextSlot'[g] = x + 1 /\ \A k \in Harts \ {g} : nextSlot'[k] = nextSlot[k]
    BY <2>1, <2>2 DEF x
  <2>6. nextSlot' \in [Harts -> 0..MaxSlot]  BY <2>1, <2>2, <2>3 DEF x
  <2>7. SlotApart(g, x)  BY <2>3 DEF SlotsApart
  <2>8. ~(x < nextSlot[g])  BY <2>3 DEF x
  <2>9. /\ table[g][x] = None /\ ~HeldAt(g, x) /\ ~In(freeSlots[g], x)
        /\ \A k \in Harts : ~Reserved(k, g, x)
    BY <2>7, <2>8 DEF SlotApart
  <2>10. \A k \in Harts, y \in Slots : y < nextSlot[k] => y < nextSlot'[k]
    BY <2>4, <2>5 DEF x
  <2>11. freeSlots' \in [Harts -> Seq(Slots)] /\ FreeOnce'  BY <2>1 DEF TypeOK, FreeOnce, Once
  <2>12. x < nextSlot'[g]  BY <2>3, <2>5
  <2> QED  BY <2>1, <2>3, <2>6, <2>9, <2>10, <2>11, <2>12
<1> QED  BY <1>2, <1>3

LEMMA SpawnSlotInv ==
  ASSUME ExecInv, NEW h \in Harts, NEW p \in Procs, NEW g \in Harts, SpawnSlot(h, p, g)
  PROVE  ExecInv'
<1> USE DEF ExecInv
<1>1. /\ mode[h] = "poll" /\ st[held[h]] = "sys" /\ st[p] = "absent"
      /\ \A k \in Harts : spawn[k].task # p
      /\ mode' = [mode EXCEPT ![h] = "spawn"]
      /\ UNCHANGED <<ready, table, taskId, pending, current, target, user, slot, held, kick, ipi,
                     st>>
  BY DEF SpawnSlot, Polling, Goto, cpus
<1>2. PICK x \in Slots :
        /\ spawn' = [spawn EXCEPT ![h] = [step |-> "publish", task |-> p, home |-> g, slot |-> x]]
        /\ freeSlots' \in [Harts -> Seq(Slots)] /\ FreeOnce'
        /\ nextSlot' \in [Harts -> 0..MaxSlot]
        /\ table[g][x] = None /\ ~HeldAt(g, x) /\ \A k \in Harts : ~Reserved(k, g, x)
        /\ x < nextSlot'[g] /\ ~In(freeSlots'[g], x)
        /\ \A k \in Harts : \A y : In(freeSlots'[k], y) => In(freeSlots[k], y)
        /\ \A k \in Harts, y \in Slots : y < nextSlot[k] => y < nextSlot'[k]
  BY SlotTaken
<1>3. /\ mode'[h] = "spawn" /\ \A k \in Harts \ {h} : mode'[k] = mode[k]
  BY <1>1 DEF TypeOK
<1>4. /\ spawn'[h] = [step |-> "publish", task |-> p, home |-> g, slot |-> x]
      /\ \A k \in Harts \ {h} : spawn'[k] = spawn[k]
  BY <1>2 DEF TypeOK
<1>5. /\ spawn'[h].step = "publish" /\ spawn'[h].task = p
      /\ spawn'[h].home = g /\ spawn'[h].slot = x
  BY SMT, <1>4
<1>6. /\ spawn[h].step = "none" /\ spawn[h].task = None  BY <1>1 DEF Spawning
<1>7. TypeOK'
  <2>1. mode' \in [Harts -> Modes]  BY <1>1 DEF TypeOK, Modes
  <2>2. [step |-> "publish", task |-> p, home |-> g, slot |-> x]
          \in [step : {"none", "publish", "insert", "enqueue"},
               task : Procs \cup {None}, home : Harts, slot : Slots]
    BY <1>2
  <2>3. spawn' \in [Harts -> [step : {"none", "publish", "insert", "enqueue"},
                              task : Procs \cup {None}, home : Harts, slot : Slots]]
    BY <1>2, <2>2 DEF TypeOK
  <2> QED  BY <1>1, <1>2, <2>1, <2>3 DEF TypeOK
<1>8. InSlot' /\ Somewhere'
  <2>1. UNCHANGED <<table, taskId, held, st>> /\ InSlot /\ Somewhere  BY <1>1
  <2> QED  BY ONLY SMT, <2>1 DEF InSlot, Somewhere
<1>9. Holding'
  <2>1. UNCHANGED <<taskId, slot, current, held, st>>  BY <1>1
  <2>2. held[h] # None  BY <1>1 DEF Holding
  <2> QED  BY SMT, <1>1, <1>3, <2>1, <2>2 DEF Holding
<1>10. Pointing'  BY <1>1 DEF Pointing
<1>11. ASSUME NEW k \in Harts, NEW y \in Slots PROVE SlotApart(k, y)'
  <2>1. SlotApart(k, y)  BY DEF SlotsApart
  <2>2. table' = table /\ (HeldAt(k, y)' <=> HeldAt(k, y))  BY <1>1 DEF HeldAt
  <2>3. In(freeSlots[k], y)' => In(freeSlots[k], y)  BY <1>2
  <2>4. y < nextSlot[k] => y < nextSlot'[k]  BY <1>2
  <2>5. \A j \in Harts \ {h} : Reserved(j, k, y)' <=> Reserved(j, k, y)  BY <1>4 DEF Reserved
  <2>6. Reserved(h, k, y)' <=> k = g /\ y = x  BY <1>5 DEF Reserved
  <2>7. CASE k = g /\ y = x
    <3>1. /\ table'[k][y] = None /\ ~HeldAt(k, y)' /\ ~In(freeSlots[k], y)' /\ y < nextSlot'[k]
          /\ \A j \in Harts : Reserved(j, k, y)' <=> j = h
      BY <1>2, <2>2, <2>5, <2>6, <2>7
    <3> QED  BY <3>1 DEF SlotApart
  <2>8. CASE ~(k = g /\ y = x)
    <3>1. \A j \in Harts : Reserved(j, k, y)' => Reserved(j, k, y)  BY <2>5, <2>6, <2>8
    <3> QED  BY <2>1, <2>2, <2>3, <2>4, <3>1 DEF SlotApart
  <2> QED  BY <2>7, <2>8
<1>12. Spawning'
  <2>1. st' = st /\ taskId' = taskId  BY <1>1
  <2>2. p # None /\ Spawning  BY ExecutorAssumption
  <2> QED  BY ONLY SMT, <1>1, <1>3, <1>4, <1>5, <2>1, <2>2 DEF Spawning
<1>13. InUser'
  <2>1. UNCHANGED <<pending, current, target, user, held, st>> /\ InUser  BY <1>1
  <2> QED  BY ONLY SMT, <1>1, <1>3, <2>1 DEF InUser
<1>14. Coming'
  <2>1. \A k \in Harts, q \in Procs : spawn[k].task = q => spawn'[k].task = q
    BY <1>4, <1>6, ExecutorAssumption
  <2>2. \A q \in Procs : Queued(q)' <=> Queued(q)  BY <1>1 DEF Queued
  <2>3. UNCHANGED <<st, held, pending, user>> /\ Coming  BY <1>1
  <2> QED  BY ONLY SMT, <2>1, <2>2, <2>3 DEF Coming
<1> QED  BY <1>2, <1>7, <1>8, <1>9, <1>10, <1>11, <1>12, <1>13, <1>14 DEF SlotsApart

\* The task that is being spawned is in nobody's hands yet.
LEMMA UnbornIs ==
  ASSUME ExecInv, NEW p \in Procs, st[p] = "absent"
  PROVE  /\ \A k \in Harts : held[k] # p /\ current[k] # p /\ user[k] # p /\ target[k] # p
         /\ \A g \in Harts, x \in Slots : table[g][x] # p
         /\ ~pending[p]
<1> USE DEF ExecInv
<1>1. p # None  BY ExecutorAssumption
<1>2. ASSUME NEW k \in Harts PROVE held[k] # p /\ current[k] # p /\ user[k] # p /\ target[k] # p
  <2>1. held[k] # p  BY <1>1, HeldIs
  <2>2. current[k] # p  BY <1>1 DEF Pointing
  <2>3. user[k] # p  BY <1>1 DEF InUser
  <2>4. target[k] # p  BY <1>1, <2>1 DEF InUser
  <2> QED  BY <2>1, <2>2, <2>3, <2>4
<1>3. ASSUME NEW g \in Harts, NEW x \in Slots PROVE table[g][x] # p
  BY SMT, <1>1 DEF InSlot
<1>4. ~pending[p]  BY DEF InUser
<1> QED  BY <1>2, <1>3, <1>4

LEMMA SpawnTyped ==
  ASSUME TypeOK, NEW h \in Harts, NEW v \in {"insert", "enqueue"},
         spawn' = [spawn EXCEPT ![h] = [spawn[h] EXCEPT !.step = v]]
  PROVE  spawn' \in [Harts -> [step : {"none", "publish", "insert", "enqueue"},
                               task : Procs \cup {None}, home : Harts, slot : Slots]]
<1>1. spawn \in [Harts -> [step : {"none", "publish", "insert", "enqueue"},
                           task : Procs \cup {None}, home : Harts, slot : Slots]]
  BY DEF TypeOK
<1>2. spawn[h] \in [step : {"none", "publish", "insert", "enqueue"},
                    task : Procs \cup {None}, home : Harts, slot : Slots]
  BY <1>1
<1>3. [spawn[h] EXCEPT !.step = v] \in [step : {"none", "publish", "insert", "enqueue"},
                                        task : Procs \cup {None}, home : Harts, slot : Slots]
  BY ONLY SMT, <1>2, v \in {"insert", "enqueue"}
<1> QED  BY <1>1, <1>3

LEMMA SpawnPublishInv ==
  ASSUME ExecInv, NEW h \in Harts, SpawnPublish(h)
  PROVE  ExecInv'
<1> USE DEF ExecInv
<1>0. PICK p, g, x : p = spawn[h].task /\ g = spawn[h].home /\ x = spawn[h].slot  OBVIOUS
<1>1. /\ mode[h] = "spawn" /\ spawn[h].step = "publish"
      /\ taskId' = [taskId EXCEPT ![p] = <<g, x>>]
      /\ spawn' = [spawn EXCEPT ![h] = [spawn[h] EXCEPT !.step = "insert"]]
      /\ UNCHANGED <<ready, table, freeSlots, nextSlot, pending, current, target, user, slot, held,
                     mode, kick, ipi, st>>
  BY <1>0 DEF SpawnPublish, tables, cpus
<1>2. p # None /\ st[p] = "absent"  BY SMT, <1>0, <1>1 DEF Spawning
<1>3. p \in Procs /\ g \in Harts /\ x \in Slots  BY <1>0, <1>2 DEF TypeOK
<1>4. /\ \A k \in Harts : held[k] # p /\ current[k] # p
      /\ \A k \in Harts, y \in Slots : table[k][y] # p
  BY <1>2, <1>3, UnbornIs
<1>5. /\ taskId'[p][1] = g /\ taskId'[p][2] = x
      /\ \A q \in Procs \ {p} : taskId'[q] = taskId[q]
  <2>1. taskId'[p] = <<g, x>> /\ \A q \in Procs \ {p} : taskId'[q] = taskId[q]
    BY <1>1, <1>3 DEF TypeOK
  <2> QED  BY SMT, <2>1
<1>6. /\ spawn'[h].step = "insert" /\ spawn'[h].task = p
      /\ spawn'[h].home = g /\ spawn'[h].slot = x
      /\ \A k \in Harts \ {h} : spawn'[k] = spawn[k]
  BY SMT, <1>0, <1>1 DEF TypeOK
<1>7. TypeOK'
  <2>1. <<g, x>> \in Tids  BY <1>3 DEF Tids
  <2>2. taskId' \in [Procs -> Tids]  BY <1>1, <2>1 DEF TypeOK
  <2>3. spawn' \in [Harts -> [step : {"none", "publish", "insert", "enqueue"},
                              task : Procs \cup {None}, home : Harts, slot : Slots]]
    BY <1>1, SpawnTyped
  <2> QED  BY <1>1, <2>2, <2>3 DEF TypeOK
<1>8. InSlot' /\ Somewhere'
  <2>1. ASSUME NEW k \in Harts, NEW y \in Slots, table'[k][y] # None
        PROVE  /\ taskId'[table'[k][y]][1] = k /\ taskId'[table'[k][y]][2] = y
               /\ st'[table'[k][y]] \in {"user", "blocked"}
    <3>1. PICK q \in Procs \ {p} : table[k][y] = q /\ table'[k][y] = q
      <4>1. table[k][y] \in Procs \cup {None}  BY SMT DEF TypeOK
      <4> QED  BY <1>1, <1>4, <2>1, <4>1
    <3>2. taskId[q][1] = k /\ taskId[q][2] = y /\ st[q] \in {"user", "blocked"}
      BY SMT, <1>1, <2>1, <3>1 DEF InSlot
    <3> QED  BY <1>1, <1>5, <3>1, <3>2
  <2>2. ASSUME NEW q \in Procs, st'[q] # "absent"
        PROVE  table'[taskId'[q][1]][taskId'[q][2]] = q \/ held'[taskId'[q][1]] = q
    <3>1. st[q] # "absent" /\ taskId'[q] = taskId[q]  BY <1>1, <1>2, <1>5, <2>2
    <3> QED  BY <1>1, <3>1 DEF Somewhere
  <2> QED  BY <2>1, <2>2 DEF InSlot, Somewhere
<1>9. Holding'
  <2>1. \A k \in Harts : held[k] # None => taskId'[held[k]] = taskId[held[k]]
    BY <1>4, <1>5 DEF TypeOK
  <2>2. UNCHANGED <<slot, current, held, st, mode>>  BY <1>1
  <2> QED  BY SMT, <2>1, <2>2 DEF Holding
<1>10. Pointing'
  <2>1. \A k \in Harts : current[k] # None => taskId'[current[k]] = taskId[current[k]]
    BY <1>4, <1>5 DEF TypeOK
  <2> QED  BY SMT, <1>1, <2>1 DEF Pointing
<1>11. ASSUME NEW k \in Harts, NEW y \in Slots PROVE SlotApart(k, y)'
  <2>1. SlotApart(k, y)  BY DEF SlotsApart
  <2>2. table' = table /\ nextSlot' = nextSlot /\ (HeldAt(k, y)' <=> HeldAt(k, y))
    BY <1>1 DEF HeldAt
  <2>3. In(freeSlots[k], y)' <=> In(freeSlots[k], y)  BY <1>1
  <2>4. \A j \in Harts : Reserved(j, k, y)' <=> Reserved(j, k, y)
    BY <1>0, <1>1, <1>6 DEF Reserved
  <2> QED  BY <2>1, <2>2, <2>3, <2>4 DEF SlotApart
<1>12. FreeOnce'  BY <1>1 DEF FreeOnce, Once
<1>13. Spawning'
  <2>1. \A k \in Harts \ {h} : spawn[k].task # p  BY SMT, <1>0, <1>2 DEF Spawning
  <2>2. \A k \in Harts \ {h} : spawn[k].task # None => taskId'[spawn[k].task] = taskId[spawn[k].task]
    <3>1. \A k \in Harts : spawn[k].task \in Procs \cup {None}  BY SMT DEF TypeOK
    <3> QED  BY <1>5, <2>1, <3>1
  <2>3. st' = st /\ mode' = mode  BY <1>1
  <2>4. ASSUME NEW k \in Harts
        PROVE  /\ spawn'[k].step # "none" <=> mode'[k] = "spawn"
               /\ spawn'[k].step # "none" <=> spawn'[k].task # None
               /\ spawn'[k].step \in {"publish", "insert"} => st'[spawn'[k].task] = "absent"
               /\ spawn'[k].step = "insert"
                    \/ (spawn'[k].step = "enqueue" /\ st'[spawn'[k].task] # "absent") =>
                    /\ taskId'[spawn'[k].task][1] = spawn'[k].home
                    /\ taskId'[spawn'[k].task][2] = spawn'[k].slot
               /\ \A j \in Harts : spawn'[j].task = spawn'[k].task /\ spawn'[k].task # None => j = k
    <3>1. CASE k = h  BY SMT, <1>1, <1>2, <1>5, <1>6, <2>1, <2>3, <3>1
    <3>2. CASE k # h
      <4>1. spawn'[k] = spawn[k]  BY <1>6, <3>2
      <4>2. \A j \in Harts : spawn'[j].task = spawn[j].task  BY <1>0, <1>6
      <4> QED  BY SMT, <2>2, <2>3, <3>2, <4>1, <4>2 DEF Spawning
    <3> QED  BY <3>1, <3>2
  <2> QED  BY <2>4 DEF Spawning
<1>14. InUser'
  <2>1. UNCHANGED <<pending, current, target, user, held, st, mode>>  BY <1>1
  <2> QED  BY SMT, <2>1 DEF InUser
<1>15. Coming'
  <2>1. \A k \in Harts : spawn'[k].task = spawn[k].task  BY <1>0, <1>6
  <2>2. ASSUME NEW q \in Procs, st'[q] = "user"
        PROVE  \/ Queued(q)' \/ (\E k \in Harts : held'[k] = q)
               \/ ~pending'[q] /\ \E k \in Harts : user'[k] = q \/ spawn'[k].task = q
    <3>1. st[q] = "user" /\ taskId'[q] = taskId[q]  BY <1>1, <1>2, <1>5, <2>2
    <3>2. Queued(q)' <=> Queued(q)  BY <1>1, <3>1 DEF Queued
    <3> QED  BY <1>1, <2>1, <3>1, <3>2 DEF Coming
  <2> QED  BY <2>2 DEF Coming
<1> QED  BY <1>7, <1>8, <1>9, <1>10, <1>11, <1>12, <1>13, <1>14, <1>15 DEF SlotsApart

LEMMA SpawnInsertInv ==
  ASSUME ExecInv, NEW h \in Harts, SpawnInsert(h)
  PROVE  ExecInv'
<1> USE DEF ExecInv
<1>0. PICK p, g, x : p = spawn[h].task /\ g = spawn[h].home /\ x = spawn[h].slot  OBVIOUS
<1>1. /\ mode[h] = "spawn" /\ spawn[h].step = "insert"
      /\ table' = [table EXCEPT ![g] = [table[g] EXCEPT ![x] = p]]
      /\ st' = [st EXCEPT ![p] = "user"]
      /\ spawn' = [spawn EXCEPT ![h] = [spawn[h] EXCEPT !.step = "enqueue"]]
      /\ UNCHANGED <<ready, freeSlots, nextSlot, taskId, pending, current, target, user, slot, held,
                     mode, kick, ipi>>
  BY <1>0 DEF SpawnInsert, SetSt, cpus
<1>2. p # None /\ st[p] = "absent" /\ taskId[p][1] = g /\ taskId[p][2] = x
  BY SMT, <1>0, <1>1 DEF Spawning
<1>3. p \in Procs /\ g \in Harts /\ x \in Slots  BY <1>0, <1>2 DEF TypeOK
<1>4. /\ \A k \in Harts : held[k] # p /\ current[k] # p /\ user[k] # p /\ target[k] # p
      /\ \A k \in Harts, y \in Slots : table[k][y] # p
      /\ ~pending[p]
  BY <1>2, <1>3, UnbornIs
<1>5. /\ st'[p] = "user" /\ \A q \in Procs \ {p} : st'[q] = st[q]
  BY <1>1, <1>3 DEF TypeOK
<1>6. /\ spawn'[h].step = "enqueue" /\ spawn'[h].task = p
      /\ spawn'[h].home = g /\ spawn'[h].slot = x
      /\ \A k \in Harts \ {h} : spawn'[k] = spawn[k]
  BY SMT, <1>0, <1>1 DEF TypeOK
<1>7. /\ table'[g][x] = p
      /\ \A k \in Harts, y \in Slots : (k # g \/ y # x) => table'[k][y] = table[k][y]
  <2>1. table[g] \in [Slots -> Procs \cup {None}]  BY <1>3 DEF TypeOK
  <2> QED  BY <1>1, <1>3, <2>1 DEF TypeOK
<1>8. TypeOK'
  <2>1. table' \in [Harts -> [Slots -> Procs \cup {None}]]
    <3>1. [table[g] EXCEPT ![x] = p] \in [Slots -> Procs \cup {None}]  BY <1>3 DEF TypeOK
    <3> QED  BY <1>1, <3>1 DEF TypeOK
  <2>2. st' \in [Procs -> {"absent", "user", "sys", "blocked", "done"}]  BY <1>1 DEF TypeOK
  <2>3. spawn' \in [Harts -> [step : {"none", "publish", "insert", "enqueue"},
                              task : Procs \cup {None}, home : Harts, slot : Slots]]
    BY <1>1, SpawnTyped
  <2> QED  BY <1>1, <2>1, <2>2, <2>3 DEF TypeOK
<1>9. Reserved(h, g, x)  BY <1>0, <1>1 DEF Reserved
<1>10. /\ table[g][x] = None /\ ~HeldAt(g, x) /\ ~In(freeSlots[g], x) /\ x < nextSlot[g]
       /\ \A k \in Harts : Reserved(k, g, x) => k = h
  <2>1. SlotApart(g, x)  BY <1>3 DEF SlotsApart
  <2> QED  BY <1>9, <2>1 DEF SlotApart
<1>11. InSlot' /\ Somewhere'
  <2>1. ASSUME NEW k \in Harts, NEW y \in Slots, table'[k][y] # None
        PROVE  /\ taskId'[table'[k][y]][1] = k /\ taskId'[table'[k][y]][2] = y
               /\ st'[table'[k][y]] \in {"user", "blocked"}
    <3>1. CASE k = g /\ y = x  BY <1>1, <1>2, <1>5, <1>7, <3>1
    <3>2. CASE ~(k = g /\ y = x)
      <4>1. PICK q \in Procs \ {p} : table[k][y] = q /\ table'[k][y] = q
        <5>1. table[k][y] \in Procs \cup {None}  BY SMT DEF TypeOK
        <5> QED  BY <1>4, <1>7, <2>1, <3>2, <5>1
      <4>2. taskId[q][1] = k /\ taskId[q][2] = y /\ st[q] \in {"user", "blocked"}
        BY SMT, <2>1, <4>1 DEF InSlot
      <4> QED  BY <1>1, <1>5, <4>1, <4>2
    <3> QED  BY <3>1, <3>2
  <2>2. ASSUME NEW q \in Procs, st'[q] # "absent"
        PROVE  table'[taskId'[q][1]][taskId'[q][2]] = q \/ held'[taskId'[q][1]] = q
    <3>1. CASE q = p  BY <1>1, <1>2, <1>7, <3>1
    <3>2. CASE q # p
      <4>1. PICK k \in Harts, y \in Slots : k = taskId[q][1] /\ y = taskId[q][2]  BY IdIs
      <4>2. st[q] # "absent"  BY <1>5, <2>2, <3>2
      <4>3. table[k][y] = q \/ held[k] = q  BY <4>1, <4>2 DEF Somewhere
      <4>4. table[k][y] = q => table'[k][y] = q
        <5>1. table[k][y] = q => k # g \/ y # x  BY <1>10, ExecutorAssumption
        <5> QED  BY <1>7, <5>1
      <4> QED  BY <1>1, <4>1, <4>3, <4>4
    <3> QED  BY <3>1, <3>2
  <2> QED  BY <2>1, <2>2 DEF InSlot, Somewhere
<1>12. Holding'
  <2>1. \A k \in Harts : held[k] # None => st'[held[k]] = st[held[k]]
    BY <1>4, <1>5 DEF TypeOK
  <2>2. UNCHANGED <<slot, current, held, taskId, mode>>  BY <1>1
  <2> QED  BY SMT, <2>1, <2>2 DEF Holding
<1>13. Pointing'
  <2>1. \A k \in Harts : current[k] # None => st'[current[k]] = st[current[k]]
    BY <1>4, <1>5 DEF TypeOK
  <2> QED  BY <1>1, <2>1 DEF Pointing
<1>14. ASSUME NEW k \in Harts, NEW y \in Slots PROVE SlotApart(k, y)'
  <2>1. SlotApart(k, y)  BY DEF SlotsApart
  <2>2. nextSlot' = nextSlot /\ (HeldAt(k, y)' <=> HeldAt(k, y))  BY <1>1 DEF HeldAt
  <2>3. In(freeSlots[k], y)' <=> In(freeSlots[k], y)  BY <1>1
  <2>4. \A j \in Harts \ {h} : Reserved(j, k, y)' <=> Reserved(j, k, y)  BY <1>6 DEF Reserved
  <2>5. ~Reserved(h, k, y)'  BY <1>6 DEF Reserved
  <2>6. CASE k = g /\ y = x
    <3>1. \A j \in Harts : ~Reserved(j, k, y)'  BY <1>10, <2>4, <2>5, <2>6
    <3> QED  BY <1>10, <2>2, <2>3, <2>6, <3>1 DEF SlotApart
  <2>7. CASE ~(k = g /\ y = x)
    <3>1. table'[k][y] = table[k][y]  BY <1>7, <2>7
    <3> QED  BY <2>1, <2>2, <2>3, <2>4, <2>5, <3>1 DEF SlotApart
  <2> QED  BY <2>6, <2>7
<1>15. FreeOnce'  BY <1>1 DEF FreeOnce, Once
<1>16. Spawning'
  <2>1. \A k \in Harts \ {h} : spawn[k].task # p  BY SMT, <1>0, <1>2 DEF Spawning
  <2>2. \A k \in Harts \ {h} : spawn[k].task # None => st'[spawn[k].task] = st[spawn[k].task]
    <3>1. \A k \in Harts : spawn[k].task \in Procs \cup {None}  BY SMT DEF TypeOK
    <3> QED  BY <1>5, <2>1, <3>1
  <2>3. taskId' = taskId /\ mode' = mode  BY <1>1
  <2>4. ASSUME NEW k \in Harts
        PROVE  /\ spawn'[k].step # "none" <=> mode'[k] = "spawn"
               /\ spawn'[k].step # "none" <=> spawn'[k].task # None
               /\ spawn'[k].step \in {"publish", "insert"} => st'[spawn'[k].task] = "absent"
               /\ spawn'[k].step = "insert"
                    \/ (spawn'[k].step = "enqueue" /\ st'[spawn'[k].task] # "absent") =>
                    /\ taskId'[spawn'[k].task][1] = spawn'[k].home
                    /\ taskId'[spawn'[k].task][2] = spawn'[k].slot
               /\ \A j \in Harts : spawn'[j].task = spawn'[k].task /\ spawn'[k].task # None => j = k
    <3>1. CASE k = h  BY SMT, <1>1, <1>2, <1>6, <2>1, <2>3, <3>1
    <3>2. CASE k # h
      <4>1. spawn'[k] = spawn[k]  BY <1>6, <3>2
      <4>2. \A j \in Harts : spawn'[j].task = spawn[j].task  BY <1>0, <1>6
      <4>3. Spawning  OBVIOUS
      <4> QED  BY ONLY SMT, <2>2, <2>3, <3>2, <4>1, <4>2, <4>3, k \in Harts DEF Spawning
    <3> QED  BY <3>1, <3>2
  <2> QED  BY <2>4 DEF Spawning
<1>17. InUser'
  <2>1. \A k \in Harts : held[k] # None => st'[held[k]] = st[held[k]]
    BY <1>4, <1>5 DEF TypeOK
  <2>2. \A k \in Harts : user[k] # None => st'[user[k]] = st[user[k]]
    BY <1>4, <1>5 DEF TypeOK
  <2>3. \A k \in Harts : mode[k] = "putback" => held[k] # None  BY DEF Holding
  <2>4. UNCHANGED <<pending, current, target, user, held, mode>>  BY <1>1
  <2>5. \A q \in Procs : pending[q] => st'[q] = "user"  BY <1>4, <1>5 DEF InUser
  <2> QED  BY ONLY SMT, <2>1, <2>2, <2>3, <2>4, <2>5, InUser DEF InUser
<1>18. Coming'
  <2>1. \A k \in Harts : spawn'[k].task = spawn[k].task  BY <1>0, <1>6
  <2>2. ASSUME NEW q \in Procs, st'[q] = "user"
        PROVE  \/ Queued(q)' \/ (\E k \in Harts : held'[k] = q)
               \/ ~pending'[q] /\ \E k \in Harts : user'[k] = q \/ spawn'[k].task = q
    <3>1. CASE q = p  BY <1>1, <1>4, <1>6, <3>1
    <3>2. CASE q # p
      <4>1. st[q] = "user"  BY <1>5, <2>2, <3>2
      <4>2. Queued(q)' <=> Queued(q)  BY <1>1 DEF Queued
      <4> QED  BY <1>1, <2>1, <4>1, <4>2 DEF Coming
    <3> QED  BY <3>1, <3>2
  <2> QED  BY <2>2 DEF Coming
<1> QED  BY <1>8, <1>11, <1>12, <1>13, <1>14, <1>15, <1>16, <1>17, <1>18 DEF SlotsApart

LEMMA SpawnEnqueueInv ==
  ASSUME ExecInv, NEW h \in Harts, SpawnEnqueue(h)
  PROVE  ExecInv'
<1> USE DEF ExecInv
<1>0. PICK p, g, x : p = spawn[h].task /\ g = spawn[h].home /\ x = spawn[h].slot  OBVIOUS
<1>1. /\ mode[h] = "spawn" /\ spawn[h].step = "enqueue"
      /\ ready' = [ready EXCEPT ![g] = Enqueue(ready[g], x)]
      /\ spawn' = [spawn EXCEPT ![h] = NoSpawn] /\ mode' = [mode EXCEPT ![h] = "poll"]
      /\ UNCHANGED <<table, freeSlots, nextSlot, taskId, pending, current, target, user, slot, held,
                     kick, ipi, st>>
  BY <1>0 DEF SpawnEnqueue, Goto, tables, cpus
<1>2. p # None /\ (st[p] # "absent" => taskId[p][1] = g /\ taskId[p][2] = x)
  BY SMT, <1>0, <1>1 DEF Spawning
<1>3. p \in Procs /\ g \in Harts /\ x \in Slots  BY <1>0, <1>2 DEF TypeOK
<1>4. /\ Enqueue(ready[g], x) \in Seq(Slots) /\ In(Enqueue(ready[g], x), x)
      /\ \A y : In(ready[g], y) => In(Enqueue(ready[g], x), y)
  <2>1. ready[g] \in Seq(Slots)  BY <1>3 DEF TypeOK
  <2> QED  BY <1>3, <2>1, InAppend
<1>5. In(ready'[g], x) /\ \A k \in Harts : \A y : In(ready[k], y) => In(ready'[k], y)
  BY <1>1, <1>3, <1>4 DEF TypeOK
<1>6. /\ spawn'[h].step = "none" /\ spawn'[h].task = None
      /\ mode'[h] = "poll"
      /\ \A k \in Harts \ {h} : spawn'[k] = spawn[k] /\ mode'[k] = mode[k]
  <2>1. NoSpawn.step = "none" /\ NoSpawn.task = None  BY DEF NoSpawn
  <2>2. DOMAIN spawn = Harts /\ DOMAIN mode = Harts  BY DEF TypeOK
  <2> QED  BY <1>1, <2>1, <2>2
<1>7. TypeOK'
  <2>1. ready' \in [Harts -> Seq(Slots)]  BY <1>1, <1>4 DEF TypeOK
  <2>2. NoSpawn \in [step : {"none", "publish", "insert", "enqueue"},
                     task : Procs \cup {None}, home : Harts, slot : Slots]
    <3>1. 0 \in Slots  BY SMT, ExecutorAssumption DEF Slots
    <3> QED  BY <3>1, ExecutorAssumption DEF NoSpawn
  <2>3. spawn' \in [Harts -> [step : {"none", "publish", "insert", "enqueue"},
                              task : Procs \cup {None}, home : Harts, slot : Slots]]
    BY <1>1, <2>2 DEF TypeOK
  <2>4. mode' \in [Harts -> Modes]  BY <1>1 DEF TypeOK, Modes
  <2> QED  BY <1>1, <2>1, <2>3, <2>4 DEF TypeOK
<1>8. InSlot' /\ Somewhere'
  <2>1. UNCHANGED <<table, taskId, held, st>> /\ InSlot /\ Somewhere  BY <1>1
  <2> QED  BY ONLY SMT, <2>1 DEF InSlot, Somewhere
<1>9. Holding'
  <2>1. UNCHANGED <<taskId, slot, current, held, st>>  BY <1>1
  <2>2. held[h] # None /\ st[held[h]] = "sys" /\ Holding  BY <1>1 DEF Holding
  <2> QED  BY ONLY SMT, <1>6, <2>1, <2>2 DEF Holding
<1>10. Pointing'  BY <1>1 DEF Pointing
<1>11. ASSUME NEW k \in Harts, NEW y \in Slots PROVE SlotApart(k, y)'
  <2>1. SlotApart(k, y)  BY DEF SlotsApart
  <2>2. table' = table /\ nextSlot' = nextSlot /\ (HeldAt(k, y)' <=> HeldAt(k, y))
    BY <1>1 DEF HeldAt
  <2>3. In(freeSlots[k], y)' <=> In(freeSlots[k], y)  BY <1>1
  <2>4. \A j \in Harts : Reserved(j, k, y)' <=> Reserved(j, k, y)  BY <1>1, <1>6 DEF Reserved
  <2> QED  BY <2>1, <2>2, <2>3, <2>4 DEF SlotApart
<1>12. FreeOnce'  BY <1>1 DEF FreeOnce, Once
<1>13. Spawning'
  <2>1. st' = st /\ taskId' = taskId /\ Spawning  BY <1>1
  <2> QED  BY ONLY SMT, <1>6, <2>1 DEF Spawning
<1>14. InUser'
  <2>1. UNCHANGED <<pending, current, target, user, held, st>> /\ InUser  BY <1>1
  <2>2. mode[h] = "spawn"  BY <1>1
  <2> QED  BY ONLY SMT, <1>6, <2>1, <2>2 DEF InUser
<1>15. Coming'
  <2>1. ASSUME NEW q \in Procs, Queued(q) PROVE Queued(q)'
    <3>1. taskId[q][1] \in Harts /\ In(ready[taskId[q][1]], taskId[q][2])
      BY <2>1, IdIs DEF Queued, In
    <3>2. In(ready'[taskId[q][1]], taskId[q][2])  BY <1>5, <3>1
    <3> QED  BY <1>1, <3>2 DEF Queued, In
  <2>2. ASSUME NEW q \in Procs, st'[q] = "user"
        PROVE  \/ Queued(q)' \/ (\E k \in Harts : held'[k] = q)
               \/ ~pending'[q] /\ \E k \in Harts : user'[k] = q \/ spawn'[k].task = q
    <3>1. st[q] = "user"  BY <1>1, <2>2
    <3>2. CASE q = p
      <4>1. taskId'[q][1] = g /\ taskId'[q][2] = x  BY <1>1, <1>2, <3>1, <3>2
      <4>2. Queued(q)'  BY <1>5, <4>1 DEF Queued, In
      <4> QED  BY <4>2
    <3>3. CASE q # p
      <4>1. \A k \in Harts : spawn[k].task = q => spawn'[k].task = q  BY <1>0, <1>6, <3>3
      <4> QED  BY <1>1, <2>1, <3>1, <4>1 DEF Coming
    <3> QED  BY <3>2, <3>3
  <2> QED  BY <2>2 DEF Coming
<1> QED  BY <1>7, <1>8, <1>9, <1>10, <1>11, <1>12, <1>13, <1>14, <1>15 DEF SlotsApart

-----------------------------------------------------------------------------
(* The trap of the program that ran.                                       *)

LEMMA TrapPostInv ==
  ASSUME ExecInv, NEW h \in Harts, TrapPost(h)
  PROVE  ExecInv'
<1> USE DEF ExecInv
<1>0. PICK p : p = current[h]  OBVIOUS
<1>1. /\ mode[h] = "trap" /\ pending' = [pending EXCEPT ![p] = TRUE]
      /\ Wake(h, taskId[p])
      /\ user' = [user EXCEPT ![h] = None] /\ mode' = [mode EXCEPT ![h] = "pop"]
      /\ UNCHANGED <<table, freeSlots, nextSlot, taskId, current, target, slot, held, spawn, ipi,
                     st>>
  BY <1>0 DEF TrapPost, PostWake, Goto, tables
<1>2. user[h] # None /\ user[h] = p /\ st[p] = "user"  BY <1>0, <1>1 DEF InUser
<1>3. p \in Procs /\ held[h] = None
  <2>1. user[h] \in Procs \cup {None}  BY DEF TypeOK
  <2>2. held[h] = None  BY <1>1 DEF Holding
  <2> QED  BY <1>2, <2>1, <2>2
<1>4. taskId[p] \in Tids /\ taskId[p][1] = h  BY <1>0, <1>2, <1>3, IdIs DEF Pointing
<1>5. /\ ready' \in [Harts -> Seq(Slots)] /\ kick' \in [Harts -> Harts \cup {None}]
      /\ In(ready'[taskId[p][1]], taskId[p][2])
      /\ \A q \in Procs : Queued(q) => Queued(q)'
  BY <1>1, <1>4, WakeIs
<1>6. \A k \in Harts \ {h} : held[k] # p /\ current[k] # p /\ user[k] # p
  <2>1. ASSUME NEW k \in Harts \ {h} PROVE held[k] # p /\ current[k] # p /\ user[k] # p
    <3>1. current[k] # p  BY <1>3, <1>4, ExecutorAssumption DEF Pointing
    <3>2. held[k] # p  BY SMT, <1>3, <3>1, ExecutorAssumption DEF Holding
    <3>3. user[k] # p  BY <1>3, <3>1, ExecutorAssumption DEF InUser
    <3> QED  BY <3>1, <3>2, <3>3
  <2> QED  BY <2>1
<1>7. /\ user'[h] = None /\ mode'[h] = "pop"
      /\ \A k \in Harts \ {h} : user'[k] = user[k] /\ mode'[k] = mode[k]
  BY <1>1 DEF TypeOK
<1>8. pending'[p] = TRUE /\ \A q \in Procs \ {p} : pending'[q] = pending[q]
  BY <1>1, <1>3 DEF TypeOK
<1>9. TypeOK'
  <2>1. /\ pending' \in [Procs -> BOOLEAN] /\ user' \in [Harts -> Procs \cup {None}]
    BY <1>1 DEF TypeOK
  <2>2. mode' \in [Harts -> Modes]  BY <1>1 DEF TypeOK, Modes
  <2> QED  BY <1>1, <1>5, <2>1, <2>2 DEF TypeOK
<1>10. InSlot' /\ Somewhere'
  <2>1. UNCHANGED <<table, taskId, held, st>> /\ InSlot /\ Somewhere  BY <1>1
  <2> QED  BY ONLY SMT, <2>1 DEF InSlot, Somewhere
<1>11. Holding' /\ Pointing'
  <2>1. UNCHANGED <<taskId, slot, current, held, st>> /\ Holding  BY <1>1
  <2>2. Holding'  BY ONLY SMT, <1>1, <1>3, <1>7, <2>1 DEF Holding
  <2>3. Pointing'  BY <2>1 DEF Pointing
  <2> QED  BY <2>2, <2>3
<1>12. SlotsApart'
  <2>1. UNCHANGED <<table, freeSlots, nextSlot, held, slot, spawn>> /\ SlotsApart  BY <1>1
  <2> QED  BY ONLY SMTT(30), <2>1 DEF SlotsApart, SlotApart, HeldAt, Reserved, In
<1>13. FreeOnce'  BY <1>1 DEF FreeOnce, Once
<1>14. Spawning'
  <2>1. \A k \in Harts : mode'[k] = "spawn" <=> mode[k] = "spawn"  BY <1>1, <1>7
  <2>2. UNCHANGED <<spawn, st, taskId>> /\ Spawning  BY <1>1
  <2> QED  BY ONLY SMTT(30), <2>1, <2>2 DEF Spawning
<1>15. InUser'
  <2>1. UNCHANGED <<current, target, held, st>>  BY <1>1
  <2>2. target[h] = None  BY <1>1 DEF InUser
  <2>3. ASSUME NEW k \in Harts
        PROVE  /\ target'[k] # None <=> mode'[k] = "putback" /\ st'[held'[k]] = "user"
               /\ target'[k] # None => target'[k] = held'[k] /\ ~pending'[target'[k]]
               /\ user'[k] # None <=> mode'[k] \in {"user", "trap"}
               /\ user'[k] # None => /\ user'[k] = current'[k] /\ st'[user'[k]] = "user"
                                     /\ ~pending'[user'[k]]
    <3>1. CASE k = h  BY <1>7, <2>1, <2>2, <3>1
    <3>2. CASE k # h
      <4>1. mode'[k] = mode[k] /\ user'[k] = user[k]  BY <1>7, <3>2
      <4>2. held[k] # None => pending'[held[k]] = pending[held[k]]
        BY <1>6, <1>8, <3>2 DEF TypeOK
      <4>3. user[k] # None => pending'[user[k]] = pending[user[k]]
        BY <1>6, <1>8, <3>2 DEF TypeOK
      <4> QED  BY SMT, <2>1, <4>1, <4>2, <4>3 DEF InUser
    <3> QED  BY <3>1, <3>2
  <2>4. ASSUME NEW q \in Procs, pending'[q] PROVE st'[q] = "user"
    BY <1>1, <1>2, <1>8, <2>4 DEF InUser
  <2> QED  BY <2>3, <2>4 DEF InUser
<1>16. Coming'
  <2>1. ASSUME NEW q \in Procs, st'[q] = "user"
        PROVE  \/ Queued(q)' \/ (\E k \in Harts : held'[k] = q)
               \/ ~pending'[q] /\ \E k \in Harts : user'[k] = q \/ spawn'[k].task = q
    <3>1. CASE q = p
      <4>1. Queued(q)'  BY <1>1, <1>5, <3>1 DEF Queued, In
      <4> QED  BY <4>1
    <3>2. CASE q # p
      <4>1. st[q] = "user" /\ pending'[q] = pending[q]  BY <1>1, <1>8, <2>1, <3>2
      <4>2. \A k \in Harts : user[k] = q => user'[k] = q  BY <1>2, <1>7, <3>2
      <4> QED  BY <1>1, <1>5, <4>1, <4>2 DEF Coming
    <3> QED  BY <3>1, <3>2
  <2> QED  BY <2>1 DEF Coming
<1> QED  BY <1>9, <1>10, <1>11, <1>12, <1>13, <1>14, <1>15, <1>16

-----------------------------------------------------------------------------
LEMMA NextInv == ExecInv /\ [Next]_vars => ExecInv'
<1> SUFFICES ASSUME ExecInv, [Next]_vars PROVE ExecInv'  OBVIOUS
<1>1. CASE UNCHANGED vars
  <2>1. UNCHANGED <<ready, table, freeSlots, nextSlot, taskId, pending, current, target, user,
                    mode, slot, held, spawn, kick, ipi, st>>
    BY <1>1 DEF vars, tables, cpus
  <2>2. TypeOK'  BY <2>1 DEF TypeOK, ExecInv
  <2>3. \A p \in Procs : Queued(p) => Queued(p)'  BY <2>1 DEF Queued
  <2> QED  BY <2>1, <2>2, <2>3, QuietInv
<1>2. ASSUME NEW h \in Harts,
             SendIpi(h) \/ Interrupt(h) \/ Run(h) \/ Return(h) \/ Stray(h)
      PROVE  ExecInv'
  <2>1. CASE SendIpi(h) \/ Interrupt(h)  BY <2>1, QuietSteps
  <2>2. CASE Run(h)
    <3>1. CASE PopEmpty(h) \/ PopStale(h) \/ Sleep(h) \/ Trap(h)  BY <3>1, QuietSteps
    <3>2. CASE PollTrap(h) \/ PollUser(h)  BY <3>2, PollInv
    <3> QED
      BY <2>2, <3>1, <3>2, PopTaskInv, PutBackInv, FinishInv, SpawnPublishInv, SpawnInsertInv,
         SpawnEnqueueInv, TrapPostInv
         DEF Run
  <2>3. CASE Return(h)  BY <2>3, PollInv DEF Return
  <2>4. CASE Stray(h)
    <3>1. CASE PollResume(h)  BY <3>1, PollInv
    <3>2. CASE \E p \in Procs, g \in Harts : SpawnSlot(h, p, g)  BY <3>2, SpawnSlotInv
    <3>3. CASE \E tid \in Issued : PollWake(h, tid) \/ TrapWake(h, tid) \/ InterruptWake(h, tid)
      BY <3>3, QuietSteps
    <3> QED  BY <2>4, <3>1, <3>2, <3>3 DEF Stray
  <2> QED  BY <1>2, <2>1, <2>2, <2>3, <2>4
<1> QED  BY <1>1, <1>2 DEF Next

\* The executor's tables, queues and pointers agree: a live task is in its slot or
\* in its home hart's hands, a slot is free, reserved or taken and only one of them
\* (insert_task and run share free_slots across harts), and every proc that awaits
\* user mode is about to be polled.
THEOREM ExecutorInvariant == Spec => []ExecInv
<1> QED  BY InitInv, NextInv, PTL DEF Spec

\* A posted trap (rust_usertrap, usertrap.rs:71) always has its task queued or under
\* poll on its home hart, whatever stale ids and slot reuse put in the queues.
THEOREM PostedTrapIsQueued == Spec => []TrapIsQueued
<1>1. ASSUME ExecInv PROVE TrapIsQueued
  <2>1. ASSUME NEW p \in Procs, pending[p] PROVE Queued(p) \/ held[taskId[p][1]] = p
    <3>1. st[p] = "user"  BY <1>1, <2>1 DEF ExecInv, InUser
    <3>2. Queued(p) \/ \E h \in Harts : held[h] = p  BY <1>1, <2>1, <3>1 DEF ExecInv, Coming
    <3>3. ASSUME NEW h \in Harts, held[h] = p PROVE held[taskId[p][1]] = p
      <4>1. p # None  BY ExecutorAssumption
      <4>2. taskId[held[h]][1] = h  BY <1>1, <3>3, <4>1, HeldIs
      <4> QED  BY <3>3, <4>2
    <3> QED  BY <3>2, <3>3
  <2> QED  BY <2>1 DEF TrapIsQueued
<1> QED  BY <1>1, ExecutorInvariant, PTL

\* A hart in user mode runs the proc it polled last, at home there, whose trap it
\* will file (usertrap.rs:28); nobody who awaits user mode is stranded by a spurious
\* poll (executor.rs:66-69).
THEOREM UserModeIsInTurn == Spec => []UserModeInTurn
<1>1. ASSUME ExecInv PROVE UserModeInTurn
  <2> USE <1>1 DEF ExecInv
  <2>1. ASSUME NEW h \in Harts, mode[h] \in {"user", "trap"}
        PROVE  /\ user[h] = current[h] /\ taskId[user[h]][1] = h
               /\ st[user[h]] = "user" /\ ~pending[user[h]]
    <3>1. /\ user[h] # None /\ user[h] = current[h] /\ st[user[h]] = "user"
          /\ ~pending[user[h]]
      BY <2>1 DEF InUser
    <3>2. taskId[current[h]][1] = h  BY <3>1 DEF Pointing
    <3> QED  BY <3>1, <3>2
  <2>2. ASSUME NEW p \in Procs, st[p] = "user", \A h \in Harts : p \notin {user[h], held[h]}
        PROVE  pending[p] \/ Queued(p) \/ \E g \in Harts : spawn[g].task = p
    BY <2>2 DEF Coming
  <2> QED  BY <2>1, <2>2 DEF UserModeInTurn
<1> QED  BY <1>1, ExecutorInvariant, PTL

\* The raw pointers of a hart (cpu.rs:27-31) never outlive the task: what
\* current_proc names is held by the hart or in its own table.
THEOREM NoProcDangles == Spec => []NoDanglingProc
<1>1. ASSUME ExecInv, NEW h \in Harts, current[h] # None
      PROVE  /\ st[current[h]] = "done" => mode[h] = "recycle"
             /\ held[h] = current[h] \/ \E s \in Slots : table[h][s] = current[h]
  <2> USE DEF ExecInv
  <2>0. PICK p \in Procs : p = current[h]  BY <1>1 DEF TypeOK
  <2>1. st[p] # "absent" /\ taskId[p][1] = h /\ taskId[p][2] \in Slots
    BY <1>1, <2>0, IdIs DEF Pointing
  <2>2. table[h][taskId[p][2]] = p \/ held[h] = p  BY <1>1, <2>1 DEF Somewhere
  <2>3. ASSUME NEW s \in Slots, table[h][s] = p PROVE st[p] # "done"
    <3>1. p # None  BY ExecutorAssumption
    <3> QED  BY SMT, <1>1, <2>3, <3>1 DEF InSlot
  <2>4. ASSUME held[h] = p, st[p] = "done" PROVE mode[h] = "recycle"
    <3>1. held[h] # None  BY <2>4, ExecutorAssumption
    <3> QED  BY <1>1, <2>4, <3>1 DEF Holding
  <2> QED  BY <2>0, <2>1, <2>2, <2>3, <2>4
<1>2. ExecInv => NoDanglingProc  BY <1>1 DEF NoDanglingProc
<1> QED  BY <1>2, ExecutorInvariant, PTL
=============================================================================
