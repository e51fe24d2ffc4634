--------------------------- MODULE SignalsProofs ----------------------------
(***************************************************************************)
(* Proofs about Signals: nobody sleeps through a signal, a kill, a timer   *)
(* or a line, the alarm of the latest call is the one that is scheduled,   *)
(* and handlers leave no trace.                                            *)
(***************************************************************************)
EXTENDS Signals, NaturalsInduction, WellFoundedInduction, TLAPS

\* Most steps are first-order; the others name the backend they need.
USE ZenonT(40)

-----------------------------------------------------------------------------
(* The inductive invariant.                                                *)

Hows == {"none", "killed", "pending"}
Args == [call : Calls \cup {"none"}, who : Procs, sig : Sigs, n : Nat, set : SUBSET Sigs,
         act : Actions, nonblock : BOOLEAN, how : Hows, d : Nat, got : Nat]
Frames == [at : Sigs \cup {MAIN}, a0 : Sigs \cup {MAIN}]
Saved == [tf : Frames, blocked : SUBSET Sigs, some : BOOLEAN]
TimerEntries == [d : Nat, p : Procs]
AlarmEntries == [d : Nat, p : Procs, gen : Nat]
Drains == [at : Seq(AlarmEntries), s : {"idle", "collect", "look", "mark", "wake"}, how : Hows]
Chars == plan.typed \cup {EOF}

Typed ==
  /\ plan \in Plans
  /\ now \in Nat \ {0}
  /\ timers \in Seq(TimerEntries) /\ alarms \in Seq(AlarmEntries)
  /\ drain \in [Harts -> Drains]
  /\ killed \in [Procs -> BOOLEAN]
  /\ pending \in [Procs -> SUBSET Sigs] /\ blocked \in [Procs -> SUBSET Sigs]
  /\ main \in [Procs -> SUBSET Sigs]
  /\ actions \in [Procs -> [Sigs -> Actions]]
  /\ saved \in [Procs -> Saved] /\ tf \in [Procs -> Frames]
  /\ generation \in [Procs -> Nat] /\ deadline \in [Procs -> Nat]
  /\ arg \in [Procs -> Args]
  /\ DOMAIN pc = Procs
  /\ cooked \in Seq(Chars) /\ edit \in Seq(Chars)

\* What a handler interrupted is saved, or runs.
Res(p) ==
  /\ saved[p].some => /\ tf[p].at # MAIN
                      /\ saved[p].tf = [at |-> MAIN, a0 |-> MAIN]
                      /\ saved[p].blocked = main[p]
  /\ ~saved[p].some => /\ tf[p] = [at |-> MAIN, a0 |-> MAIN]
                       /\ blocked[p] = main[p]

\* The calls that park, at their places.
InCall(p) ==
  /\ pc[p] \in {"pause", "pause_register", "pause_check"} => arg[p].call = "pause"
  /\ pc[p] \in {"sleep", "sleep_check", "add_timer"} => arg[p].call = "sleep"
  /\ pc[p] \in {"console_read", "console_register", "try_pop", "unget"} =>
       arg[p].call = "console_read"
  /\ pc[p] \in {"input_read", "read_nonblock", "input_wait", "input_register"} =>
       arg[p].call = "input_read"
  /\ pc[p] = "parked" => arg[p].call \in {"pause", "sleep", "console_read", "input_read"}

\* Past the look at the killed flag, on the way to being parked.
Past(p) ==
  \/ pc[p] \in {"pause_register", "pause_check", "sleep_check", "add_timer",
                "console_register", "read_nonblock", "input_wait", "input_register", "parked"}
  \/ pc[p] = "try_pop" /\ ~arg[p].nonblock

Parked(p, c) == pc[p] = "parked" /\ arg[p].call = c

OnlyEof == \A i \in DOMAIN cooked : cooked[i] = EOF

\* Whoever is parked, or about to be, has whatever will wake it in place.
Waits(p) ==
  /\ Past(p) /\ killed[p] => Coming(p)
  /\ Parked(p, "pause") => Deliverable(p) = {} \/ Coming(p)
  /\ Parked(p, "sleep") => p \in ready \/ \E e \in Elems(timers) : e.p = p /\ e.d <= arg[p].d
  /\ (pc[p] = "try_pop" /\ ~arg[p].nonblock) \/ Parked(p, "console_read") =>
       p \in ready \cup readers
  /\ Parked(p, "console_read") => p \in ready \/ uart \/ OnlyEof

\* The alarms that are queued or being gone through.
RingsOf(q, dr) == Elems(q) \cup UNION {Elems(dr[h].at) : h \in Harts}
Rings == RingsOf(alarms, drain)

\* One with the current generation is the one of the latest call; those being
\* gone through are due; an alarm that is set and not due is queued.
Alarms ==
  /\ \A e \in Rings :
       /\ e.gen <= generation[e.p] /\ e.d > 0
       /\ e.gen = generation[e.p] => e.d = deadline[e.p] /\ pc[e.p] # "add_alarm"
  /\ \A h \in Harts : \A e \in Elems(drain[h].at) : e.d <= now
  /\ \A h \in Harts : drain[h].s \in {"mark", "wake"} => drain[h].at # <<>>
  /\ \A p \in Procs :
       /\ pc[p] = "add_alarm" => deadline[p] = arg[p].d
       /\ pc[p] \in {"alarm", "add_alarm"} => arg[p].d > 0
       /\ pc[p] # "add_alarm" /\ deadline[p] > now =>
            \E e \in Elems(alarms) : e.p = p /\ e.gen = generation[p]

SigInv ==
  /\ Typed /\ Alarms
  /\ \A p \in Procs : Res(p) /\ InCall(p) /\ Waits(p)

-----------------------------------------------------------------------------
(* Lists.                                                                  *)

LEMMA LeastIn ==
  ASSUME NEW S \in SUBSET Nat, S # {}
  PROVE  \E i \in S : \A j \in S : i <= j
<1>1. PICK i \in S : \A j \in S : <<j, i>> \notin OpToRel(<, Nat)
  BY NatLessThanWellFounded, WFMin
<1>2. \A j \in S : <<j, i>> \in Nat \X Nat /\ <<j, i>>[1] = j /\ <<j, i>>[2] = i
  OBVIOUS
<1>3. \A j \in S : ~(j < i)  BY <1>1, <1>2 DEF OpToRel
<1>4. S \subseteq Nat  OBVIOUS
<1>5. \A j \in S : i <= j  BY ONLY SMT, <1>3, <1>4, i \in S
<1> QED  BY <1>5

LEMMA ElemsIn ==
  ASSUME NEW S, NEW q \in Seq(S)
  PROVE  Elems(q) \subseteq S
<1>1. \A i \in DOMAIN q : q[i] \in S  BY SMT
<1> QED  BY <1>1 DEF Elems

LEMMA ElemsTail ==
  ASSUME NEW S, NEW q \in Seq(S), q # <<>>
  PROVE  /\ Head(q) \in S /\ Tail(q) \in Seq(S)
         /\ Elems(q) = {Head(q)} \cup Elems(Tail(q))
<1>1. Head(q) \in S /\ Tail(q) \in Seq(S) /\ Len(q) \in Nat /\ Len(q) >= 1
  BY SMT
<1>2. Head(q) = q[1] /\ 1 \in DOMAIN q  BY SMT
<1>3. \A i \in DOMAIN Tail(q) : i + 1 \in DOMAIN q /\ Tail(q)[i] = q[i + 1]  BY SMT
<1>4. \A i \in DOMAIN q : i = 1 \/ (i - 1 \in DOMAIN Tail(q) /\ Tail(q)[i - 1] = q[i])
  BY SMT
<1>5. \A i \in DOMAIN q : q[i] \in {Head(q)} \cup Elems(Tail(q))  BY <1>2, <1>4 DEF Elems
<1>6. \A i \in DOMAIN Tail(q) : Tail(q)[i] \in Elems(q)  BY <1>3 DEF Elems
<1>7. Elems(Tail(q)) \subseteq Elems(q) /\ Elems(q) \subseteq {Head(q)} \cup Elems(Tail(q))
  BY <1>5, <1>6 DEF Elems
<1>8. Head(q) \in Elems(q)  BY <1>2 DEF Elems
<1> QED  BY <1>1, <1>7, <1>8

LEMMA ElemsEmpty == Elems(<<>>) = {}
<1>1. DOMAIN <<>> = {}  BY SMT
<1> QED  BY <1>1 DEF Elems

LEMMA DueIs ==
  ASSUME NEW S, \A e \in S : e.d \in Nat, NEW q \in Seq(S), NEW t \in Nat
  PROVE  Due(q, t) \in 0..Len(q) /\ \A i \in 1..Due(q, t) : q[i].d <= t
<1> DEFINE F == {i \in 1..Len(q) : q[i].d > t}
<1>0. Len(q) \in Nat /\ \A i \in 1..Len(q) : q[i].d \in Nat  BY SMT
<1>1. \E k \in 0..Len(q) : /\ \A i \in 1..k : q[i].d <= t
                           /\ k < Len(q) => q[k + 1].d > t
  <2>1. CASE F = {}
    <3>1. \A i \in 1..Len(q) : q[i].d <= t  BY SMT, <1>0, <2>1
    <3> QED  BY SMT, <1>0, <3>1
  <2>2. CASE F # {}
    <3>1. F \in SUBSET Nat  BY SMT
    <3>2. PICK m \in F : \A j \in F : m <= j  BY <2>2, <3>1, LeastIn
    <3>3. m \in 1..Len(q) /\ q[m].d > t  OBVIOUS
    <3>4. \A i \in 1..(m - 1) : q[i].d <= t  BY SMT, <1>0, <3>2, <3>3
    <3>5. m - 1 \in 0..Len(q) /\ (m - 1) + 1 = m  BY ONLY SMT, <1>0, <3>3
    <3> QED  BY <3>3, <3>4, <3>5
  <2> QED  BY <2>1, <2>2
<1> QED  BY <1>1 DEF Due

LEMMA Split ==
  ASSUME NEW S, NEW q \in Seq(S), NEW k \in 0..Len(q)
  PROVE  /\ SubSeq(q, 1, k) \in Seq(S) /\ SubSeq(q, k + 1, Len(q)) \in Seq(S)
         /\ Elems(q) = Elems(SubSeq(q, 1, k)) \cup Elems(SubSeq(q, k + 1, Len(q)))
         /\ Elems(SubSeq(q, 1, k)) = {q[i] : i \in 1..k}
<1>0. Len(q) \in Nat /\ DOMAIN q = 1..Len(q) /\ k \in Nat /\ k <= Len(q)  BY SMT
<1> DEFINE a == SubSeq(q, 1, k)
           b == SubSeq(q, k + 1, Len(q))
<1>1. a \in Seq(S) /\ b \in Seq(S)  BY SMT, <1>0
<1>2. DOMAIN a = 1..k /\ \A i \in 1..k : a[i] = q[i] /\ i \in DOMAIN q  BY SMT, <1>0
<1>3. DOMAIN b = 1..(Len(q) - k) /\ \A i \in DOMAIN b : b[i] = q[k + i]  BY SMT, <1>0
<1>4. \A i \in DOMAIN b : k + i \in DOMAIN q  BY ONLY SMT, <1>0, <1>3
<1>5. \A i \in DOMAIN q : i \in 1..k \/ (i - k \in DOMAIN b /\ k + (i - k) = i)
  BY ONLY SMT, <1>0, <1>3
<1>6. Elems(a) = {q[i] : i \in 1..k}  BY <1>2 DEF Elems
<1>7. Elems(b) = {q[k + i] : i \in DOMAIN b}  BY <1>3 DEF Elems
<1>8. Elems(q) = Elems(a) \cup Elems(b)
  <2>1. ASSUME NEW i \in DOMAIN q PROVE q[i] \in Elems(a) \cup Elems(b)
    <3>1. CASE i \in 1..k  BY ONLY <1>6, <3>1
    <3>2. CASE i - k \in DOMAIN b /\ k + (i - k) = i
      <4>1. q[k + (i - k)] \in Elems(b)  BY ONLY <1>7, <3>2
      <4> QED  BY ONLY <3>2, <4>1
    <3> QED  BY <1>5, <3>1, <3>2
  <2>2. Elems(a) \cup Elems(b) \subseteq Elems(q)  BY <1>2, <1>4, <1>6, <1>7 DEF Elems
  <2> QED  BY <2>1, <2>2 DEF Elems
<1> QED  BY <1>1, <1>6, <1>8

LEMMA ElemsConcat ==
  ASSUME NEW S, NEW a \in Seq(S), NEW b \in Seq(S)
  PROVE  a \o b \in Seq(S) /\ Elems(a \o b) = Elems(a) \cup Elems(b)
<1> DEFINE c == a \o b
<1>0. Len(a) \in Nat /\ Len(b) \in Nat /\ DOMAIN a = 1..Len(a) /\ DOMAIN b = 1..Len(b)
  BY SMT
<1>1. c \in Seq(S) /\ DOMAIN c = 1..(Len(a) + Len(b))  BY SMT
<1>2. /\ \A i \in DOMAIN a : i \in DOMAIN c /\ c[i] = a[i]
      /\ \A i \in DOMAIN b : Len(a) + i \in DOMAIN c /\ c[Len(a) + i] = b[i]
  BY SMT, <1>0, <1>1
<1>3. \A i \in DOMAIN c : i \in DOMAIN a \/ (i - Len(a) \in DOMAIN b /\ Len(a) + (i - Len(a)) = i)
  BY ONLY SMT, <1>0, <1>1
<1> HIDE DEF c
<1>4. \A i \in DOMAIN c : c[i] \in Elems(a) \cup Elems(b)  BY ONLY <1>2, <1>3 DEF Elems
<1>5. Elems(c) \subseteq Elems(a) \cup Elems(b)  BY ONLY <1>4 DEF Elems
<1>6. Elems(a) \subseteq Elems(c)  BY ONLY <1>2 DEF Elems
<1>7. Elems(b) \subseteq Elems(c)  BY ONLY <1>2 DEF Elems
<1>8. Elems(c) = Elems(a) \cup Elems(b)  BY ONLY <1>5, <1>6, <1>7
<1> QED  BY <1>1, <1>8 DEF c

LEMMA ElemsOne ==
  ASSUME NEW S, NEW e \in S
  PROVE  <<e>> \in Seq(S) /\ Elems(<<e>>) = {e}
<1>1. <<e>> \in Seq(S) /\ DOMAIN <<e>> = {1} /\ <<e>>[1] = e  BY SMT
<1> QED  BY <1>1 DEF Elems

LEMMA InsertIs ==
  ASSUME NEW S, \A e \in S : e.d \in Nat, NEW q \in Seq(S), NEW e \in S
  PROVE  Insert(q, e) \in Seq(S) /\ Elems(Insert(q, e)) = Elems(q) \cup {e}
<1>1. PICK k \in 0..Len(q) : k = Due(q, e.d)  BY DueIs
<1>2. PICK a, b : a = SubSeq(q, 1, k) /\ b = SubSeq(q, k + 1, Len(q))  OBVIOUS
<1>3. a \in Seq(S) /\ b \in Seq(S) /\ Elems(q) = Elems(a) \cup Elems(b)
  BY <1>2, Split
<1>4. PICK o : o = <<e>>  OBVIOUS
<1>5. o \in Seq(S) /\ Elems(o) = {e}  BY <1>4, ElemsOne
<1>6. PICK c : c = a \o o  OBVIOUS
<1>7. c \in Seq(S) /\ Elems(c) = Elems(a) \cup {e}  BY ONLY <1>3, <1>5, <1>6, ElemsConcat
<1>8. Insert(q, e) = c \o b  BY <1>1, <1>2, <1>4, <1>6 DEF Insert
<1>9. PICK w : w = c \o b  OBVIOUS
<1>10. w \in Seq(S) /\ Elems(w) = Elems(c) \cup Elems(b)  BY ONLY <1>3, <1>7, <1>9, ElemsConcat
<1> QED  BY <1>3, <1>7, <1>8, <1>9, <1>10

LEMMA ExpiredIs ==
  ASSUME NEW S, \A e \in S : e.d \in Nat, NEW q \in Seq(S), now \in Nat
  PROVE  /\ Expired(q) \in Seq(S) /\ NotExpired(q) \in Seq(S)
         /\ Elems(q) = Elems(Expired(q)) \cup Elems(NotExpired(q))
         /\ \A e \in Elems(Expired(q)) : e.d <= now
<1>1. PICK k \in 0..Len(q) : k = Due(q, now) /\ \A i \in 1..k : q[i].d <= now
  BY DueIs
<1>2. PICK a, b : a = SubSeq(q, 1, k) /\ b = SubSeq(q, k + 1, Len(q))  OBVIOUS
<1>3. /\ a \in Seq(S) /\ b \in Seq(S) /\ Elems(q) = Elems(a) \cup Elems(b)
      /\ Elems(a) = {q[i] : i \in 1..k}
  BY ONLY <1>2, q \in Seq(S), k \in 0..Len(q), Split
<1>4. Expired(q) = a /\ NotExpired(q) = b  BY <1>1, <1>2 DEF Expired, NotExpired
<1>5. \A e \in Elems(a) : e.d <= now  BY <1>1, <1>3
<1> QED  BY <1>3, <1>4, <1>5

-----------------------------------------------------------------------------
(* What a step leaves of those who wait.                                   *)

\* What a step of another process or of an interrupt may do to q.
Kept(q) ==
  /\ pc'[q] = pc[q] /\ arg'[q] = arg[q] /\ blocked'[q] = blocked[q]
  /\ Coming(q) => Coming(q)'
  /\ killed'[q] = killed[q] \/ Coming(q)'
  /\ pending'[q] \subseteq pending[q] \/ Coming(q)'
  /\ q \in ready => q \in ready'
  /\ q \in readers => q \in ready' \cup readers'
  /\ \A e \in Elems(timers) : e.p = q => q \in ready' \/ e \in Elems(timers')
  /\ uart /\ q \in readers => uart' \/ q \in ready'
  /\ OnlyEof => uart' \/ OnlyEof'

LEMMA KeptWaits ==
  ASSUME NEW q, InCall(q), Waits(q), Kept(q)
  PROVE  InCall(q)' /\ Waits(q)'
<1>0. pc'[q] = pc[q] /\ arg'[q] = arg[q]  BY DEF Kept
<1>1. InCall(q)'  BY <1>0 DEF InCall
<1>2. (Past(q)' <=> Past(q)) /\ \A c : Parked(q, c)' <=> Parked(q, c)
  BY <1>0 DEF Past, Parked
<1>3. Past(q)' /\ killed'[q] => Coming(q)'  BY <1>2 DEF Kept, Waits
<1>4. Parked(q, "pause")' => Deliverable(q)' = {} \/ Coming(q)'
  BY <1>2 DEF Kept, Waits, Deliverable
<1>5. Parked(q, "sleep")' =>
        q \in ready' \/ \E e \in Elems(timers)' : e.p = q /\ e.d <= arg'[q].d
  <2>1. \A e \in Elems(timers) : e.p = q => q \in ready' \/ e \in Elems(timers)'
    BY DEF Kept, Elems
  <2>2. q \in ready => q \in ready'  BY DEF Kept
  <2> QED  BY <1>0, <1>2, <2>1, <2>2 DEF Waits
<1>6. (pc'[q] = "try_pop" /\ ~arg'[q].nonblock) \/ Parked(q, "console_read")' =>
        q \in ready' \cup readers'
  BY <1>0, <1>2 DEF Kept, Waits
<1>7. Parked(q, "console_read")' => q \in ready' \/ uart' \/ OnlyEof'
  BY <1>2 DEF Kept, Waits
<1> QED  BY <1>1, <1>3, <1>4, <1>5, <1>6, <1>7 DEF Waits

LEMMA ComingProc ==
  ASSUME Typed, NEW p \in Procs, NEW l, pc' = [pc EXCEPT ![p] = l], pc[p] # "wake",
         \A q \in Procs \ {p} : arg'[q] = arg[q], drain' = drain, ready \subseteq ready',
         NEW q, Coming(q)
  PROVE  Coming(q)'
<1>1. \A r \in Procs : pc[r] = "wake" => pc'[r] = "wake" /\ arg'[r] = arg[r]  BY DEF Typed
<1> QED  BY <1>1 DEF Coming

\* A step of p that keeps to itself.
LEMMA OthersWait ==
  ASSUME SigInv, NEW p \in Procs, NEW l, pc' = [pc EXCEPT ![p] = l], pc[p] # "wake",
         \A q \in Procs \ {p} : /\ arg'[q] = arg[q] /\ blocked'[q] = blocked[q]
                                /\ killed'[q] = killed[q] /\ pending'[q] = pending[q],
         UNCHANGED <<drain, ready, timers, cooked, readers, uart>>
  PROVE  \A q \in Procs \ {p} : InCall(q)' /\ Waits(q)'
<1> SUFFICES ASSUME NEW q \in Procs \ {p} PROVE InCall(q)' /\ Waits(q)'
  OBVIOUS
<1>1. Typed /\ InCall(q) /\ Waits(q)  BY DEF SigInv
<1>2. pc'[q] = pc[q]  BY <1>1 DEF Typed
<1>3. Coming(q) => Coming(q)'  BY <1>1, ComingProc
<1>4. OnlyEof => OnlyEof'  BY DEF OnlyEof
<1>5. Kept(q)  BY <1>2, <1>3, <1>4 DEF Kept
<1> QED  BY <1>1, <1>5, KeptWaits

LEMMA RingsIn ==
  ASSUME Typed
  PROVE  /\ Rings \subseteq AlarmEntries /\ \A e \in AlarmEntries : e.p \in Procs
         /\ \A h \in Harts : drain[h].at \in Seq(AlarmEntries)
<1>1. \A h \in Harts : drain[h].at \in Seq(AlarmEntries)  BY DEF Typed, Drains
<1>2. \A h \in Harts : Elems(drain[h].at) \subseteq AlarmEntries  BY <1>1, ElemsIn
<1>3. Elems(alarms) \subseteq AlarmEntries  BY ElemsIn DEF Typed
<1>4. \A e \in AlarmEntries : e.p \in Procs  BY DEF AlarmEntries
<1> QED  BY <1>1, <1>2, <1>3, <1>4 DEF Rings, RingsOf

LEMMA AlarmsProc ==
  ASSUME Typed, Alarms, NEW p \in Procs, NEW l, pc' = [pc EXCEPT ![p] = l],
         pc[p] # "add_alarm", l # "add_alarm", l = "alarm" => arg'[p].d > 0,
         \A q \in Procs \ {p} : arg'[q] = arg[q],
         UNCHANGED <<now, alarms, drain, generation, deadline>>
  PROVE  Alarms'
<1>1. pc'[p] = l /\ \A q \in Procs \ {p} : pc'[q] = pc[q]  BY DEF Typed
<1>2. Rings' = Rings /\ Elems(alarms)' = Elems(alarms)  BY DEF Rings
<1>3. \A h \in Harts : Elems(drain[h].at)' = Elems(drain[h].at)  OBVIOUS
<1>4. \A e \in Rings : pc'[e.p] = "add_alarm" => pc[e.p] = "add_alarm"  BY <1>1, RingsIn
<1>5. \A q \in Procs : pc'[q] = "add_alarm" <=> pc[q] = "add_alarm"  BY <1>1
<1>6. \A q \in Procs : pc'[q] = "add_alarm" => arg'[q] = arg[q]  BY <1>1
<1>7. \A q \in Procs : pc'[q] \in {"alarm", "add_alarm"} => arg'[q].d > 0
  BY <1>1 DEF Alarms
<1> QED  BY <1>2, <1>3, <1>4, <1>5, <1>6, <1>7 DEF Alarms

-----------------------------------------------------------------------------
(* Steps of a process that touch little more than where it is.             *)

LEMMA NoRequestIs ==
  ASSUME NEW p \in Procs
  PROVE  NoRequest \in Args
<1>1. (CHOOSE q \in Procs : TRUE) \in Procs  OBVIOUS
<1>2. default_action \in Actions
  BY SMT DEF default_action, Action, Actions, SIG_DFL, SIG_IGN, USER, Sigs
<1>3. SIGKILL \in Sigs /\ {} \subseteq Sigs  BY DEF Sigs
<1> QED  BY SMT, <1>1, <1>2, <1>3 DEF NoRequest, Request, Args, Hows

LEMMA Control ==
  ASSUME SigInv, NEW p \in Procs, NEW l, pc' = [pc EXCEPT ![p] = l],
         pc[p] \notin {"wake", "add_alarm"}, l # "add_alarm", l = "alarm" => arg'[p].d > 0,
         arg' \in [Procs -> Args], \A q \in Procs \ {p} : arg'[q] = arg[q],
         tf' \in [Procs -> Frames], \A q \in Procs : Res(q)', InCall(p)', Waits(p)',
         actions' \in [Procs -> [Sigs -> Actions]],
         UNCHANGED <<plan, now, timers, alarms, drain, killed, pending, blocked, saved,
                     generation, deadline, ready, cooked, edit, readers, uart, main>>
  PROVE  SigInv'
<1>0. Typed /\ Alarms  BY DEF SigInv
<1>1. Typed'
  <2>1. Chars' = Chars /\ DOMAIN pc' = Procs  BY <1>0 DEF Typed, Chars
  <2> QED  BY <1>0, <2>1 DEF Typed
<1>2. Alarms'  BY <1>0, AlarmsProc
<1>3. \A q \in Procs \ {p} : InCall(q)' /\ Waits(q)'  BY OthersWait
<1> QED  BY <1>1, <1>2, <1>3 DEF SigInv

\* Where nobody waits, yet or any more.
LEMMA Calm ==
  ASSUME NEW p, NEW l, pc'[p] = l,
         l \notin {"pause_register", "pause_check", "sleep_check", "add_timer",
                   "console_register", "try_pop", "read_nonblock", "input_wait",
                   "input_register", "parked"}
  PROVE  Waits(p)'
  BY DEF Waits, Past, Parked

LEMMA ResSame ==
  ASSUME \A q \in Procs : Res(q), UNCHANGED <<saved, tf, blocked, main>>
  PROVE  \A q \in Procs : Res(q)'
  BY DEF Res

LEMMA Stays ==
  ASSUME SigInv, NEW p \in Procs, NEW l, Goto(p, l), UNCHANGED <<tf, arg>>,
         pc[p] \notin {"wake", "add_alarm"}, l \notin {"alarm", "add_alarm"},
         pc'[p] = l => InCall(p)' /\ Waits(p)',
         UNCHANGED <<plan, now, timers, alarms, drain, killed, pending, blocked, actions, saved,
                     generation, deadline, ready, cooked, edit, readers, uart, main>>
  PROVE  SigInv'
<1>1. Typed /\ pc' = [pc EXCEPT ![p] = l]  BY DEF SigInv, Goto
<1>2. pc'[p] = l  BY <1>1 DEF Typed
<1>3. /\ arg' \in [Procs -> Args] /\ tf' \in [Procs -> Frames]
      /\ actions' \in [Procs -> [Sigs -> Actions]]
  BY <1>1 DEF Typed
<1>4. \A q \in Procs : Res(q)'  BY ResSame DEF SigInv
<1> QED  BY <1>1, <1>2, <1>3, <1>4, Control

LEMMA ResultIs ==
  ASSUME Typed, NEW p \in Procs, Result(p)
  PROVE  /\ pc' = [pc EXCEPT ![p] = "return"] /\ pc'[p] = "return"
         /\ arg' \in [Procs -> Args] /\ \A q \in Procs \ {p} : arg'[q] = arg[q]
         /\ tf' \in [Procs -> Frames] /\ \A q \in Procs \ {p} : tf'[q] = tf[q]
         /\ tf'[p].at = tf[p].at
         /\ tf[p] = [at |-> MAIN, a0 |-> MAIN] => tf'[p] = tf[p]
         /\ InCall(p)' /\ Waits(p)'
<1>1. /\ pc' = [pc EXCEPT ![p] = "return"] /\ arg' = [arg EXCEPT ![p] = NoRequest]
      /\ tf' = [tf EXCEPT ![p].a0 = tf[p].at]
  BY DEF Result, Goto
<1>2. pc'[p] = "return"  BY <1>1 DEF Typed
<1>3. arg' \in [Procs -> Args] /\ \A q \in Procs \ {p} : arg'[q] = arg[q]
  BY <1>1, NoRequestIs DEF Typed
<1>4. tf[p] \in Frames /\ tf \in [Procs -> Frames]  BY DEF Typed
<1>5. PICK f : f = [tf[p] EXCEPT !.a0 = tf[p].at]  OBVIOUS
<1>6. /\ f \in Frames /\ f.at = tf[p].at
      /\ tf[p] = [at |-> MAIN, a0 |-> MAIN] => f = tf[p]
  BY ONLY SMT, <1>4, <1>5 DEF Frames
<1>7. tf' = [tf EXCEPT ![p] = f]  BY <1>1, <1>5
<1>8. tf' \in [Procs -> Frames] /\ tf'[p] = f /\ \A q \in Procs \ {p} : tf'[q] = tf[q]
  BY <1>4, <1>6, <1>7
<1>9. InCall(p)'  BY <1>2 DEF InCall
<1>10. Waits(p)'  BY <1>2, Calm
<1> QED  BY <1>1, <1>2, <1>3, <1>6, <1>8, <1>9, <1>10

LEMMA ResultRes ==
  ASSUME Typed, \A q \in Procs : Res(q), NEW p \in Procs, Result(p),
         UNCHANGED <<saved, blocked, main>>
  PROVE  \A q \in Procs : Res(q)'
<1>0. /\ \A q \in Procs \ {p} : tf'[q] = tf[q]
      /\ tf'[p].at = tf[p].at
      /\ tf[p] = [at |-> MAIN, a0 |-> MAIN] => tf'[p] = tf[p]
  BY ResultIs
<1>1. Res(p)'
  <2>1. Res(p)  OBVIOUS
  <2> QED  BY ONLY <1>0, <2>1, UNCHANGED <<saved, blocked, main>> DEF Res
<1>2. ASSUME NEW q \in Procs \ {p} PROVE Res(q)'
  <2>1. tf'[q] = tf[q] /\ Res(q)  BY <1>0
  <2> QED  BY ONLY <2>1, UNCHANGED <<saved, blocked, main>> DEF Res
<1> QED  BY <1>1, <1>2

LEMMA Returns ==
  ASSUME SigInv, NEW p \in Procs, Result(p), pc[p] \notin {"wake", "add_alarm"},
         actions' \in [Procs -> [Sigs -> Actions]],
         UNCHANGED <<plan, now, timers, alarms, drain, killed, pending, blocked, saved,
                     generation, deadline, ready, cooked, edit, readers, uart, main>>
  PROVE  SigInv'
<1>1. Typed /\ \A q \in Procs : Res(q)  BY DEF SigInv
<1>2. \A q \in Procs : Res(q)'  BY <1>1, ResultRes
<1> QED  BY <1>1, <1>2, ResultIs, Control

-----------------------------------------------------------------------------
(* The steps of a process.                                                 *)

LEMMA CallInv ==
  ASSUME SigInv, NEW p \in Procs, Call(p), plan' = plan
  PROVE  SigInv'
<1>0. Typed  BY DEF SigInv
<1>1. PICK r \in plan.calls[p] :
        /\ pc[p] = "user" /\ arg' = [arg EXCEPT ![p] = [r EXCEPT !.d = now + r.n]]
        /\ Goto(p, r.call)
        /\ UNCHANGED <<now, timers, alarms, drain, killed, pending, blocked, actions, saved, tf,
                       generation, deadline, ready, cooked, edit, readers, uart, main>>
  BY DEF Call, time, sig, wakers, console
<1>2. r \in Requests  BY <1>0, SignalsAssumption DEF Typed
<1>3. PICK a : a = [r EXCEPT !.d = now + r.n]  OBVIOUS
<1>4. now \in Nat \ {0}  BY <1>0 DEF Typed
<1>5. a \in Args /\ a.call = r.call /\ a.d > 0 /\ r.call \in Calls
  BY ONLY SMT, <1>2, <1>3, <1>4 DEF Requests, Args, Hows
<1>6. arg' \in [Procs -> Args] /\ arg'[p] = a /\ \A q \in Procs \ {p} : arg'[q] = arg[q]
  BY <1>0, <1>1, <1>3, <1>5 DEF Typed
<1>7. pc' = [pc EXCEPT ![p] = r.call] /\ pc'[p] = r.call  BY <1>0, <1>1 DEF Goto, Typed
<1>8. InCall(p)'
  BY <1>5, <1>6, <1>7 DEF InCall, Calls
<1>9. Waits(p)'  BY <1>5, <1>7, Calm DEF Calls
<1>10. \A q \in Procs : Res(q)'  BY <1>1, ResSame DEF SigInv
<1>11. tf' \in [Procs -> Frames] /\ actions' \in [Procs -> [Sigs -> Actions]]  BY <1>0, <1>1 DEF Typed
<1>12. r.call # "add_alarm" /\ pc[p] \notin {"wake", "add_alarm"}  BY <1>1, <1>5 DEF Calls
<1> QED  BY <1>1, <1>5, <1>6, <1>7, <1>8, <1>9, <1>10, <1>11, <1>12, Control

LEMMA ProgramInv ==
  ASSUME SigInv, NEW p \in Procs, HandlerReturn(p) \/ Trap(p) \/ KilledCheck(p), plan' = plan
  PROVE  SigInv'
<1>1. PICK l \in {"sigreturn", "return", "dead", "deliver"} :
        /\ pc[p] \in {"user", "return"} /\ Goto(p, l)
        /\ UNCHANGED <<tf, arg, now, timers, alarms, drain, killed, pending, blocked, actions,
                       saved, generation, deadline, ready, cooked, edit, readers, uart, main>>
  BY DEF HandlerReturn, Trap, KilledCheck, time, sig, wakers, console
<1>2. pc'[p] = l => InCall(p)' /\ Waits(p)'
  <2>1. pc'[p] = l => InCall(p)'  BY DEF InCall
  <2> QED  BY <2>1, Calm
<1> QED  BY <1>1, <1>2, Stays

LEMMA SigactionInv ==
  ASSUME SigInv, NEW p \in Procs, Sigaction(p), plan' = plan
  PROVE  SigInv'
<1>0. Typed  BY DEF SigInv
<1>1. /\ pc[p] = "sigaction" /\ Result(p)
      /\ actions' = IF arg[p].sig = SIGKILL THEN actions
                    ELSE [actions EXCEPT ![p][arg[p].sig] = arg[p].act]
      /\ UNCHANGED <<now, timers, alarms, drain, killed, pending, blocked, saved,
                     generation, deadline, ready, cooked, edit, readers, uart, main>>
  BY DEF Sigaction, time, wakers, console
<1>2. arg[p].sig \in Sigs /\ arg[p].act \in Actions  BY <1>0 DEF Typed, Args
<1>3. actions' \in [Procs -> [Sigs -> Actions]]  BY <1>0, <1>1, <1>2 DEF Typed
<1> QED  BY <1>1, <1>3, Returns

LEMMA EffectIs ==
  ASSUME Typed, NEW q \in Procs, NEW s \in Sigs
  PROVE  Effect(q, s) \in Hows
<1>0. actions \in [Procs -> [Sigs -> Actions]]  BY DEF Typed
<1>1. actions[q][s] \in Actions  BY ONLY SMT, <1>0, q \in Procs, s \in Sigs
<1>2. actions[q][s].handler \in {SIG_DFL, SIG_IGN, USER}  BY <1>1 DEF Actions
<1> QED  BY <1>2 DEF Effect, Hows

LEMMA KillLookInv ==
  ASSUME SigInv, NEW p \in Procs, KillLook(p), plan' = plan
  PROVE  SigInv'
<1>0. Typed  BY DEF SigInv
<1>1. arg[p] \in Args /\ arg[p].who \in Procs /\ arg[p].sig \in Sigs  BY <1>0 DEF Typed, Args
<1>2. PICK how \in Hows : how = Effect(arg[p].who, arg[p].sig)  BY <1>0, <1>1, EffectIs
<1>3. /\ pc[p] = "kill"
      /\ UNCHANGED <<now, timers, alarms, drain, killed, pending, blocked, actions, saved,
                     generation, deadline, ready, cooked, edit, readers, uart, main>>
  BY DEF KillLook, time, sig, wakers, console
<1>4. CASE how = "none"
  <2>1. Result(p)  BY <1>2, <1>4 DEF KillLook
  <2>2. actions' \in [Procs -> [Sigs -> Actions]]  BY <1>0, <1>3 DEF Typed
  <2> QED  BY <1>3, <2>1, <2>2, Returns
<1>5. CASE how # "none"
  <2>1. arg' = [arg EXCEPT ![p].how = how] /\ Goto(p, "mark") /\ tf' = tf
    BY <1>2, <1>5 DEF KillLook
  <2>2. [arg[p] EXCEPT !.how = how] \in Args  BY ONLY SMT, <1>1, how \in Hows DEF Args
  <2>3. arg' \in [Procs -> Args] /\ \A q \in Procs \ {p} : arg'[q] = arg[q]
    BY <1>0, <2>1, <2>2 DEF Typed
  <2>4. pc' = [pc EXCEPT ![p] = "mark"] /\ pc'[p] = "mark"  BY <1>0, <2>1 DEF Goto, Typed
  <2>5. InCall(p)' /\ Waits(p)'
    <3>1. InCall(p)'  BY <2>4 DEF InCall
    <3> QED  BY <2>4, <3>1, Calm
  <2>6. \A q \in Procs : Res(q)'  BY <1>3, <2>1, ResSame DEF SigInv
  <2>7. tf' \in [Procs -> Frames] /\ actions' \in [Procs -> [Sigs -> Actions]]
    BY <1>0, <1>3, <2>1 DEF Typed
  <2> QED  BY <1>3, <2>3, <2>4, <2>5, <2>6, <2>7, Control
<1> QED  BY <1>4, <1>5

\* The start of a poll.
LEMMA PolledInv ==
  ASSUME SigInv, NEW p \in Procs, NEW call, NEW next, Polled(p, call, next), plan' = plan,
         \/ call = "pause" /\ next = "pause_register"
         \/ call = "sleep" /\ next = "sleep_check"
         \/ call = "console_read" /\ next = "console_register"
         \/ call = "input_read" /\ next = "read_nonblock"
  PROVE  SigInv'
<1>0. Typed /\ InCall(p)  BY DEF SigInv
<1>1. /\ pc[p] = call
      /\ IF killed[p] THEN Result(p) ELSE Stay(p, next)
      /\ UNCHANGED <<now, timers, alarms, drain, killed, pending, blocked, actions, saved,
                     generation, deadline, ready, cooked, edit, readers, uart, main>>
  BY DEF Polled, time, sig, wakers, console
<1>2. CASE killed[p]
  <2>1. actions' \in [Procs -> [Sigs -> Actions]]  BY <1>0, <1>1 DEF Typed
  <2> QED  BY <1>1, <1>2, <2>1, Returns
<1>3. CASE ~killed[p]
  <2>1. Goto(p, next) /\ UNCHANGED <<tf, arg>>  BY <1>1, <1>3 DEF Stay
  <2>2. ASSUME pc'[p] = next PROVE InCall(p)' /\ Waits(p)'
    <3>1. InCall(p)'  BY <1>0, <1>1, <2>1, <2>2 DEF InCall
    <3>2. ~killed'[p] /\ pc'[p] \notin {"try_pop", "parked"}  BY <1>1, <1>3, <2>2
    <3> QED  BY <3>1, <3>2 DEF Waits, Parked
  <2> QED  BY <1>1, <2>1, <2>2, Stays
<1> QED  BY <1>2, <1>3

\* On the way to being parked.
LEMMA StillComing ==
  ASSUME SigInv, NEW p \in Procs, NEW l, Goto(p, l), Past(p),
         UNCHANGED <<arg, killed, drain, ready>>
  PROVE  killed'[p] => Coming(p)'
<1>1. Typed /\ (killed[p] => Coming(p))  BY DEF SigInv, Waits
<1>2. pc[p] # "wake"  BY DEF Past
<1> QED  BY <1>1, <1>2, ComingProc DEF Goto

LEMMA PauseInv ==
  ASSUME SigInv, NEW p \in Procs, PauseRegister(p) \/ PauseCheck(p), plan' = plan
  PROVE  SigInv'
<1>0. Typed /\ InCall(p)  BY DEF SigInv
<1>1. /\ pc[p] \in {"pause_register", "pause_check"}
      /\ UNCHANGED <<now, timers, alarms, drain, killed, pending, blocked, actions, saved,
                     generation, deadline, ready, cooked, edit, readers, uart, main>>
      /\ \/ pc[p] = "pause_register" /\ Goto(p, "pause_check") /\ UNCHANGED <<tf, arg>>
         \/ Result(p)
         \/ Deliverable(p) = {} /\ Goto(p, "parked") /\ UNCHANGED <<tf, arg>>
  BY DEF PauseRegister, PauseCheck, Stay, time, sig, wakers, console
<1>2. arg[p].call = "pause" /\ Past(p)  BY <1>0, <1>1 DEF InCall, Past
<1>3. CASE Result(p)
  <2>1. actions' \in [Procs -> [Sigs -> Actions]]  BY <1>0, <1>1 DEF Typed
  <2> QED  BY <1>1, <1>3, <2>1, Returns
<1>4. CASE Goto(p, "pause_check") /\ UNCHANGED <<tf, arg>>
  <2>1. ASSUME pc'[p] = "pause_check" PROVE InCall(p)' /\ Waits(p)'
    <3>1. InCall(p)'  BY <1>2, <1>4, <2>1 DEF InCall
    <3>2. killed'[p] => Coming(p)'  BY <1>1, <1>2, <1>4, StillComing
    <3> QED  BY <2>1, <3>1, <3>2 DEF Waits, Parked
  <2> QED  BY <1>1, <1>4, <2>1, Stays
<1>5. CASE Deliverable(p) = {} /\ Goto(p, "parked") /\ UNCHANGED <<tf, arg>>
  <2>1. ASSUME pc'[p] = "parked" PROVE InCall(p)' /\ Waits(p)'
    <3>1. InCall(p)'  BY <1>2, <1>5, <2>1 DEF InCall
    <3>2. killed'[p] => Coming(p)'  BY <1>1, <1>2, <1>5, StillComing
    <3>3. arg'[p].call = "pause" /\ Deliverable(p)' = {}
      BY <1>1, <1>2, <1>5 DEF Deliverable
    <3> QED  BY <2>1, <3>1, <3>2, <3>3 DEF Waits, Parked
  <2> QED  BY <1>1, <1>5, <2>1, Stays
<1> QED  BY <1>1, <1>3, <1>4, <1>5

LEMMA SleepCheckInv ==
  ASSUME SigInv, NEW p \in Procs, SleepCheck(p), plan' = plan
  PROVE  SigInv'
<1>0. Typed /\ InCall(p)  BY DEF SigInv
<1>1. /\ pc[p] = "sleep_check"
      /\ Result(p) \/ Stay(p, "add_timer")
      /\ UNCHANGED <<now, timers, alarms, drain, killed, pending, blocked, actions, saved,
                     generation, deadline, ready, cooked, edit, readers, uart, main>>
  BY DEF SleepCheck, time, sig, wakers, console
<1>2. arg[p].call = "sleep" /\ Past(p)  BY <1>0, <1>1 DEF InCall, Past
<1>3. CASE Result(p)
  <2>1. actions' \in [Procs -> [Sigs -> Actions]]  BY <1>0, <1>1 DEF Typed
  <2> QED  BY <1>1, <1>3, <2>1, Returns
<1>4. CASE Stay(p, "add_timer")
  <2>0. Goto(p, "add_timer") /\ UNCHANGED <<tf, arg>>  BY <1>4 DEF Stay
  <2>1. ASSUME pc'[p] = "add_timer" PROVE InCall(p)' /\ Waits(p)'
    <3>1. InCall(p)'  BY <1>2, <2>0, <2>1 DEF InCall
    <3>2. killed'[p] => Coming(p)'  BY <1>1, <1>2, <2>0, StillComing
    <3> QED  BY <2>1, <3>1, <3>2 DEF Waits, Parked
  <2> QED  BY <1>1, <2>0, <2>1, Stays
<1> QED  BY <1>1, <1>3, <1>4

LEMMA NonblockInv ==
  ASSUME SigInv, NEW p \in Procs, ConsoleNonblock(p), plan' = plan
  PROVE  SigInv'
<1>0. InCall(p)  BY DEF SigInv
<1>1. /\ pc[p] = "console_read" /\ arg[p].nonblock /\ Goto(p, "try_pop")
      /\ UNCHANGED <<tf, arg, now, timers, alarms, drain, killed, pending, blocked, actions,
                     saved, generation, deadline, ready, cooked, edit, readers, uart, main>>
  BY DEF ConsoleNonblock, time, sig, wakers, console
<1>2. ASSUME pc'[p] = "try_pop" PROVE InCall(p)' /\ Waits(p)'
  <2>1. arg'[p].nonblock /\ arg'[p].call = "console_read"  BY <1>0, <1>1 DEF InCall
  <2> QED  BY <1>2, <2>1 DEF InCall, Waits, Past, Parked
<1> QED  BY <1>1, <1>2, Stays

LEMMA InputInv ==
  ASSUME SigInv, NEW p \in Procs, ReadNonblock(p) \/ InputWait(p) \/ InputRegister(p),
         plan' = plan
  PROVE  SigInv'
<1>0. Typed /\ InCall(p)  BY DEF SigInv
<1>1. PICK l \in {"input_wait", "input_read", "input_register", "parked"} :
        /\ pc[p] \in {"read_nonblock", "input_wait", "input_register"}
        /\ Result(p) \/ Stay(p, l)
        /\ UNCHANGED <<now, timers, alarms, drain, killed, pending, blocked, actions, saved,
                       generation, deadline, ready, cooked, edit, readers, uart, main>>
  BY DEF ReadNonblock, InputWait, InputRegister, Stay, time, sig, wakers, console
<1>2. arg[p].call = "input_read" /\ Past(p)  BY <1>0, <1>1 DEF InCall, Past
<1>3. CASE Result(p)
  <2>1. actions' \in [Procs -> [Sigs -> Actions]]  BY <1>0, <1>1 DEF Typed
  <2> QED  BY <1>1, <1>3, <2>1, Returns
<1>4. CASE Stay(p, l)
  <2>0. Goto(p, l) /\ UNCHANGED <<tf, arg>>  BY <1>4 DEF Stay
  <2>1. ASSUME pc'[p] = l PROVE InCall(p)' /\ Waits(p)'
    <3>1. InCall(p)'  BY <1>2, <2>0, <2>1 DEF InCall
    <3>2. killed'[p] => Coming(p)'  BY <1>1, <1>2, <2>0, StillComing
    <3>3. pc'[p] # "try_pop" /\ arg'[p].call = "input_read"  BY <1>2, <2>0, <2>1
    <3> QED  BY <3>1, <3>2, <3>3 DEF Waits, Parked
  <2> QED  BY <1>1, <2>0, <2>1, Stays
<1> QED  BY <1>1, <1>3, <1>4

\* Steps with signals of one's own.
LEMMA Alone ==
  ASSUME SigInv, NEW p \in Procs, NEW l \in {"user", "return"}, pc' = [pc EXCEPT ![p] = l],
         pc[p] \notin {"wake", "add_alarm"},
         arg' \in [Procs -> Args], tf' \in [Procs -> Frames], saved' \in [Procs -> Saved],
         pending' \in [Procs -> SUBSET Sigs], blocked' \in [Procs -> SUBSET Sigs],
         main' \in [Procs -> SUBSET Sigs],
         actions' \in [Procs -> [Sigs -> Actions]],
         \A q \in Procs \ {p} : arg'[q] = arg[q] /\ pending'[q] = pending[q] /\ blocked'[q] = blocked[q],
         \A q \in Procs : Res(q)',
         UNCHANGED <<plan, now, timers, alarms, drain, killed, generation, deadline, ready,
                     cooked, edit, readers, uart>>
  PROVE  SigInv'
<1>0. Typed /\ Alarms  BY DEF SigInv
<1>1. Typed'
  <2>1. Chars' = Chars /\ DOMAIN pc' = Procs  BY <1>0 DEF Typed, Chars
  <2> QED  BY <1>0, <2>1 DEF Typed
<1>2. Alarms'  BY <1>0, AlarmsProc
<1>3. \A q \in Procs \ {p} : InCall(q)' /\ Waits(q)'  BY OthersWait
<1>4. pc'[p] = l  BY <1>0 DEF Typed
<1>5. InCall(p)'  BY <1>4 DEF InCall
<1>6. Waits(p)'  BY <1>4, Calm
<1> QED  BY <1>1, <1>2, <1>3, <1>5, <1>6 DEF SigInv

LEMMA LeastSig ==
  ASSUME NEW D \in SUBSET Sigs, D # {}
  PROVE  (CHOOSE s \in D : \A x \in D : s <= x) \in D
<1>1. D \in SUBSET Nat  BY SMT DEF Sigs, SIGKILL, SIGUSR1, SIGALRM, SIGCHLD
<1> QED  BY <1>1, LeastIn

LEMMA DeliverInv ==
  ASSUME SigInv, NEW p \in Procs, Deliver(p), plan' = plan
  PROVE  SigInv'
<1>0. Typed /\ \A q \in Procs : Res(q)  BY DEF SigInv
<1>1. PICK s : s = CHOOSE y \in Deliverable(p) : \A x \in Deliverable(p) : y <= x  OBVIOUS
<1>2. /\ pc[p] = "deliver" /\ pc' = [pc EXCEPT ![p] = "user"]
      /\ UNCHANGED <<now, timers, alarms, drain, killed, actions, generation, deadline, arg, ready,
                     cooked, edit, readers, uart, main>>
  BY DEF Deliver, Goto, time, wakers, console
<1>3. /\ arg' \in [Procs -> Args] /\ main' \in [Procs -> SUBSET Sigs]
      /\ actions' \in [Procs -> [Sigs -> Actions]]
  BY <1>0, <1>2 DEF Typed
<1>4. /\ pending \in [Procs -> SUBSET Sigs] /\ blocked \in [Procs -> SUBSET Sigs]
      /\ saved \in [Procs -> Saved] /\ tf \in [Procs -> Frames]
  BY <1>0 DEF Typed
<1>5. CASE UNCHANGED <<pending, saved, blocked, tf>>
  <2>1. \A q \in Procs : Res(q)'  BY <1>0, <1>2, <1>5, ResSame
  <2> QED  BY <1>2, <1>3, <1>4, <1>5, <2>1, Alone
<1>6. CASE pending' = [pending EXCEPT ![p] = @ \ {s}] /\ UNCHANGED <<saved, blocked, tf>>
  <2>1. \A q \in Procs : Res(q)'  BY <1>0, <1>2, <1>6, ResSame
  <2>2. pending' \in [Procs -> SUBSET Sigs] /\ \A q \in Procs \ {p} : pending'[q] = pending[q]
    BY <1>4, <1>6
  <2> QED  BY <1>2, <1>3, <1>4, <1>6, <2>1, <2>2, Alone
<1>7. CASE /\ ~InFlight(p) /\ Deliverable(p) # {}
           /\ pending' = [pending EXCEPT ![p] = @ \ {s}]
           /\ saved' = [saved EXCEPT ![p] = [tf |-> tf[p], blocked |-> blocked[p], some |-> TRUE]]
           /\ blocked' = [blocked EXCEPT ![p] = @ \cup actions[p][s].mask \cup {s}]
           /\ tf' = [tf EXCEPT ![p] = [at |-> s, a0 |-> s]]
  <2>1. s \in Sigs
    <3>1. Deliverable(p) \in SUBSET Sigs  BY <1>4 DEF Deliverable
    <3>2. s \in Deliverable(p)  BY <1>1, <1>7, <3>1, LeastSig
    <3> QED  BY <3>1, <3>2
  <2>2. pending' \in [Procs -> SUBSET Sigs] /\ \A q \in Procs \ {p} : pending'[q] = pending[q]
    BY <1>4, <1>7
  <2>3. blocked' \in [Procs -> SUBSET Sigs] /\ \A q \in Procs \ {p} : blocked'[q] = blocked[q]
    <3>1. actions[p][s] \in Actions
      <4>1. actions \in [Procs -> [Sigs -> Actions]]  BY <1>0 DEF Typed
      <4> QED  BY ONLY SMT, <2>1, <4>1, p \in Procs
    <3>2. actions[p][s].mask \subseteq Sigs  BY <3>1 DEF Actions
    <3> QED  BY <1>4, <1>7, <2>1, <3>2
  <2>4. PICK f : f = [tf |-> tf[p], blocked |-> blocked[p], some |-> TRUE]  OBVIOUS
  <2>5. f \in Saved /\ f.some /\ f.tf = tf[p] /\ f.blocked = blocked[p]
    <3>1. tf[p] \in Frames /\ blocked[p] \in SUBSET Sigs  BY <1>4
    <3> QED  BY ONLY SMT, <2>4, <3>1 DEF Saved
  <2>6. PICK t : t = [at |-> s, a0 |-> s]  OBVIOUS
  <2>7. t \in Frames /\ t.at # MAIN
    BY SMT, <2>1, <2>6 DEF Frames, MAIN, Sigs, SIGKILL, SIGUSR1, SIGALRM, SIGCHLD
  <2>8. saved' \in [Procs -> Saved] /\ saved'[p] = f /\ \A q \in Procs \ {p} : saved'[q] = saved[q]
    BY <1>4, <1>7, <2>4, <2>5
  <2>9. tf' \in [Procs -> Frames] /\ tf'[p] = t /\ \A q \in Procs \ {p} : tf'[q] = tf[q]
    BY <1>4, <1>7, <2>6, <2>7
  <2>10. Res(p)'
    <3>1. tf[p] = [at |-> MAIN, a0 |-> MAIN] /\ blocked[p] = main[p]
      BY <1>0, <1>7 DEF InFlight, Res
    <3> QED  BY <1>2, <2>5, <2>7, <2>8, <2>9, <3>1 DEF Res
  <2>11. ASSUME NEW q \in Procs \ {p} PROVE Res(q)'
    <3>1. /\ saved'[q] = saved[q] /\ tf'[q] = tf[q] /\ blocked'[q] = blocked[q] /\ main' = main
          /\ Res(q)
      BY <1>0, <1>2, <2>3, <2>8, <2>9
    <3> QED  BY ONLY <3>1 DEF Res
  <2>12. \A q \in Procs : Res(q)'  BY <2>10, <2>11
  <2> QED  BY <1>2, <1>3, <2>2, <2>3, <2>8, <2>9, <2>12, Alone
<1> QED  BY <1>1, <1>5, <1>6, <1>7 DEF Deliver

LEMMA SigprocmaskInv ==
  ASSUME SigInv, NEW p \in Procs, Sigprocmask(p), plan' = plan
  PROVE  SigInv'
<1>0. Typed /\ \A q \in Procs : Res(q)  BY DEF SigInv
<1>1. PICK new : new = arg[p].set \ {SIGKILL}  OBVIOUS
<1>2. /\ pc[p] = "sigprocmask" /\ Result(p)
      /\ blocked' = [blocked EXCEPT ![p] = new]
      /\ main' = IF tf[p].at = MAIN THEN [main EXCEPT ![p] = new] ELSE main
      /\ UNCHANGED <<now, timers, alarms, drain, killed, pending, actions, saved, generation,
                     deadline, ready, cooked, edit, readers, uart>>
  BY <1>1 DEF Sigprocmask, time, wakers, console
<1>3. arg[p] \in Args /\ blocked \in [Procs -> SUBSET Sigs] /\ main \in [Procs -> SUBSET Sigs]
  BY <1>0 DEF Typed
<1>4. new \in SUBSET Sigs  BY <1>1, <1>3 DEF Args
<1>5. /\ blocked' \in [Procs -> SUBSET Sigs] /\ blocked'[p] = new
      /\ \A q \in Procs \ {p} : blocked'[q] = blocked[q]
  BY <1>2, <1>3, <1>4
<1>6. /\ main' \in [Procs -> SUBSET Sigs] /\ main'[p] = IF tf[p].at = MAIN THEN new ELSE main[p]
      /\ \A q \in Procs \ {p} : main'[q] = main[q]
  BY <1>2, <1>3, <1>4
<1>7. /\ pending' \in [Procs -> SUBSET Sigs] /\ saved' \in [Procs -> Saved]
      /\ actions' \in [Procs -> [Sigs -> Actions]]
  BY <1>0, <1>2 DEF Typed
<1>8. /\ pc' = [pc EXCEPT ![p] = "return"]
      /\ arg' \in [Procs -> Args] /\ \A q \in Procs \ {p} : arg'[q] = arg[q]
      /\ tf' \in [Procs -> Frames] /\ \A q \in Procs \ {p} : tf'[q] = tf[q]
      /\ tf'[p].at = tf[p].at
      /\ tf[p] = [at |-> MAIN, a0 |-> MAIN] => tf'[p] = tf[p]
  BY <1>0, <1>2, ResultIs
<1>9. ASSUME NEW q \in Procs PROVE Res(q)'
  <2>1. CASE q # p
    <3>1. /\ saved' = saved /\ tf'[q] = tf[q] /\ blocked'[q] = blocked[q] /\ main'[q] = main[q]
          /\ Res(q)
      BY <1>0, <1>2, <1>5, <1>6, <1>8, <2>1
    <3> QED  BY ONLY <3>1 DEF Res
  <2>2. CASE q = p /\ saved[p].some
    <3>1. saved' = saved /\ tf[p].at # MAIN /\ main'[p] = main[p] /\ Res(p)
      BY <1>0, <1>2, <1>6, <2>2 DEF Res
    <3> QED  BY <1>8, <2>2, <3>1 DEF Res
  <2>3. CASE q = p /\ ~saved[p].some
    <3>1. tf[p] = [at |-> MAIN, a0 |-> MAIN]  BY <1>0, <2>3 DEF Res
    <3>2. tf[p].at = MAIN  BY SMT, <3>1
    <3>3. main'[p] = blocked'[p] /\ tf'[p] = tf[p]  BY <1>5, <1>6, <1>8, <3>1, <3>2
    <3> QED  BY <1>2, <2>3, <3>1, <3>3 DEF Res
  <2> QED  BY <2>1, <2>2, <2>3
<1> QED  BY <1>2, <1>5, <1>6, <1>7, <1>8, <1>9, Alone

LEMMA NoFrameIs == NoFrame \in Saved /\ ~NoFrame.some
  BY SMT DEF NoFrame, Saved, Frames

LEMMA SigreturnInv ==
  ASSUME SigInv, NEW p \in Procs, Sigreturn(p), plan' = plan
  PROVE  SigInv'
<1>0. Typed /\ \A q \in Procs : Res(q)  BY DEF SigInv
<1>1. /\ pc[p] = "sigreturn"
      /\ UNCHANGED <<now, timers, alarms, drain, killed, pending, actions, generation,
                     deadline, ready, cooked, edit, readers, uart, main>>
  BY DEF Sigreturn, time, wakers, console
<1>2. /\ actions' \in [Procs -> [Sigs -> Actions]] /\ main' \in [Procs -> SUBSET Sigs]
      /\ pending' \in [Procs -> SUBSET Sigs]
  BY <1>0, <1>1 DEF Typed
<1>3. CASE saved[p].some
  <2>1. /\ tf' = [tf EXCEPT ![p] = saved[p].tf]
        /\ blocked' = [blocked EXCEPT ![p] = saved[p].blocked]
        /\ saved' = [saved EXCEPT ![p] = NoFrame]
        /\ pc' = [pc EXCEPT ![p] = "return"] /\ arg' = arg
    BY <1>3 DEF Sigreturn, Goto
  <2>2. /\ saved \in [Procs -> Saved] /\ tf \in [Procs -> Frames]
        /\ blocked \in [Procs -> SUBSET Sigs] /\ arg' \in [Procs -> Args]
    BY <1>0, <2>1 DEF Typed
  <2>3. saved[p].tf \in Frames /\ saved[p].blocked \in SUBSET Sigs  BY <2>2 DEF Saved
  <2>4. tf' \in [Procs -> Frames] /\ tf'[p] = saved[p].tf /\ \A q \in Procs \ {p} : tf'[q] = tf[q]
    BY <2>1, <2>2, <2>3
  <2>5. /\ blocked' \in [Procs -> SUBSET Sigs] /\ blocked'[p] = saved[p].blocked
        /\ \A q \in Procs \ {p} : blocked'[q] = blocked[q]
    BY <2>1, <2>2, <2>3
  <2>6. saved' \in [Procs -> Saved] /\ ~saved'[p].some /\ \A q \in Procs \ {p} : saved'[q] = saved[q]
    BY <2>1, <2>2, NoFrameIs
  <2>7. Res(p)'
    <3>1. saved[p].tf = [at |-> MAIN, a0 |-> MAIN] /\ saved[p].blocked = main[p]
      BY <1>0, <1>3 DEF Res
    <3> QED  BY <1>1, <2>4, <2>5, <2>6, <3>1 DEF Res
  <2>8. \A q \in Procs \ {p} : Res(q)'
    <3> SUFFICES ASSUME NEW q \in Procs \ {p} PROVE Res(q)'
      OBVIOUS
    <3>1. /\ saved'[q] = saved[q] /\ tf'[q] = tf[q] /\ blocked'[q] = blocked[q] /\ main' = main
          /\ Res(q)
      BY <1>0, <1>1, <2>4, <2>5, <2>6
    <3> QED  BY ONLY <3>1 DEF Res
  <2>9. \A q \in Procs : Res(q)'  BY <2>7, <2>8
  <2>10. \A q \in Procs \ {p} :
           arg'[q] = arg[q] /\ pending'[q] = pending[q] /\ blocked'[q] = blocked[q]
    BY <1>1, <2>1, <2>5
  <2>11. pc[p] \notin {"wake", "add_alarm"}  BY <1>1
  <2> QED  BY <1>1, <1>2, <2>1, <2>2, <2>4, <2>5, <2>6, <2>9, <2>10, <2>11, Alone
<1>4. CASE ~saved[p].some
  <2>1. Result(p) /\ UNCHANGED <<blocked, saved>>  BY <1>4 DEF Sigreturn
  <2> QED  BY <1>1, <1>2, <2>1, Returns
<1> QED  BY <1>3, <1>4

LEMMA ExecInv ==
  ASSUME SigInv, NEW p \in Procs, Exec(p), plan' = plan
  PROVE  SigInv'
<1>0. Typed /\ \A q \in Procs : Res(q)  BY DEF SigInv
<1>1. PICK a : a = [s \in Sigs |-> default_action]  OBVIOUS
<1>2. PICK f : f = [at |-> MAIN, a0 |-> MAIN]  OBVIOUS
<1>3. /\ pc[p] = "exec" /\ pc' = [pc EXCEPT ![p] = "return"]
      /\ actions' = [actions EXCEPT ![p] = a]
      /\ saved' = [saved EXCEPT ![p] = NoFrame]
      /\ tf' = [tf EXCEPT ![p] = f]
      /\ main' = [main EXCEPT ![p] = blocked[p]]
      /\ arg' = [arg EXCEPT ![p] = NoRequest]
      /\ UNCHANGED <<now, timers, alarms, drain, killed, pending, blocked, generation,
                     deadline, ready, cooked, edit, readers, uart>>
  BY <1>1, <1>2 DEF Exec, Goto, time, wakers, console
<1>4. a \in [Sigs -> Actions] /\ f \in Frames /\ NoRequest \in Args
  <2>1. default_action \in Actions
    BY SMT DEF default_action, Action, Actions, SIG_DFL, SIG_IGN, USER, Sigs
  <2>2. f \in Frames  BY SMT, <1>2 DEF Frames
  <2> QED  BY <1>1, <2>1, <2>2, NoRequestIs
<1>5. /\ actions \in [Procs -> [Sigs -> Actions]] /\ saved \in [Procs -> Saved]
      /\ tf \in [Procs -> Frames] /\ main \in [Procs -> SUBSET Sigs]
      /\ arg \in [Procs -> Args] /\ blocked \in [Procs -> SUBSET Sigs]
      /\ pending \in [Procs -> SUBSET Sigs]
  BY <1>0 DEF Typed
<1>6. actions' \in [Procs -> [Sigs -> Actions]]  BY <1>3, <1>4, <1>5
<1>7. saved' \in [Procs -> Saved] /\ ~saved'[p].some /\ \A q \in Procs \ {p} : saved'[q] = saved[q]
  BY <1>3, <1>5, NoFrameIs
<1>8. tf' \in [Procs -> Frames] /\ tf'[p] = f /\ \A q \in Procs \ {p} : tf'[q] = tf[q]
  BY <1>3, <1>4, <1>5
<1>9. main' \in [Procs -> SUBSET Sigs] /\ main'[p] = blocked[p] /\ \A q \in Procs \ {p} : main'[q] = main[q]
  BY <1>3, <1>5
<1>10. arg' \in [Procs -> Args] /\ \A q \in Procs \ {p} : arg'[q] = arg[q]
  BY <1>3, <1>4, <1>5
<1>11. Res(p)'  BY <1>2, <1>3, <1>7, <1>8, <1>9 DEF Res
<1>12. \A q \in Procs \ {p} : Res(q)'
  <2> SUFFICES ASSUME NEW q \in Procs \ {p} PROVE Res(q)'
    OBVIOUS
  <2>1. /\ saved'[q] = saved[q] /\ tf'[q] = tf[q] /\ blocked' = blocked /\ main'[q] = main[q]
        /\ Res(q)
    BY <1>0, <1>3, <1>7, <1>8, <1>9
  <2> QED  BY ONLY <2>1 DEF Res
<1>13. \A q \in Procs : Res(q)'  BY <1>11, <1>12
<1>14. \A q \in Procs \ {p} :
         arg'[q] = arg[q] /\ pending'[q] = pending[q] /\ blocked'[q] = blocked[q]
  BY <1>3, <1>10
<1>15. pc[p] \notin {"wake", "add_alarm"}  BY <1>3
<1>16. pending' \in [Procs -> SUBSET Sigs] /\ blocked' \in [Procs -> SUBSET Sigs]  BY <1>3, <1>5
<1> QED  BY <1>3, <1>6, <1>7, <1>8, <1>9, <1>10, <1>13, <1>14, <1>15, <1>16, Alone

-----------------------------------------------------------------------------
(* kill.                                                                   *)

LEMMA Conclude ==
  ASSUME SigInv, Typed', Alarms', \A q \in Procs : Res(q)',
         \A q \in Procs : Kept(q) \/ (InCall(q)' /\ Waits(q)')
  PROVE  SigInv'
<1>1. \A q \in Procs : InCall(q)' /\ Waits(q)'  BY KeptWaits DEF SigInv
<1> QED  BY <1>1 DEF SigInv

LEMMA MarkIs ==
  ASSUME Typed, NEW q \in Procs, NEW s \in Sigs, NEW how, Mark(q, s, how)
  PROVE  /\ killed' \in [Procs -> BOOLEAN] /\ pending' \in [Procs -> SUBSET Sigs]
         /\ \A r \in Procs \ {q} : killed'[r] = killed[r] /\ pending'[r] = pending[r]
<1>1. killed \in [Procs -> BOOLEAN] /\ pending \in [Procs -> SUBSET Sigs]  BY DEF Typed
<1>2. killed' = killed \/ killed' = [killed EXCEPT ![q] = TRUE]  BY DEF Mark
<1>3. pending' = pending \/ pending' = [pending EXCEPT ![q] = @ \cup {s}]  BY DEF Mark
<1>4. killed' \in [Procs -> BOOLEAN] /\ \A r \in Procs \ {q} : killed'[r] = killed[r]
  BY <1>1, <1>2
<1>5. pending' \in [Procs -> SUBSET Sigs] /\ \A r \in Procs \ {q} : pending'[r] = pending[r]
  BY <1>1, <1>3
<1> QED  BY <1>4, <1>5

LEMMA KillMarkInv ==
  ASSUME SigInv, NEW p \in Procs, KillMark(p), plan' = plan
  PROVE  SigInv'
<1>0. Typed /\ Alarms /\ \A q \in Procs : Res(q)  BY DEF SigInv
<1>1. /\ pc[p] = "mark" /\ pc' = [pc EXCEPT ![p] = "wake"]
      /\ Mark(arg[p].who, arg[p].sig, arg[p].how)
      /\ UNCHANGED <<now, timers, alarms, drain, blocked, actions, saved, generation, deadline,
                     tf, arg, ready, cooked, edit, readers, uart, main>>
  BY DEF KillMark, Goto, time, wakers, console
<1>2. PICK w \in Procs : w = arg[p].who /\ arg[p].sig \in Sigs  BY <1>0 DEF Typed, Args
<1>3. /\ killed' \in [Procs -> BOOLEAN] /\ pending' \in [Procs -> SUBSET Sigs]
      /\ \A r \in Procs \ {w} : killed'[r] = killed[r] /\ pending'[r] = pending[r]
  BY <1>0, <1>1, <1>2, MarkIs
<1>4. pc'[p] = "wake" /\ \A q \in Procs \ {p} : pc'[q] = pc[q]  BY <1>0, <1>1 DEF Typed
<1>5. Typed'
  <2>1. Chars' = Chars /\ DOMAIN pc' = Procs  BY <1>0, <1>1 DEF Typed, Chars
  <2> QED  BY <1>0, <1>1, <1>3, <2>1 DEF Typed
<1>6. Alarms'  BY <1>0, <1>1, AlarmsProc
<1>7. \A q \in Procs : Res(q)'  BY <1>0, <1>1, ResSame
<1>8. Coming(w)'  BY <1>1, <1>2, <1>4 DEF Coming
<1>9. InCall(p)' /\ Waits(p)'
  <2>1. InCall(p)'  BY <1>4 DEF InCall
  <2> QED  BY <1>4, <2>1, Calm
<1>10. ASSUME NEW q \in Procs \ {p} PROVE Kept(q)
  <2>1. Coming(q) => Coming(q)'  BY <1>0, <1>1, ComingProc
  <2>2. OnlyEof => OnlyEof'  BY <1>1 DEF OnlyEof
  <2>3. killed'[q] = killed[q] \/ Coming(q)'  BY <1>3, <1>8
  <2>4. pending'[q] \subseteq pending[q] \/ Coming(q)'  BY <1>3, <1>8
  <2> QED  BY <1>1, <1>4, <2>1, <2>2, <2>3, <2>4 DEF Kept
<1> QED  BY <1>5, <1>6, <1>7, <1>9, <1>10, Conclude

LEMMA KillWakeInv ==
  ASSUME SigInv, NEW p \in Procs, KillWake(p), plan' = plan
  PROVE  SigInv'
<1>0. Typed /\ Alarms /\ \A q \in Procs : Res(q)  BY DEF SigInv
<1>1. /\ pc[p] = "wake" /\ Result(p) /\ readers' = {}
      /\ ready' = ready \cup {arg[p].who} \cup readers
      /\ UNCHANGED <<now, timers, alarms, drain, killed, pending, blocked, actions, saved,
                     generation, deadline, cooked, edit, uart, main>>
  BY DEF KillWake, Wakes, time, sig
<1>2. /\ pc' = [pc EXCEPT ![p] = "return"] /\ pc'[p] = "return"
      /\ arg' \in [Procs -> Args] /\ \A q \in Procs \ {p} : arg'[q] = arg[q]
      /\ tf' \in [Procs -> Frames] /\ InCall(p)' /\ Waits(p)'
  BY <1>0, <1>1, ResultIs
<1>3. \A q \in Procs \ {p} : pc'[q] = pc[q]  BY <1>0, <1>2 DEF Typed
<1>4. Typed'
  <2>1. Chars' = Chars /\ DOMAIN pc' = Procs  BY <1>0, <1>2 DEF Typed, Chars
  <2> QED  BY <1>0, <1>1, <1>2, <2>1 DEF Typed
<1>5. Alarms'  BY <1>0, <1>1, <1>2, AlarmsProc
<1>6. \A q \in Procs : Res(q)'  BY <1>0, <1>1, ResultRes
<1>7. ASSUME NEW q \in Procs \ {p} PROVE Kept(q)
  <2>1. Coming(q) => Coming(q)'
    <3>1. CASE q \in ready  BY <1>1, <3>1 DEF Coming
    <3>2. CASE \E r \in Procs : pc[r] = "wake" /\ arg[r].who = q
      <4>1. PICK r \in Procs : pc[r] = "wake" /\ arg[r].who = q  BY <3>2
      <4>2. CASE r = p  BY <1>1, <4>1, <4>2 DEF Coming
      <4>3. CASE r # p  BY <1>2, <1>3, <4>1, <4>3 DEF Coming
      <4> QED  BY <4>2, <4>3
    <3>3. CASE \E h \in Harts : drain[h].s = "wake" /\ Head(drain[h].at).p = q
      BY <1>1, <3>3 DEF Coming
    <3> QED  BY <3>1, <3>2, <3>3 DEF Coming
  <2>2. OnlyEof => OnlyEof'  BY <1>1 DEF OnlyEof
  <2>3. Elems(timers') = Elems(timers)  BY <1>1
  <2> QED  BY <1>1, <1>2, <1>3, <2>1, <2>2, <2>3 DEF Kept
<1> QED  BY <1>2, <1>4, <1>5, <1>6, <1>7, Conclude

-----------------------------------------------------------------------------
(* alarm, timers and the console.                                          *)

\* A step of p that leaves the others as they are, or better off.
LEMMA OthersGo ==
  ASSUME SigInv, NEW p \in Procs, NEW l, pc' = [pc EXCEPT ![p] = l], pc[p] # "wake",
         \A q \in Procs \ {p} : arg'[q] = arg[q],
         UNCHANGED <<drain, killed, pending, blocked, uart>>,
         ready \ {p} \subseteq ready', readers \subseteq readers',
         Elems(timers) \subseteq Elems(timers'), OnlyEof => OnlyEof'
  PROVE  \A q \in Procs \ {p} : Kept(q)
<1> SUFFICES ASSUME NEW q \in Procs \ {p} PROVE Kept(q)
  OBVIOUS
<1>1. Typed /\ \A r \in Procs \ {p} : pc'[r] = pc[r]  BY DEF SigInv, Typed
<1>2. \A r \in Procs : pc[r] = "wake" => pc'[r] = "wake" /\ arg'[r] = arg[r]  BY <1>1
<1>3. Coming(q) => Coming(q)'  BY <1>2 DEF Coming
<1> QED  BY <1>1, <1>3 DEF Kept

LEMMA AlarmInv ==
  ASSUME SigInv, NEW p \in Procs, Alarm(p), plan' = plan
  PROVE  SigInv'
<1>0. Typed /\ Alarms /\ \A q \in Procs : Res(q)  BY DEF SigInv
<1>1. /\ pc[p] = "alarm"
      /\ generation' = [generation EXCEPT ![p] = generation[p] + 1]
      /\ deadline' = [deadline EXCEPT ![p] = IF arg[p].n = 0 THEN 0 ELSE arg[p].d]
      /\ IF arg[p].n = 0 THEN Result(p) ELSE Stay(p, "add_alarm")
      /\ UNCHANGED <<now, timers, alarms, drain, killed, pending, blocked, actions, saved,
                     ready, cooked, edit, readers, uart, main>>
  BY DEF Alarm, NewGeneration, time, wakers, console
<1>2. PICK g \in Nat, d \in Nat :
        /\ g = generation[p] + 1 /\ generation' = [generation EXCEPT ![p] = g]
        /\ deadline' = [deadline EXCEPT ![p] = d]
        /\ d = IF arg[p].n = 0 THEN 0 ELSE arg[p].d
  <2>1. generation[p] \in Nat /\ arg[p] \in Args  BY <1>0 DEF Typed
  <2>2. generation[p] + 1 \in Nat  BY SMT, <2>1
  <2>3. arg[p].d \in Nat  BY <2>1 DEF Args
  <2> QED  BY <1>1, <2>2, <2>3
<1>3. PICK l \in {"return", "add_alarm"} :
        /\ pc' = [pc EXCEPT ![p] = l] /\ pc'[p] = l
        /\ l = "return" <=> arg[p].n = 0
        /\ l = "add_alarm" => arg'[p] = arg[p]
        /\ arg' \in [Procs -> Args] /\ \A q \in Procs \ {p} : arg'[q] = arg[q]
        /\ tf' \in [Procs -> Frames]
        /\ \A q \in Procs : Res(q)'
  <2>1. CASE arg[p].n = 0
    <3>1. Result(p)  BY <1>1, <2>1
    <3>2. \A q \in Procs : Res(q)'  BY <1>0, <1>1, <3>1, ResultRes
    <3> QED  BY <1>0, <2>1, <3>1, <3>2, ResultIs
  <2>2. CASE arg[p].n # 0
    <3>1. pc' = [pc EXCEPT ![p] = "add_alarm"] /\ UNCHANGED <<tf, arg>>
      BY <1>1, <2>2 DEF Stay, Goto
    <3>2. \A q \in Procs : Res(q)'  BY <1>0, <1>1, <3>1, ResSame
    <3>3. pc'[p] = "add_alarm" /\ arg' \in [Procs -> Args] /\ tf' \in [Procs -> Frames]
      BY <1>0, <3>1 DEF Typed
    <3> QED  BY <2>2, <3>1, <3>2, <3>3
  <2> QED  BY <2>1, <2>2
<1>4. /\ generation' \in [Procs -> Nat] /\ generation'[p] = g
      /\ \A q \in Procs \ {p} : generation'[q] = generation[q]
  BY <1>0, <1>2 DEF Typed
<1>5. /\ deadline' \in [Procs -> Nat] /\ deadline'[p] = d
      /\ \A q \in Procs \ {p} : deadline'[q] = deadline[q]
  BY <1>0, <1>2 DEF Typed
<1>6. \A q \in Procs \ {p} : pc'[q] = pc[q]  BY <1>0, <1>3 DEF Typed
<1>7. Typed'
  <2>1. Chars' = Chars /\ DOMAIN pc' = Procs  BY <1>0, <1>3 DEF Typed, Chars
  <2> QED  BY <1>0, <1>1, <1>3, <1>4, <1>5, <2>1 DEF Typed
<1>8. Alarms'
  <2>1. Rings' = Rings /\ Elems(alarms)' = Elems(alarms)  BY <1>1 DEF Rings
  <2>2. ASSUME NEW e \in Rings
        PROVE  /\ e.gen <= generation'[e.p] /\ e.d > 0
               /\ e.gen = generation'[e.p] => e.d = deadline'[e.p] /\ pc'[e.p] # "add_alarm"
    <3>1. e.p \in Procs /\ e.gen \in Nat  BY <1>0, RingsIn DEF AlarmEntries
    <3>2. /\ e.gen <= generation[e.p] /\ e.d > 0
          /\ e.gen = generation[e.p] => e.d = deadline[e.p] /\ pc[e.p] # "add_alarm"
      BY <1>0 DEF Alarms
    <3>3. CASE e.p = p
      <4>1. generation[p] \in Nat  BY <1>0 DEF Typed
      <4>2. e.gen < g  BY ONLY SMT, <1>2, <3>1, <3>2, <3>3, <4>1
      <4>3. e.gen <= g /\ e.gen # g  BY ONLY SMT, <3>1, <4>2, g \in Nat
      <4> QED  BY <1>4, <3>2, <3>3, <4>3
    <3>4. CASE e.p # p  BY <1>4, <1>5, <1>6, <3>1, <3>2, <3>4
    <3> QED  BY <3>3, <3>4
  <2>3. \A h \in Harts : \A e \in Elems(drain[h].at)' : e.d <= now'  BY <1>0, <1>1 DEF Alarms
  <2>4. \A h \in Harts : drain'[h].s \in {"mark", "wake"} => drain'[h].at # <<>>
    BY <1>0, <1>1 DEF Alarms
  <2>5. ASSUME NEW q \in Procs
        PROVE  /\ pc'[q] = "add_alarm" => deadline'[q] = arg'[q].d
               /\ pc'[q] \in {"alarm", "add_alarm"} => arg'[q].d > 0
               /\ pc'[q] # "add_alarm" /\ deadline'[q] > now' =>
                    \E e \in Elems(alarms)' : e.p = q /\ e.gen = generation'[q]
    <3>1. CASE q # p
      <4>1. /\ pc'[q] = pc[q] /\ arg'[q] = arg[q] /\ now' = now
            /\ generation'[q] = generation[q] /\ deadline'[q] = deadline[q]
        BY <1>1, <1>3, <1>4, <1>5, <1>6, <3>1
      <4>2. /\ pc[q] = "add_alarm" => deadline[q] = arg[q].d
            /\ pc[q] \in {"alarm", "add_alarm"} => arg[q].d > 0
            /\ pc[q] # "add_alarm" /\ deadline[q] > now =>
                 \E e \in Elems(alarms) : e.p = q /\ e.gen = generation[q]
        BY <1>0 DEF Alarms
      <4> QED  BY ONLY <2>1, <4>1, <4>2
    <3>2. CASE q = p /\ l = "return"
      <4>1. now \in Nat /\ deadline'[p] = 0  BY <1>0, <1>2, <1>3, <1>5, <3>2 DEF Typed
      <4>2. ~(deadline'[p] > now')  BY SMT, <1>1, <4>1
      <4> QED  BY <1>3, <3>2, <4>2
    <3>3. CASE q = p /\ l = "add_alarm"
      <4>1. arg[p].d > 0  BY <1>0, <1>1 DEF Alarms
      <4> QED  BY <1>2, <1>3, <1>5, <3>3, <4>1
    <3> QED  BY <3>1, <3>2, <3>3
  <2> QED  BY <2>1, <2>2, <2>3, <2>4, <2>5 DEF Alarms
<1>9. InCall(p)' /\ Waits(p)'
  <2>1. InCall(p)'  BY <1>3 DEF InCall
  <2> QED  BY <1>3, <2>1, Calm
<1>10. \A q \in Procs \ {p} : Kept(q)
  <2>1. OnlyEof => OnlyEof'  BY <1>1 DEF OnlyEof
  <2>2. Elems(timers) \subseteq Elems(timers')  BY <1>1
  <2> QED  BY <1>1, <1>3, <2>1, <2>2, OthersGo
<1> QED  BY <1>3, <1>7, <1>8, <1>9, <1>10, Conclude

LEMMA AddAlarmInv ==
  ASSUME SigInv, NEW p \in Procs, AddAlarm(p), plan' = plan
  PROVE  SigInv'
<1>0. Typed /\ Alarms /\ \A q \in Procs : Res(q)  BY DEF SigInv
<1>1. PICK n : n = [d |-> arg[p].d, p |-> p, gen |-> generation[p]]  OBVIOUS
<1>2. /\ pc[p] = "add_alarm" /\ alarms' = Insert(alarms, n) /\ Result(p)
      /\ UNCHANGED <<now, timers, drain, killed, pending, blocked, actions, saved, generation,
                     deadline, ready, cooked, edit, readers, uart, main>>
  BY <1>1 DEF AddAlarm, sig, wakers, console
<1>3. arg[p] \in Args /\ generation[p] \in Nat  BY <1>0 DEF Typed
<1>4. n \in AlarmEntries /\ n.p = p /\ n.d = arg[p].d /\ n.gen = generation[p]
  <2>1. arg[p].d \in Nat  BY <1>3 DEF Args
  <2> QED  BY ONLY SMT, <1>1, <1>3, <2>1, p \in Procs DEF AlarmEntries
<1>5. alarms' \in Seq(AlarmEntries) /\ Elems(alarms') = Elems(alarms) \cup {n}
  <2>1. alarms \in Seq(AlarmEntries)  BY <1>0 DEF Typed
  <2>2. \A e \in AlarmEntries : e.d \in Nat  BY DEF AlarmEntries
  <2>3. n \in AlarmEntries /\ alarms' = Insert(alarms, n)  BY <1>2, <1>4
  <2> QED  BY ONLY <2>1, <2>2, <2>3, InsertIs
<1>6. /\ pc' = [pc EXCEPT ![p] = "return"] /\ pc'[p] = "return"
      /\ arg' \in [Procs -> Args] /\ \A q \in Procs \ {p} : arg'[q] = arg[q]
      /\ tf' \in [Procs -> Frames] /\ InCall(p)' /\ Waits(p)'
  BY <1>0, <1>2, ResultIs
<1>7. \A q \in Procs \ {p} : pc'[q] = pc[q]  BY <1>0, <1>6 DEF Typed
<1>8. Typed'
  <2>1. Chars' = Chars /\ DOMAIN pc' = Procs  BY <1>0, <1>6 DEF Typed, Chars
  <2> QED  BY <1>0, <1>2, <1>5, <1>6, <2>1 DEF Typed
<1>9. Alarms'
  <2>1. Rings' = Rings \cup {n}  BY <1>2, <1>5 DEF Rings, RingsOf
  <2>2. deadline[p] = arg[p].d /\ arg[p].d > 0  BY <1>0, <1>2 DEF Alarms
  <2>3. \A e \in Rings :
          /\ e.gen <= generation[e.p] /\ e.d > 0
          /\ e.gen = generation[e.p] => e.d = deadline[e.p] /\ pc[e.p] # "add_alarm"
    BY <1>0 DEF Alarms
  <2>4. \A e \in Rings : e.p \in Procs  BY <1>0, RingsIn
  <2>5. n.gen <= generation[n.p]  BY ONLY SMT, <1>3, <1>4
  <2>6. ASSUME NEW e \in Rings \cup {n}
        PROVE  /\ e.gen <= generation'[e.p] /\ e.d > 0
               /\ e.gen = generation'[e.p] => e.d = deadline'[e.p] /\ pc'[e.p] # "add_alarm"
    <3>1. CASE e = n  BY <1>2, <1>4, <1>6, <2>2, <2>5, <3>1
    <3>2. CASE e \in Rings  BY <1>2, <1>6, <1>7, <2>3, <2>4, <3>2
    <3> QED  BY <3>1, <3>2
  <2>7. \A h \in Harts : \A e \in Elems(drain[h].at)' : e.d <= now'  BY <1>0, <1>2 DEF Alarms
  <2>8. \A h \in Harts : drain'[h].s \in {"mark", "wake"} => drain'[h].at # <<>>
    BY <1>0, <1>2 DEF Alarms
  <2>9. ASSUME NEW q \in Procs
        PROVE  /\ pc'[q] = "add_alarm" => deadline'[q] = arg'[q].d
               /\ pc'[q] \in {"alarm", "add_alarm"} => arg'[q].d > 0
               /\ pc'[q] # "add_alarm" /\ deadline'[q] > now' =>
                    \E e \in Elems(alarms') : e.p = q /\ e.gen = generation'[q]
    <3>1. CASE q # p
      <4>1. /\ pc'[q] = pc[q] /\ arg'[q] = arg[q] /\ now' = now
            /\ generation' = generation /\ deadline' = deadline
        BY <1>2, <1>6, <1>7, <3>1
      <4>2. /\ pc[q] = "add_alarm" => deadline[q] = arg[q].d
            /\ pc[q] \in {"alarm", "add_alarm"} => arg[q].d > 0
            /\ pc[q] # "add_alarm" /\ deadline[q] > now =>
                 \E e \in Elems(alarms) : e.p = q /\ e.gen = generation[q]
        BY <1>0 DEF Alarms
      <4> QED  BY ONLY <1>5, <4>1, <4>2
    <3>2. CASE q = p  BY <1>2, <1>4, <1>5, <1>6, <3>2
    <3> QED  BY <3>1, <3>2
  <2> QED  BY <2>1, <2>6, <2>7, <2>8, <2>9 DEF Alarms
<1>10. \A q \in Procs : Res(q)'  BY <1>0, <1>2, ResultRes
<1>11. \A q \in Procs \ {p} : Kept(q)
  <2>1. OnlyEof => OnlyEof'  BY <1>2 DEF OnlyEof
  <2>2. Elems(timers) \subseteq Elems(timers')  BY <1>2
  <2> QED  BY <1>2, <1>6, <2>1, <2>2, OthersGo
<1> QED  BY <1>6, <1>8, <1>9, <1>10, <1>11, Conclude

LEMMA RepollInv ==
  ASSUME SigInv, NEW p \in Procs, Repoll(p), plan' = plan
  PROVE  SigInv'
<1>0. Typed /\ Alarms /\ InCall(p) /\ \A q \in Procs : Res(q)  BY DEF SigInv
<1>1. PICK l : l = arg[p].call  OBVIOUS
<1>2. /\ pc[p] = "parked" /\ pc' = [pc EXCEPT ![p] = l] /\ ready' = ready \ {p}
      /\ UNCHANGED <<now, timers, alarms, drain, killed, pending, blocked, actions, saved, tf,
                     arg, generation, deadline, cooked, edit, readers, uart, main>>
  BY <1>1 DEF Repoll, Goto, time, sig, console
<1>3. l \in {"pause", "sleep", "console_read", "input_read"}  BY <1>0, <1>1, <1>2 DEF InCall
<1>4. pc'[p] = l  BY <1>0, <1>2 DEF Typed
<1>5. Typed'
  <2>1. Chars' = Chars /\ DOMAIN pc' = Procs  BY <1>0, <1>2 DEF Typed, Chars
  <2> QED  BY <1>0, <1>2, <2>1 DEF Typed
<1>6. Alarms'  BY <1>0, <1>2, <1>3, AlarmsProc
<1>7. \A q \in Procs : Res(q)'  BY <1>0, <1>2, ResSame
<1>8. InCall(p)' /\ Waits(p)'
  <2>1. InCall(p)'  BY <1>1, <1>2, <1>3, <1>4 DEF InCall
  <2> QED  BY <1>3, <1>4, <2>1, Calm
<1>9. \A q \in Procs \ {p} : Kept(q)
  <2>1. OnlyEof => OnlyEof'  BY <1>2 DEF OnlyEof
  <2>2. Elems(timers) \subseteq Elems(timers')  BY <1>2
  <2> QED  BY <1>2, <2>1, <2>2, OthersGo
<1> QED  BY <1>5, <1>6, <1>7, <1>8, <1>9, Conclude

LEMMA AddTimerInv ==
  ASSUME SigInv, NEW p \in Procs, AddTimer(p), plan' = plan
  PROVE  SigInv'
<1>0. Typed /\ Alarms /\ InCall(p) /\ \A q \in Procs : Res(q)  BY DEF SigInv
<1>1. PICK n : n = [d |-> arg[p].d, p |-> p]  OBVIOUS
<1>2. /\ pc[p] = "add_timer" /\ timers' = Insert(timers, n) /\ Goto(p, "parked")
      /\ UNCHANGED <<now, alarms, drain, killed, pending, blocked, actions, saved, generation,
                     deadline, tf, arg, ready, cooked, edit, readers, uart, main>>
  BY <1>1 DEF AddTimer, sig, wakers, console
<1>3. pc' = [pc EXCEPT ![p] = "parked"] /\ pc'[p] = "parked"  BY <1>0, <1>2 DEF Goto, Typed
<1>4. n \in TimerEntries /\ n.p = p /\ n.d = arg[p].d /\ arg[p].d <= arg[p].d
  <2>1. arg[p].d \in Nat  BY <1>0 DEF Typed, Args
  <2> QED  BY ONLY SMT, <1>1, <2>1, p \in Procs DEF TimerEntries
<1>5. timers' \in Seq(TimerEntries) /\ Elems(timers') = Elems(timers) \cup {n}
  <2>1. timers \in Seq(TimerEntries)  BY <1>0 DEF Typed
  <2>2. \A e \in TimerEntries : e.d \in Nat  BY DEF TimerEntries
  <2>3. n \in TimerEntries /\ timers' = Insert(timers, n)  BY <1>2, <1>4
  <2> QED  BY ONLY <2>1, <2>2, <2>3, InsertIs
<1>6. Typed'
  <2>1. Chars' = Chars /\ DOMAIN pc' = Procs  BY <1>0, <1>3 DEF Typed, Chars
  <2> QED  BY <1>0, <1>2, <1>5, <2>1 DEF Typed
<1>7. Alarms'  BY <1>0, <1>2, <1>3, AlarmsProc
<1>8. \A q \in Procs : Res(q)'  BY <1>0, <1>2, ResSame
<1>9. InCall(p)' /\ Waits(p)'
  <2>1. arg'[p].call = "sleep" /\ Past(p)  BY <1>0, <1>2 DEF InCall, Past
  <2>2. InCall(p)'  BY <1>3, <2>1 DEF InCall
  <2>3. killed'[p] => Coming(p)'  BY <1>2, <2>1, StillComing
  <2>4. n \in Elems(timers)' /\ n.p = p /\ n.d <= arg'[p].d  BY <1>2, <1>4, <1>5
  <2> QED  BY <1>3, <2>1, <2>2, <2>3, <2>4 DEF Waits, Parked
<1>10. \A q \in Procs \ {p} : Kept(q)
  <2>1. OnlyEof => OnlyEof'  BY <1>2 DEF OnlyEof
  <2> QED  BY <1>2, <1>3, <1>5, <2>1, OthersGo
<1> QED  BY <1>6, <1>7, <1>8, <1>9, <1>10, Conclude

LEMMA OnlyEofIs ==
  /\ OnlyEof <=> Elems(cooked) \subseteq {EOF}
  /\ OnlyEof' <=> Elems(cooked') \subseteq {EOF}
  BY DEF OnlyEof, Elems

LEMMA ConsoleRegisterInv ==
  ASSUME SigInv, NEW p \in Procs, ConsoleRegister(p), plan' = plan
  PROVE  SigInv'
<1>0. Typed /\ Alarms /\ InCall(p) /\ \A q \in Procs : Res(q)  BY DEF SigInv
<1>1. /\ pc[p] = "console_register" /\ readers' = readers \cup {p} /\ Goto(p, "try_pop")
      /\ UNCHANGED <<now, timers, alarms, drain, killed, pending, blocked, actions, saved,
                     generation, deadline, tf, arg, ready, cooked, edit, uart, main>>
  BY DEF ConsoleRegister, time, sig, wakers
<1>2. pc' = [pc EXCEPT ![p] = "try_pop"] /\ pc'[p] = "try_pop"  BY <1>0, <1>1 DEF Goto, Typed
<1>3. Typed'
  <2>1. Chars' = Chars /\ DOMAIN pc' = Procs  BY <1>0, <1>2 DEF Typed, Chars
  <2> QED  BY <1>0, <1>1, <2>1 DEF Typed
<1>4. Alarms'  BY <1>0, <1>1, <1>2, AlarmsProc
<1>5. \A q \in Procs : Res(q)'  BY <1>0, <1>1, ResSame
<1>6. InCall(p)' /\ Waits(p)'
  <2>1. arg'[p].call = "console_read" /\ Past(p)  BY <1>0, <1>1 DEF InCall, Past
  <2>2. InCall(p)'  BY <1>2, <2>1 DEF InCall
  <2>3. killed'[p] => Coming(p)'  BY <1>1, <2>1, StillComing
  <2>4. p \in ready' \cup readers'  BY <1>1
  <2> QED  BY <1>2, <2>2, <2>3, <2>4 DEF Waits, Parked
<1>7. \A q \in Procs \ {p} : Kept(q)
  <2>1. OnlyEof => OnlyEof'  BY <1>1 DEF OnlyEof
  <2>2. Elems(timers) \subseteq Elems(timers')  BY <1>1
  <2> QED  BY <1>1, <1>2, <2>1, <2>2, OthersGo
<1> QED  BY <1>3, <1>4, <1>5, <1>6, <1>7, Conclude

\* A step of p that takes bytes from the console or puts one back.
LEMMA Pops ==
  ASSUME SigInv, NEW p \in Procs, NEW l, pc' = [pc EXCEPT ![p] = l],
         pc[p] \notin {"wake", "add_alarm"}, l \notin {"alarm", "add_alarm"},
         cooked' \in Seq(Chars), OnlyEof => OnlyEof',
         arg' \in [Procs -> Args], \A q \in Procs \ {p} : arg'[q] = arg[q],
         tf' \in [Procs -> Frames], \A q \in Procs : Res(q)', InCall(p)', Waits(p)',
         UNCHANGED <<plan, now, timers, alarms, drain, killed, pending, blocked, actions, saved,
                     generation, deadline, ready, edit, readers, uart, main>>
  PROVE  SigInv'
<1>0. Typed /\ Alarms  BY DEF SigInv
<1>1. Typed'
  <2>1. Chars' = Chars /\ DOMAIN pc' = Procs  BY <1>0 DEF Typed, Chars
  <2> QED  BY <1>0, <2>1 DEF Typed
<1>2. Alarms'  BY <1>0, AlarmsProc
<1>3. \A q \in Procs \ {p} : Kept(q)
  <2>1. Elems(timers) \subseteq Elems(timers')  OBVIOUS
  <2> QED  BY <2>1, OthersGo
<1> QED  BY <1>1, <1>2, <1>3, Conclude

LEMMA TryPopInv ==
  ASSUME SigInv, NEW p \in Procs, TryPop(p), plan' = plan
  PROVE  SigInv'
<1>0. Typed /\ InCall(p) /\ Waits(p) /\ \A q \in Procs : Res(q)  BY DEF SigInv
<1>1. /\ pc[p] = "try_pop"
      /\ UNCHANGED <<now, timers, alarms, drain, killed, pending, blocked, actions, saved,
                     generation, deadline, ready, edit, readers, uart, main>>
  BY DEF TryPop, time, sig, wakers
<1>2. arg[p].call = "console_read"  BY <1>0, <1>1 DEF InCall
<1>3. cooked \in Seq(Chars)  BY <1>0 DEF Typed
<1>4. CASE cooked = <<>>
  <2>1. cooked' = cooked /\ IF arg[p].nonblock THEN Result(p) ELSE Stay(p, "parked")
    BY <1>4 DEF TryPop
  <2>2. CASE arg[p].nonblock
    <3>1. actions' \in [Procs -> [Sigs -> Actions]]  BY <1>0, <1>1 DEF Typed
    <3> QED  BY <1>1, <2>1, <2>2, <3>1, Returns
  <2>3. CASE ~arg[p].nonblock
    <3>1. Goto(p, "parked") /\ UNCHANGED <<tf, arg>>  BY <2>1, <2>3 DEF Stay
    <3>2. Past(p) /\ p \in ready \cup readers  BY <1>0, <1>1, <2>3 DEF Past, Waits
    <3>3. OnlyEof'  BY <1>4, <2>1, OnlyEofIs, ElemsEmpty
    <3>4. ASSUME pc'[p] = "parked" PROVE InCall(p)' /\ Waits(p)'
      <4>1. arg'[p].call = "console_read"  BY <1>2, <3>1
      <4>2. InCall(p)'  BY <3>4, <4>1 DEF InCall
      <4>3. killed'[p] => Coming(p)'  BY <1>1, <3>1, <3>2, StillComing
      <4>4. p \in ready' \cup readers'  BY <1>1, <3>2
      <4> QED  BY <3>3, <3>4, <4>1, <4>2, <4>3, <4>4 DEF Waits, Parked
    <3> QED  BY <1>1, <2>1, <3>1, <3>4, Stays
  <2> QED  BY <2>2, <2>3
<1>5. CASE cooked # <<>>
  <2>1. PICK a : a = [arg[p] EXCEPT !.got = arg[p].got + 1]  OBVIOUS
  <2>2. /\ cooked' = Tail(cooked)
        /\ \/ Result(p)
           \/ Stay(p, "unget")
           \/ arg' = [arg EXCEPT ![p] = a] /\ Goto(p, "console_read") /\ tf' = tf
    BY <1>5, <2>1 DEF TryPop
  <2>3. cooked' \in Seq(Chars) /\ (OnlyEof => OnlyEof')
    <3>1. Tail(cooked) \in Seq(Chars) /\ Elems(cooked) = {Head(cooked)} \cup Elems(Tail(cooked))
      BY <1>3, <1>5, ElemsTail
    <3> QED  BY <2>2, <3>1, OnlyEofIs
  <2>4. a \in Args /\ a.call = "console_read"
    <3>1. arg[p] \in Args  BY <1>0 DEF Typed
    <3> QED  BY ONLY SMT, <1>2, <2>1, <3>1 DEF Args
  <2>5. arg \in [Procs -> Args] /\ tf \in [Procs -> Frames]  BY <1>0 DEF Typed
  <2>6. CASE Result(p)
    <3>1. \A q \in Procs : Res(q)'  BY <1>0, <1>1, <2>6, ResultRes
    <3> QED  BY <1>0, <1>1, <2>3, <2>6, <3>1, ResultIs, Pops
  <2>7. CASE \/ Stay(p, "unget")
             \/ arg' = [arg EXCEPT ![p] = a] /\ Goto(p, "console_read") /\ tf' = tf
    <3>1. PICK l \in {"unget", "console_read"} :
            /\ pc' = [pc EXCEPT ![p] = l] /\ tf' = tf
            /\ arg' = arg \/ arg' = [arg EXCEPT ![p] = a]
      BY <2>7 DEF Stay, Goto
    <3>2. /\ arg' \in [Procs -> Args] /\ arg'[p].call = "console_read"
          /\ \A q \in Procs \ {p} : arg'[q] = arg[q]
      BY <1>2, <2>4, <2>5, <3>1
    <3>3. pc'[p] = l /\ tf' \in [Procs -> Frames]  BY <1>0, <2>5, <3>1 DEF Typed
    <3>4. \A q \in Procs : Res(q)'  BY <1>0, <1>1, <3>1, ResSame
    <3>5. InCall(p)'  BY <3>2, <3>3 DEF InCall
    <3>6. Waits(p)'  BY <3>3, Calm
    <3> QED  BY <1>1, <2>3, <3>1, <3>2, <3>3, <3>4, <3>5, <3>6, Pops
  <2> QED  BY <2>2, <2>6, <2>7
<1> QED  BY <1>4, <1>5

LEMMA UngetInv ==
  ASSUME SigInv, NEW p \in Procs, Unget(p), plan' = plan
  PROVE  SigInv'
<1>0. Typed /\ \A q \in Procs : Res(q)  BY DEF SigInv
<1>1. /\ pc[p] = "unget" /\ cooked' = <<EOF>> \o cooked /\ Result(p)
      /\ UNCHANGED <<now, timers, alarms, drain, killed, pending, blocked, actions, saved,
                     generation, deadline, ready, edit, readers, uart, main>>
  BY DEF Unget, time, sig, wakers
<1>2. cooked' \in Seq(Chars) /\ (OnlyEof => OnlyEof')
  <2>1. EOF \in Chars /\ cooked \in Seq(Chars)  BY <1>0 DEF Chars, Typed
  <2>2. PICK o : o = <<EOF>>  OBVIOUS
  <2>3. o \in Seq(Chars) /\ Elems(o) = {EOF}  BY <2>1, <2>2, ElemsOne
  <2>4. PICK c : c = o \o cooked  OBVIOUS
  <2>5. c \in Seq(Chars) /\ Elems(c) = {EOF} \cup Elems(cooked)
    BY ONLY <2>1, <2>3, <2>4, ElemsConcat
  <2> QED  BY <1>1, <2>2, <2>4, <2>5, OnlyEofIs
<1>3. \A q \in Procs : Res(q)'  BY <1>0, <1>1, ResultRes
<1> QED  BY <1>0, <1>1, <1>2, <1>3, ResultIs, Pops

-----------------------------------------------------------------------------
(* Interrupts.                                                             *)

LEMMA DrainAlarms ==
  ASSUME Typed, Alarms, NEW h \in Harts, NEW d, drain' = [drain EXCEPT ![h] = d],
         Elems(d.at) \subseteq Rings, \A e \in Elems(d.at) : e.d <= now,
         d.s \in {"mark", "wake"} => d.at # <<>>,
         Elems(alarms') \subseteq Elems(alarms),
         \A e \in Elems(alarms) : e \in Elems(alarms') \/ e.d <= now,
         UNCHANGED <<now, generation, deadline, pc, arg>>
  PROVE  Alarms'
<1>1. drain'[h] = d /\ \A g \in Harts \ {h} : drain'[g] = drain[g]  BY DEF Typed
<1>2. \A g \in Harts : Elems(drain'[g].at) \subseteq Rings  BY <1>1 DEF Rings, RingsOf
<1>3. Rings' \subseteq Rings  BY <1>2 DEF Rings, RingsOf
<1>4. \A g \in Harts : \A e \in Elems(drain'[g].at) : e.d <= now  BY <1>1 DEF Alarms
<1>5. \A g \in Harts : drain'[g].s \in {"mark", "wake"} => drain'[g].at # <<>>
  BY <1>1 DEF Alarms
<1>6. ASSUME NEW q \in Procs, pc[q] # "add_alarm", deadline[q] > now
      PROVE  \E e \in Elems(alarms') : e.p = q /\ e.gen = generation[q]
  <2>1. PICK e \in Elems(alarms) : e.p = q /\ e.gen = generation[q]  BY <1>6 DEF Alarms
  <2>2. e.d = deadline[q]  BY <2>1 DEF Alarms, Rings, RingsOf
  <2>3. now \in Nat /\ deadline[q] \in Nat  BY DEF Typed
  <2>4. ~(e.d <= now)  BY ONLY SMT, <1>6, <2>2, <2>3
  <2> QED  BY <2>1, <2>4
<1>7. \A e \in Rings :
        /\ e.gen <= generation[e.p] /\ e.d > 0
        /\ e.gen = generation[e.p] => e.d = deadline[e.p] /\ pc[e.p] # "add_alarm"
  BY DEF Alarms
<1>8. \A q \in Procs : /\ pc[q] = "add_alarm" => deadline[q] = arg[q].d
                       /\ pc[q] \in {"alarm", "add_alarm"} => arg[q].d > 0
  BY DEF Alarms
<1> QED  BY <1>3, <1>4, <1>5, <1>6, <1>7, <1>8 DEF Alarms

\* One who is about to be woken is, or is still about to be.
LEMMA ComingDrain ==
  ASSUME Typed, NEW h \in Harts, NEW d, drain' = [drain EXCEPT ![h] = d],
         drain[h].s = "wake" => Head(drain[h].at).p \in ready',
         ready \subseteq ready', UNCHANGED <<pc, arg>>, NEW q, Coming(q)
  PROVE  Coming(q)'
<1>1. \A g \in Harts \ {h} : drain'[g] = drain[g]  BY DEF Typed
<1>2. CASE q \in ready  BY <1>2 DEF Coming
<1>3. CASE \E r \in Procs : pc[r] = "wake" /\ arg[r].who = q  BY <1>3 DEF Coming
<1>4. CASE \E g \in Harts : drain[g].s = "wake" /\ Head(drain[g].at).p = q
  <2>1. PICK g \in Harts : drain[g].s = "wake" /\ Head(drain[g].at).p = q  BY <1>4
  <2>2. CASE g = h  BY <2>1, <2>2 DEF Coming
  <2>3. CASE g # h  BY <1>1, <2>1, <2>3 DEF Coming
  <2> QED  BY <2>2, <2>3
<1> QED  BY <1>2, <1>3, <1>4 DEF Coming

LEMMA DrainInv ==
  ASSUME SigInv, NEW h \in Harts, NEW d \in Drains, drain' = [drain EXCEPT ![h] = d],
         drain[h].s = "wake" => Head(drain[h].at).p \in ready',
         ready \subseteq ready',
         killed' \in [Procs -> BOOLEAN], pending' \in [Procs -> SUBSET Sigs],
         \A q \in Procs : (killed'[q] = killed[q] /\ pending'[q] = pending[q]) \/ Coming(q)',
         timers' \in Seq(TimerEntries),
         \A e \in Elems(timers) : e.p \in ready' \/ e \in Elems(timers'),
         alarms' \in Seq(AlarmEntries), Alarms',
         UNCHANGED <<plan, now, blocked, actions, saved, generation, deadline, tf, pc, arg,
                     cooked, edit, readers, uart, main>>
  PROVE  SigInv'
<1>0. Typed /\ \A q \in Procs : Res(q)  BY DEF SigInv
<1>1. Typed'
  <2>1. Chars' = Chars /\ DOMAIN pc' = Procs  BY <1>0 DEF Typed, Chars
  <2>2. drain' \in [Harts -> Drains]  BY <1>0 DEF Typed
  <2> QED  BY <1>0, <2>1, <2>2 DEF Typed
<1>2. \A q \in Procs : Res(q)'  BY <1>0, ResSame
<1>3. ASSUME NEW q \in Procs PROVE Kept(q)
  <2>1. Coming(q) => Coming(q)'  BY <1>0, ComingDrain
  <2>2. OnlyEof => OnlyEof'  BY DEF OnlyEof
  <2>3. killed'[q] = killed[q] \/ Coming(q)'  OBVIOUS
  <2>4. pending'[q] \subseteq pending[q] \/ Coming(q)'  OBVIOUS
  <2>5. q \in ready => q \in ready'  OBVIOUS
  <2> QED  BY <2>1, <2>2, <2>3, <2>4, <2>5 DEF Kept
<1> QED  BY <1>1, <1>2, <1>3, Conclude

LEMMA LookIs ==
  ASSUME NEW q \in Seq(AlarmEntries), NEW d, d = [Idle EXCEPT !.at = q, !.s = "look"]
  PROVE  d \in Drains /\ d.at = q /\ d.s = "look"
<1>1. PICK i : i = [Idle EXCEPT !.at = q]  OBVIOUS
<1>2. i = [at |-> q, s |-> "idle", how |-> "none"]  BY ONLY SMT, <1>1 DEF Idle
<1>3. d = [i EXCEPT !.s = "look"]  BY <1>1
<1>4. d = [at |-> q, s |-> "look", how |-> "none"]  BY ONLY SMT, <1>2, <1>3
<1> QED  BY ONLY SMT, <1>4, q \in Seq(AlarmEntries) DEF Drains, Hows

LEMMA TimerInv ==
  ASSUME SigInv, NEW h \in Harts, Timer(h), plan' = plan
  PROVE  SigInv'
<1>0. Typed /\ Alarms  BY DEF SigInv
<1>1. PICK d : d = [drain[h] EXCEPT !.s = "collect"]  OBVIOUS
<1>2. /\ drain[h].s = "idle" /\ timers' = NotExpired(timers)
      /\ ready' = ready \cup {e.p : e \in Elems(Expired(timers))}
      /\ drain' = [drain EXCEPT ![h] = d]
      /\ UNCHANGED <<now, alarms, killed, pending, blocked, actions, saved, generation,
                     deadline, tf, pc, arg, cooked, edit, readers, uart, main>>
  BY <1>1 DEF Timer, sig, console
<1>3. d \in Drains /\ d.at = drain[h].at /\ d.s = "collect"
  <2>1. drain[h] \in Drains  BY <1>0 DEF Typed
  <2> QED  BY ONLY SMT, <1>1, <2>1 DEF Drains
<1>4. /\ Expired(timers) \in Seq(TimerEntries) /\ NotExpired(timers) \in Seq(TimerEntries)
      /\ Elems(timers) = Elems(Expired(timers)) \cup Elems(NotExpired(timers))
  <2>1. timers \in Seq(TimerEntries) /\ now \in Nat  BY <1>0 DEF Typed
  <2>2. \A e \in TimerEntries : e.d \in Nat  BY DEF TimerEntries
  <2> QED  BY <2>1, <2>2, ExpiredIs
<1>5. ready \subseteq ready'  BY <1>2
<1>6. \A e \in Elems(timers) : e.p \in ready' \/ e \in Elems(timers')  BY <1>2, <1>4
<1>7. Alarms'
  <2>1. Elems(d.at) \subseteq Rings  BY <1>3 DEF Rings, RingsOf
  <2>2. \A e \in Elems(drain[h].at) : e.d <= now  BY <1>0 DEF Alarms
  <2> QED  BY <1>0, <1>2, <1>3, <2>1, <2>2, DrainAlarms
<1>8. /\ killed' \in [Procs -> BOOLEAN] /\ pending' \in [Procs -> SUBSET Sigs]
      /\ alarms' \in Seq(AlarmEntries) /\ timers' \in Seq(TimerEntries)
  BY <1>0, <1>2, <1>4 DEF Typed
<1> QED  BY <1>2, <1>3, <1>5, <1>6, <1>7, <1>8, DrainInv

LEMMA CollectInv ==
  ASSUME SigInv, NEW h \in Harts, Collect(h), plan' = plan
  PROVE  SigInv'
<1>0. Typed /\ Alarms  BY DEF SigInv
<1>1. PICK d : d = [Idle EXCEPT !.at = Expired(alarms), !.s = "look"]  OBVIOUS
<1>2. /\ drain[h].s = "collect" /\ alarms' = NotExpired(alarms)
      /\ drain' = [drain EXCEPT ![h] = d]
      /\ UNCHANGED <<now, timers, killed, pending, blocked, actions, saved, generation,
                     deadline, tf, pc, arg, ready, cooked, edit, readers, uart, main>>
  BY <1>1 DEF Collect, sig, wakers, console
<1>3. /\ Expired(alarms) \in Seq(AlarmEntries) /\ NotExpired(alarms) \in Seq(AlarmEntries)
      /\ Elems(alarms) = Elems(Expired(alarms)) \cup Elems(NotExpired(alarms))
      /\ \A e \in Elems(Expired(alarms)) : e.d <= now
  <2>1. alarms \in Seq(AlarmEntries) /\ now \in Nat  BY <1>0 DEF Typed
  <2>2. \A e \in AlarmEntries : e.d \in Nat  BY DEF AlarmEntries
  <2> QED  BY <2>1, <2>2, ExpiredIs
<1>4. d \in Drains /\ d.at = Expired(alarms) /\ d.s = "look"  BY <1>1, <1>3, LookIs
<1>5. Alarms'
  <2>1. Elems(d.at) \subseteq Rings /\ \A e \in Elems(d.at) : e.d <= now
    BY <1>3, <1>4 DEF Rings, RingsOf
  <2>2. Elems(alarms') \subseteq Elems(alarms)  BY <1>2, <1>3
  <2>3. \A e \in Elems(alarms) : e \in Elems(alarms') \/ e.d <= now  BY <1>2, <1>3
  <2> QED  BY <1>0, <1>2, <1>4, <2>1, <2>2, <2>3, DrainAlarms
<1>6. /\ killed' \in [Procs -> BOOLEAN] /\ pending' \in [Procs -> SUBSET Sigs]
      /\ alarms' \in Seq(AlarmEntries) /\ timers' \in Seq(TimerEntries)
  BY <1>0, <1>2, <1>3 DEF Typed
<1> QED  BY <1>2, <1>4, <1>5, <1>6, DrainInv

LEMMA AlarmLookInv ==
  ASSUME SigInv, NEW h \in Harts, AlarmLook(h), plan' = plan
  PROVE  SigInv'
<1>0. Typed /\ Alarms  BY DEF SigInv
<1>1. PICK o, due : o = drain[h] /\ due = drain[h].at  OBVIOUS
<1>2. PICK d : d = IF due = <<>> THEN Idle
                   ELSE IF generation[Head(due).p] # Head(due).gen THEN [o EXCEPT !.at = Tail(due)]
                   ELSE [o EXCEPT !.s = "mark", !.how = Effect(Head(due).p, SIGALRM)]
  OBVIOUS
<1>3. /\ o.s = "look" /\ drain' = [drain EXCEPT ![h] = d]
      /\ UNCHANGED <<now, timers, alarms, killed, pending, blocked, actions, saved, generation,
                     deadline, tf, pc, arg, ready, cooked, edit, readers, uart, main>>
  BY <1>1, <1>2 DEF AlarmLook, sig, wakers, console
<1>4. o \in Drains /\ due = o.at /\ due \in Seq(AlarmEntries)  BY <1>0, <1>1 DEF Typed, Drains
<1>5. d \in Drains /\ Elems(d.at) \subseteq Elems(due) /\ (d.s \in {"mark", "wake"} => d.at # <<>>)
  <2>1. CASE due = <<>>
    <3>1. d = [at |-> <<>>, s |-> "idle", how |-> "none"]  BY <1>2, <2>1 DEF Idle
    <3>2. d \in Drains /\ d.at = <<>> /\ d.s = "idle"  BY ONLY SMT, <3>1 DEF Drains, Hows
    <3> QED  BY <2>1, <3>2
  <2>2. CASE due # <<>>
    <3>1. PICK e, t : e = Head(due) /\ t = Tail(due)  OBVIOUS
    <3>2. e \in AlarmEntries /\ t \in Seq(AlarmEntries) /\ Elems(t) \subseteq Elems(due)
      BY <1>4, <2>2, <3>1, ElemsTail
    <3>3. CASE d = [o EXCEPT !.at = t]
      <4>1. d \in Drains /\ d.at = t /\ d.s = o.s  BY ONLY SMT, <1>4, <3>2, <3>3 DEF Drains
      <4> QED  BY <1>3, <3>2, <4>1
    <3>4. CASE d = [o EXCEPT !.s = "mark", !.how = Effect(e.p, SIGALRM)]
      <4>1. PICK how : how = Effect(e.p, SIGALRM)  OBVIOUS
      <4>2. how \in Hows
        <5>1. e.p \in Procs /\ SIGALRM \in Sigs  BY <3>2 DEF AlarmEntries, Sigs
        <5> QED  BY <1>0, <4>1, <5>1, EffectIs
      <4>3. PICK m : m = [o EXCEPT !.s = "mark"]  OBVIOUS
      <4>4. m \in Drains /\ m.at = o.at  BY ONLY SMT, <1>4, <4>3 DEF Drains
      <4>5. d = [m EXCEPT !.how = how]  BY <3>4, <4>1, <4>3
      <4>6. d \in Drains /\ d.at = m.at  BY ONLY SMT, <4>2, <4>4, <4>5 DEF Drains
      <4> QED  BY <1>4, <2>2, <4>4, <4>6
    <3> QED  BY <1>2, <2>2, <3>1, <3>3, <3>4
  <2> QED  BY <2>1, <2>2
<1>6. Alarms'
  <2>1. Elems(due) \subseteq Rings  BY <1>1 DEF Rings, RingsOf
  <2>2. \A e \in Elems(due) : e.d <= now  BY <1>0, <1>1 DEF Alarms
  <2>3. Elems(d.at) \subseteq Rings /\ \A e \in Elems(d.at) : e.d <= now  BY <1>5, <2>1, <2>2
  <2> QED  BY <1>0, <1>3, <1>5, <2>3, DrainAlarms
<1>7. /\ killed' \in [Procs -> BOOLEAN] /\ pending' \in [Procs -> SUBSET Sigs]
      /\ alarms' \in Seq(AlarmEntries) /\ timers' \in Seq(TimerEntries)
  BY <1>0, <1>3 DEF Typed
<1>8. drain[h].s # "wake"  BY <1>1, <1>3
<1> QED  BY <1>3, <1>5, <1>6, <1>7, <1>8, DrainInv

LEMMA AlarmMarkInv ==
  ASSUME SigInv, NEW h \in Harts, AlarmMark(h), plan' = plan
  PROVE  SigInv'
<1>0. Typed /\ Alarms  BY DEF SigInv
<1>1. PICK d : d = [drain[h] EXCEPT !.s = "wake"]  OBVIOUS
<1>2. /\ drain[h].s = "mark" /\ drain' = [drain EXCEPT ![h] = d]
      /\ Mark(Head(drain[h].at).p, SIGALRM, drain[h].how)
      /\ UNCHANGED <<now, timers, alarms, blocked, actions, saved, generation, deadline, tf, pc,
                     arg, ready, cooked, edit, readers, uart, main>>
  BY <1>1 DEF AlarmMark, wakers, console
<1>3. d \in Drains /\ d.at = drain[h].at /\ d.s = "wake"
  <2>1. drain[h] \in Drains  BY <1>0 DEF Typed
  <2> QED  BY ONLY SMT, <1>1, <2>1 DEF Drains
<1>4. d.at # <<>> /\ d.at \in Seq(AlarmEntries)  BY <1>0, <1>2, <1>3 DEF Alarms, Drains
<1>5. PICK w \in Procs : w = Head(drain[h].at).p
  <2>1. Head(d.at) \in AlarmEntries  BY <1>4, ElemsTail
  <2> QED  BY <1>3, <2>1 DEF AlarmEntries
<1>6. /\ killed' \in [Procs -> BOOLEAN] /\ pending' \in [Procs -> SUBSET Sigs]
      /\ \A r \in Procs \ {w} : killed'[r] = killed[r] /\ pending'[r] = pending[r]
  <2>1. SIGALRM \in Sigs  BY DEF Sigs
  <2> QED  BY <1>0, <1>2, <1>5, <2>1, MarkIs
<1>7. Coming(w)'
  <2>1. drain'[h] = d  BY <1>0, <1>2 DEF Typed
  <2> QED  BY <1>3, <1>5, <2>1 DEF Coming
<1>8. Alarms'
  <2>1. Elems(d.at) \subseteq Rings  BY <1>3 DEF Rings, RingsOf
  <2>2. \A e \in Elems(drain[h].at) : e.d <= now  BY <1>0 DEF Alarms
  <2> QED  BY <1>0, <1>2, <1>3, <1>4, <2>1, <2>2, DrainAlarms
<1>9. \A q \in Procs : (killed'[q] = killed[q] /\ pending'[q] = pending[q]) \/ Coming(q)'
  BY <1>6, <1>7
<1>10. alarms' \in Seq(AlarmEntries) /\ timers' \in Seq(TimerEntries)
  BY <1>0, <1>2 DEF Typed
<1> QED  BY <1>2, <1>3, <1>6, <1>8, <1>9, <1>10, DrainInv

LEMMA AlarmWakeInv ==
  ASSUME SigInv, NEW h \in Harts, AlarmWake(h), plan' = plan
  PROVE  SigInv'
<1>0. Typed /\ Alarms  BY DEF SigInv
<1>1. PICK due, t : due = drain[h].at /\ t = Tail(due)  OBVIOUS
<1>2. PICK d : d = [Idle EXCEPT !.at = t, !.s = "look"]  OBVIOUS
<1>3. /\ drain[h].s = "wake" /\ drain' = [drain EXCEPT ![h] = d]
      /\ ready' = ready \cup {Head(due).p}
      /\ UNCHANGED <<now, timers, alarms, killed, pending, blocked, actions, saved, generation,
                     deadline, tf, pc, arg, cooked, edit, readers, uart, main>>
  BY <1>1, <1>2 DEF AlarmWake, Wake, Wakes, sig, console
<1>4. due # <<>> /\ due \in Seq(AlarmEntries)
  BY <1>0, <1>1, <1>3, RingsIn DEF Alarms
<1>5. Head(due) \in AlarmEntries /\ t \in Seq(AlarmEntries) /\ Elems(t) \subseteq Elems(due)
  BY <1>1, <1>4, ElemsTail
<1>6. d \in Drains /\ d.at = t /\ d.s = "look"  BY <1>2, <1>5, LookIs
<1>7. ready \subseteq ready'  BY <1>3
<1>8. Alarms'
  <2>1. Elems(due) \subseteq Rings  BY <1>1 DEF Rings, RingsOf
  <2>2. \A e \in Elems(due) : e.d <= now  BY <1>0, <1>1 DEF Alarms
  <2>3. Elems(d.at) \subseteq Rings /\ \A e \in Elems(d.at) : e.d <= now  BY <1>5, <1>6, <2>1, <2>2
  <2> QED  BY <1>0, <1>3, <1>6, <2>3, DrainAlarms
<1>9. /\ killed' \in [Procs -> BOOLEAN] /\ pending' \in [Procs -> SUBSET Sigs]
      /\ alarms' \in Seq(AlarmEntries) /\ timers' \in Seq(TimerEntries)
  BY <1>0, <1>3 DEF Typed
<1>10. Head(drain[h].at).p \in ready'  BY <1>1, <1>3
<1> QED  BY <1>3, <1>6, <1>7, <1>8, <1>9, <1>10, DrainInv

LEMMA PassInv ==
  ASSUME SigInv, Pass, plan' = plan
  PROVE  SigInv'
<1>0. Typed /\ Alarms /\ \A q \in Procs : Res(q)  BY DEF SigInv
<1>1. /\ now' = now + 1
      /\ UNCHANGED <<timers, alarms, drain, killed, pending, blocked, actions, saved, generation,
                     deadline, tf, pc, arg, ready, cooked, edit, readers, uart, main>>
  BY DEF Pass, sig, wakers, console
<1>2. now \in Nat \ {0} /\ now' \in Nat \ {0}
  <2>1. now \in Nat \ {0}  BY <1>0 DEF Typed
  <2> QED  BY ONLY SMT, <1>1, <2>1
<1>3. Typed'
  <2>1. Chars' = Chars  BY DEF Chars
  <2> QED  BY <1>0, <1>1, <1>2, <2>1 DEF Typed
<1>4. Alarms'
  <2>1. Rings' = Rings /\ Elems(alarms)' = Elems(alarms)  BY <1>1 DEF Rings
  <2>2. \A h \in Harts : \A e \in Elems(drain[h].at) : e.d <= now'
    <3>1. \A h \in Harts : \A e \in Elems(drain[h].at) : e \in AlarmEntries /\ e.d <= now
      BY <1>0, RingsIn DEF Alarms, Rings, RingsOf
    <3>2. \A e \in AlarmEntries : e.d \in Nat  BY DEF AlarmEntries
    <3>3. \A n \in Nat : n <= now => n <= now'  BY ONLY SMT, <1>1, <1>2
    <3> QED  BY <3>1, <3>2, <3>3
  <2>3. \A q \in Procs : deadline[q] > now' => deadline[q] > now
    <3>1. \A q \in Procs : deadline[q] \in Nat  BY <1>0 DEF Typed
    <3>2. \A n \in Nat : n > now' => n > now  BY ONLY SMT, <1>1, <1>2
    <3> QED  BY <3>1, <3>2
  <2> QED  BY <1>0, <1>1, <2>1, <2>2, <2>3 DEF Alarms
<1>5. \A q \in Procs : Res(q)'  BY <1>0, <1>1, ResSame
<1>6. ASSUME NEW q \in Procs PROVE Kept(q)
  <2>1. Coming(q) => Coming(q)'  BY <1>1 DEF Coming
  <2>2. OnlyEof => OnlyEof'  BY <1>1 DEF OnlyEof
  <2> QED  BY <1>1, <2>1, <2>2 DEF Kept
<1> QED  BY <1>3, <1>4, <1>5, <1>6, Conclude

\* What a key that is pressed does.
LEMMA KeyInv ==
  ASSUME SigInv, cooked' \in Seq(Chars), edit' \in Seq(Chars), ready \subseteq ready',
         readers \subseteq ready' \cup readers',
         uart /\ readers # {} => uart' \/ readers \subseteq ready', OnlyEof => uart' \/ OnlyEof',
         UNCHANGED <<plan, now, timers, alarms, drain, killed, pending, blocked, actions, saved,
                     generation, deadline, tf, pc, arg, main>>
  PROVE  SigInv'
<1>0. Typed /\ Alarms /\ \A q \in Procs : Res(q)  BY DEF SigInv
<1>1. Typed'
  <2>1. Chars' = Chars  BY <1>0 DEF Typed, Chars
  <2> QED  BY <1>0, <2>1 DEF Typed
<1>2. Alarms'
  <2>1. Rings' = Rings /\ Elems(alarms)' = Elems(alarms)  BY DEF Rings
  <2> QED  BY <1>0, <2>1 DEF Alarms
<1>3. \A q \in Procs : Res(q)'  BY <1>0, ResSame
<1>4. ASSUME NEW q \in Procs PROVE Kept(q)
  <2>1. Coming(q) => Coming(q)'  BY DEF Coming
  <2>2. q \in readers => q \in ready' \cup readers'  OBVIOUS
  <2>3. uart /\ q \in readers => uart' \/ q \in ready'  OBVIOUS
  <2> QED  BY <2>1, <2>2, <2>3 DEF Kept
<1> QED  BY <1>1, <1>2, <1>3, <1>4, Conclude

LEMMA PushInv ==
  ASSUME SigInv, Push, plan' = plan
  PROVE  SigInv'
<1>0. Typed  BY DEF SigInv
<1>1. ~uart /\ UNCHANGED <<now, timers, alarms, drain, killed, pending, blocked, actions, saved,
                           generation, deadline, tf, pc, arg, ready, readers, main>>
  BY DEF Push, time, sig, wakers
<1>2. PICK c \in plan.typed :
        \/ edit' = <<>> /\ UNCHANGED <<cooked, uart>>
        \/ edit' = SubSeq(edit, 1, Len(edit) - 1) /\ edit # <<>> /\ UNCHANGED <<cooked, uart>>
        \/ cooked' = cooked \o edit \o <<c>> /\ edit' = <<>> /\ uart' = Completes(c) /\ c \in {NL, EOF}
        \/ UNCHANGED <<cooked, edit, uart>>
        \/ edit' = Append(edit, c) /\ UNCHANGED <<cooked, uart>>
  BY DEF Push
<1>3. c \in Chars /\ cooked \in Seq(Chars) /\ edit \in Seq(Chars)  BY <1>0 DEF Typed, Chars
<1>4. edit' \in Seq(Chars)
  <2>1. <<>> \in Seq(Chars) /\ Append(edit, c) \in Seq(Chars)  BY SMT, <1>3
  <2>2. edit # <<>> => SubSeq(edit, 1, Len(edit) - 1) \in Seq(Chars)  BY ONLY SMT, <1>3
  <2> QED  BY <1>2, <1>3, <2>1, <2>2
<1>5. cooked' \in Seq(Chars) /\ (OnlyEof => uart' \/ OnlyEof')
  <2>1. CASE cooked' = cooked  BY <1>3, <2>1 DEF OnlyEof
  <2>2. CASE cooked' = cooked \o edit \o <<c>> /\ uart' = Completes(c) /\ c \in {NL, EOF}
    <3>1. cooked \o edit \o <<c>> \in Seq(Chars)  BY ONLY SMT, <1>3
    <3>2. uart'  BY <2>2 DEF Completes
    <3> QED  BY <2>2, <3>1, <3>2
  <2> QED  BY <1>2, <2>1, <2>2
<1> QED  BY <1>1, <1>4, <1>5, KeyInv

LEMMA KeyWakeInv ==
  ASSUME SigInv, PushWake \/ Event \/ EventWake, plan' = plan
  PROVE  SigInv'
<1>0. Typed  BY DEF SigInv
<1>1. /\ \/ ready' = ready \cup readers /\ readers' = {}
         \/ UNCHANGED <<ready, readers, uart>>
         \/ ready' = ready \cup inReaders /\ UNCHANGED <<readers, uart>>
      /\ UNCHANGED <<now, timers, alarms, drain, killed, pending, blocked, actions, saved,
                     generation, deadline, tf, pc, arg, cooked, edit, main>>
  BY DEF PushWake, Event, EventWake, time, sig, wakers, console
<1>2. cooked' \in Seq(Chars) /\ edit' \in Seq(Chars)
  BY <1>0, <1>1 DEF Typed
<1>3. OnlyEof => OnlyEof'  BY <1>1 DEF OnlyEof
<1>4. ready \subseteq ready' /\ readers \subseteq ready' \cup readers'  BY <1>1
<1>5. uart /\ readers # {} => uart' \/ readers \subseteq ready'  BY <1>1
<1>6. UNCHANGED <<now, timers, alarms, drain, killed, pending, blocked, actions, saved,
                  generation, deadline, tf, pc, arg, main>>
  BY <1>1
<1> QED  BY <1>2, <1>3, <1>4, <1>5, <1>6, KeyInv

-----------------------------------------------------------------------------
(* The theorems.                                                           *)

LEMMA InitInv ==
  ASSUME Init
  PROVE  SigInv
<1>1. Typed
  <2>1. now \in Nat \ {0}  BY SMT DEF Init
  <2>2. timers \in Seq(TimerEntries) /\ alarms \in Seq(AlarmEntries)
    BY SMT DEF Init
  <2>3. cooked \in Seq(Chars) /\ edit \in Seq(Chars)  BY SMT DEF Init
  <2>4. drain \in [Harts -> Drains]
    <3>1. Idle \in Drains  BY SMT DEF Idle, Drains, Hows
    <3> QED  BY <3>1 DEF Init
  <2>5. actions \in [Procs -> [Sigs -> Actions]]  BY SignalsAssumption DEF Init
  <2>6. arg \in [Procs -> Args]  BY NoRequestIs DEF Init
  <2>7. saved \in [Procs -> Saved]  BY NoFrameIs DEF Init
  <2>8. tf \in [Procs -> Frames]
    <3>1. [at |-> MAIN, a0 |-> MAIN] \in Frames  BY SMT DEF Frames
    <3> QED  BY <3>1 DEF Init
  <2>9. generation \in [Procs -> Nat] /\ deadline \in [Procs -> Nat]  BY SMT DEF Init
  <2>10. /\ plan \in Plans /\ killed \in [Procs -> BOOLEAN] /\ pending \in [Procs -> SUBSET Sigs]
         /\ blocked \in [Procs -> SUBSET Sigs] /\ main \in [Procs -> SUBSET Sigs]
         /\ DOMAIN pc = Procs
    BY DEF Init
  <2> QED  BY <2>1, <2>2, <2>3, <2>4, <2>5, <2>6, <2>7, <2>8, <2>9, <2>10 DEF Typed
<1>2. Alarms
  <2>1. Elems(alarms) = {}  BY ElemsEmpty DEF Init
  <2>2. \A h \in Harts : drain[h] = Idle  BY DEF Init
  <2>3. Idle.at = <<>> /\ Idle.s = "idle"  BY SMT DEF Idle
  <2>4. \A h \in Harts : Elems(drain[h].at) = {} /\ drain[h].s = "idle"
    BY <2>2, <2>3, ElemsEmpty
  <2>5. Rings = {}  BY <2>1, <2>4 DEF Rings, RingsOf
  <2>6. \A p \in Procs : pc[p] = "user" /\ ~(deadline[p] > now)
    <3>1. now = 1 /\ \A p \in Procs : deadline[p] = 0 /\ pc[p] = "user"  BY DEF Init
    <3>2. ~(0 > 1)  BY SMT
    <3> QED  BY <3>1, <3>2
  <2> QED  BY <2>4, <2>5, <2>6 DEF Alarms
<1>3. ASSUME NEW p \in Procs PROVE Res(p) /\ InCall(p) /\ Waits(p)
  <2>1. pc[p] = "user"  BY DEF Init
  <2>2. saved[p] = NoFrame /\ tf[p] = [at |-> MAIN, a0 |-> MAIN] /\ blocked[p] = main[p]
    BY DEF Init
  <2>3. Res(p)  BY <2>2, NoFrameIs DEF Res
  <2> QED  BY <2>1, <2>3 DEF InCall, Waits, Past, Parked
<1> QED  BY <1>1, <1>2, <1>3 DEF SigInv

LEMMA ProcessInv ==
  ASSUME SigInv, plan' = plan, NEW p \in Procs,
         Program(p) \/ SignalCall(p) \/ KillCall(p) \/ AlarmCall(p) \/ Wait(p) \/ Input(p)
  PROVE  SigInv'
<1>1. CASE Program(p)  BY <1>1, CallInv, ProgramInv, DeliverInv DEF Program
<1>2. CASE SignalCall(p)
  BY <1>2, SigactionInv, SigprocmaskInv, SigreturnInv, ExecInv DEF SignalCall
<1>3. CASE KillCall(p)  BY <1>3, KillLookInv, KillMarkInv, KillWakeInv DEF KillCall
<1>4. CASE AlarmCall(p)  BY <1>4, AlarmInv, AddAlarmInv DEF AlarmCall
<1>5. CASE Wait(p)
  BY <1>5, RepollInv, PolledInv, PauseInv, SleepCheckInv, AddTimerInv
     DEF Wait, PauseKilled, SleepKilled
<1>6. CASE Input(p)
  BY <1>6, PolledInv, NonblockInv, ConsoleRegisterInv, TryPopInv, UngetInv, InputInv
     DEF Input, ConsoleKilled, InputKilled
<1> QED  BY <1>1, <1>2, <1>3, <1>4, <1>5, <1>6

LEMMA NextInv ==
  ASSUME SigInv, [Next]_vars
  PROVE  SigInv'
<1>1. CASE UNCHANGED vars
  <2>1. UNCHANGED <<plan, now, timers, alarms, drain, killed, pending, blocked, actions, saved,
                    generation, deadline, tf, pc, arg, ready, cooked, edit, readers, uart, main>>
    BY <1>1 DEF vars, time, sig, wakers, console
  <2>2. cooked' \in Seq(Chars) /\ edit' \in Seq(Chars)  BY <2>1 DEF SigInv, Typed
  <2>3. OnlyEof => OnlyEof'  BY <2>1 DEF OnlyEof
  <2> QED  BY <2>1, <2>2, <2>3, KeyInv
<1>2. CASE Next
  <2>1. plan' = plan  BY <1>2 DEF Next
  <2>2. CASE \E p \in Procs : Program(p) \/ SignalCall(p) \/ KillCall(p) \/ AlarmCall(p)
                              \/ Wait(p) \/ Input(p)
    BY <2>1, <2>2, ProcessInv
  <2>3. CASE \E h \in Harts : Interrupt(h)
    BY <2>1, <2>3, TimerInv, CollectInv, AlarmLookInv, AlarmMarkInv, AlarmWakeInv DEF Interrupt
  <2>4. CASE Pass \/ Push \/ PushWake \/ Event \/ EventWake
    BY <2>1, <2>4, PassInv, PushInv, KeyWakeInv
  <2> QED  BY <1>2, <2>2, <2>3, <2>4 DEF Next
<1> QED  BY <1>1, <1>2

\* The invariant above holds in every state.
THEOREM SignalsInvariant == Spec => []SigInv
  BY InitInv, NextInv, PTL DEF Spec

\* Whatever steps of kill, of the timer interrupts and of the process itself are
\* interleaved, no process stays parked in pause, sleep or a read once it is killed,
\* in pause with a signal it does not block, or in sleep without a timer.
THEOREM NobodySleepsThrough == Spec => []ParkedForReason
<1>1. SigInv => ParkedForReason
  <2> SUFFICES ASSUME SigInv, NEW p \in Procs, pc[p] = "parked", ~Coming(p)
               PROVE  /\ ~killed[p]
                      /\ arg[p].call = "pause" => Deliverable(p) = {}
                      /\ arg[p].call = "sleep" =>
                           \E e \in Elems(timers) : e.p = p /\ e.d <= arg[p].d
    BY DEF ParkedForReason
  <2>1. Waits(p) /\ p \notin ready  BY DEF SigInv, Coming
  <2> QED  BY <2>1 DEF Waits, Past, Parked
<1> QED  BY <1>1, SignalsInvariant, PTL

\* ConsoleByte registers before it looks, and push wakes every reader after it has
\* stored a line: none stays parked while there are bytes of a line, whoever else
\* reads, and whether or not it is killed.
THEOREM ReadersAreWoken == Spec => []ConsoleNotStuck
<1>1. SigInv => ConsoleNotStuck
  <2> SUFFICES ASSUME SigInv, NEW p \in Procs, pc[p] = "parked",
                      arg[p].call = "console_read", ~Coming(p)
               PROVE  cooked = <<>> \/ Head(cooked) = EOF \/ (uart /\ p \in readers)
    BY DEF ConsoleNotStuck
  <2>1. Typed /\ Waits(p) /\ p \notin ready  BY DEF SigInv, Coming
  <2>2. p \in readers /\ (uart \/ OnlyEof)  BY <2>1 DEF Waits, Parked
  <2>3. cooked \in Seq(Chars)  BY <2>1 DEF Typed
  <2>4. cooked # <<>> => Head(cooked) \in Elems(cooked)  BY <2>3, ElemsTail
  <2> QED  BY <2>2, <2>4, OnlyEofIs
<1> QED  BY <1>1, SignalsInvariant, PTL

\* After any sequence of alarm calls, with the timer interrupts of several harts in
\* between, an alarm that is cancelled or replaced rings no more, and the one set last
\* is queued, once, with its deadline.
THEOREM LatestAlarmRings == Spec => []AlarmScheduled
<1>1. SigInv => AlarmScheduled
  <2> SUFFICES ASSUME SigInv, NEW p \in Procs, pc[p] # "add_alarm"
               PROVE  /\ deadline[p] = 0 => Armed(p) = {}
                      /\ deadline[p] > now => {e.d : e \in Armed(p)} = {deadline[p]}
    BY DEF AlarmScheduled
  <2>1. Typed /\ Alarms  BY DEF SigInv
  <2>2. Armed(p) = {e \in Rings : e.p = p /\ e.gen = generation[p]}
    BY DEF Armed, Rings, RingsOf
  <2>3. ASSUME NEW e \in Armed(p) PROVE e.d = deadline[p] /\ e.d > 0
    <3>1. e \in Rings /\ e.p = p /\ e.gen = generation[p]  BY ONLY <2>2, e \in Armed(p)
    <3>2. e.d > 0 /\ (e.gen = generation[e.p] => e.d = deadline[e.p])  BY <2>1, <3>1 DEF Alarms
    <3> QED  BY ONLY <3>1, <3>2
  <2>4. ~(0 > 0)  BY SMT
  <2>5. deadline[p] = 0 => Armed(p) = {}  BY <2>3, <2>4
  <2>6. ASSUME deadline[p] > now PROVE Armed(p) # {}
    <3>1. PICK e \in Elems(alarms) : e.p = p /\ e.gen = generation[p]  BY <2>1, <2>6 DEF Alarms
    <3> QED  BY <3>1 DEF Armed
  <2> QED  BY <2>3, <2>5, <2>6
<1> QED  BY <1>1, SignalsInvariant, PTL

\* Wherever maybe_deliver_signal interrupts a program, and whatever its handler calls,
\* the frame that sigreturn restores is the program's own, with the mask it has set.
THEOREM HandlersLeaveNoTrace == Spec => []Resumes
<1>1. SigInv => Resumes
  <2> SUFFICES ASSUME SigInv, NEW p \in Procs, NEW f,
                      f = IF saved[p].some THEN saved[p]
                          ELSE [tf |-> tf[p], blocked |-> blocked[p]]
               PROVE  f.tf = [at |-> MAIN, a0 |-> MAIN] /\ f.blocked = main[p]
    BY DEF Resumes
  <2>1. Res(p)  BY DEF SigInv
  <2>2. CASE saved[p].some  BY <2>1, <2>2 DEF Res
  <2>3. CASE ~saved[p].some
    <3>1. f.tf = tf[p] /\ f.blocked = blocked[p]  BY ONLY SMT, <2>3,
            f = IF saved[p].some THEN saved[p] ELSE [tf |-> tf[p], blocked |-> blocked[p]]
    <3> QED  BY <2>1, <2>3, <3>1 DEF Res
  <2> QED  BY <2>2, <2>3
<1> QED  BY <1>1, SignalsInvariant, PTL

=============================================================================
