---------------------------- MODULE ProcTreeProofs --------------------------
(***************************************************************************)
(* The proofs about fork, exit, waitpid and kill, for every set of procs,  *)
(* every NPROC and every set of calls their programs make: the inductive   *)
(* invariant, what counting and lists come to, a lemma for each action,    *)
(* and the theorems.                                                       *)
(***************************************************************************)
EXTENDS ProcTree, FiniteSetTheorems, TLAPS

\* Most steps are first-order; the others name the backend they need.
USE ZenonT(40)

-----------------------------------------------------------------------------
(* The inductive invariant.                                                *)

\* init is never killed and never on its way out (init.c loops for ever, and
\* kill refuses it).
InitStays ==
  /\ ~killed[InitProc]
  /\ pc[InitProc] \in {"user", "fork", "failed", "wait", "register", "scan", "parked"}

\* A freed proc leaves no mark, and a zombie is past the point where it can do
\* anything but wake its parent and return.
Freed ==
  \A p \in Procs :
    /\ pc[p] = "none" => ~zombie[p] /\ ~killed[p]
    /\ zombie[p] => pc[p] \in {"parent", "wake", "return", "done"}

\* From the moment exit takes the list of children it stays empty, and the kids
\* taken are gone when exit goes on to the zombie state.
EmptyHanded ==
  \A p \in Procs :
    /\ pc[p] \in {"none", "reparent", "splice", "tell", "zombie", "parent", "wake",
                  "return", "done"} => children[p] = <<>>
    /\ pc[p] \notin {"reparent", "splice"} => kids[p] = <<>>

\* Proc.parent of a proc is the one whose list it is in, or init once the exiting
\* parent has come to the splice.
ParentAgrees ==
  \A p \in Procs :
    /\ \A i \in DOMAIN children[p] : parent[children[p][i]] = p
    /\ pc[p] = "splice" => \A i \in DOMAIN kids[p] : parent[kids[p][i]] = InitProc

\* An exiting child and a killer have the proc they are to wake.
ArgKnown == \A p \in Procs : pc[p] \in {"wake", "kill"} => arg[p] \in Procs

\* From its registration on, a waitpid has its waker in place or its task queued.
WakerInPlace ==
  \A p \in Procs : pc[p] \in {"scan", "parked"} => p \in waitWaker \cup woken

\* A waitpid past its look at the killed flag that is killed is queued, or will be
\* by the killer.
KillComes ==
  \A p \in Procs : pc[p] \in {"register", "scan", "parked"} /\ killed[p] =>
    p \in woken \/ \E q \in Procs : pc[q] = "kill" /\ arg[q] = p

\* c has still to wake p, or an exiting parent has still to wake init.
WakeComes(c, p) ==
  \/ pc[c] = "parent" /\ parent[c] = p
  \/ pc[c] = "wake" /\ arg[c] = p
  \/ p = InitProc /\ \E q \in Procs : pc[q] = "tell"

\* A parked waitpid that has a zombie to reap is queued, or will be.
ZombieComes ==
  \A p \in Procs : pc[p] = "parked" =>
    \A i \in Dead(p) : p \in woken \/ WakeComes(children[p][i], p)

ProcInv ==
  /\ TypeOK /\ LiveCount /\ OneParent
  /\ InitStays /\ Freed /\ EmptyHanded /\ ParentAgrees /\ ArgKnown
  /\ WakerInPlace /\ KillComes /\ ZombieComes

-----------------------------------------------------------------------------
(* Counting procs and Arcs.                                                *)

\* The procs that exist are finitely many.
LEMMA ExistsFinite == IsFiniteSet(Exists) /\ IsFiniteSet(Exists')
  BY ProcAssumption, FS_Subset DEF Exists

\* The last Arc of a proc, once named, is the only one.
LEMMA LastArc ==
  ASSUME NEW c, Cardinality(Arcs(c)) = 1, NEW a \in Arcs(c)
  PROVE  Arcs(c) = {a}
<1> DEFINE All == Procs \X {"children", "kids", "arg"}
<1>1. IsFiniteSet({"children", "kids", "arg"})
  <2>1. IsFiniteSet({"children"})  BY FS_Singleton
  <2>2. IsFiniteSet({"children"} \cup {"kids"})  BY <2>1, FS_AddElement
  <2>3. IsFiniteSet(({"children"} \cup {"kids"}) \cup {"arg"})
    BY <2>2, FS_AddElement
  <2>4. ({"children"} \cup {"kids"}) \cup {"arg"} = {"children", "kids", "arg"}
    OBVIOUS
  <2> QED  BY <2>3, <2>4
<1>2. IsFiniteSet(All)  BY <1>1, ProcAssumption, FS_Product
<1>3. Arcs(c) \in SUBSET All  BY SMT DEF Arcs
<1>4. IsFiniteSet(Arcs(c))  BY <1>2, <1>3, FS_Subset
<1> QED  BY SMT, <1>4, FS_Singleton

\* What a step that frees nothing and moves nothing between lists leaves true.
LEMMA Frame ==
  ASSUME LiveCount, OneParent,
         live' = live, Exists' = Exists, UNCHANGED <<children, kids, zombie>>
  PROVE  LiveCount' /\ OneParent'
  BY SMT DEF LiveCount, OneParent, Unshared, Listed

\* The number of procs, when one comes or goes.
LEMMA CountUp ==
  ASSUME TypeOK, LiveCount, NEW c \in Procs, c \notin Exists,
         Exists' = Exists \cup {c}, live' = live + 1
  PROVE  LiveCount' /\ live' \in 0..Cardinality(Procs)
<1>1. Cardinality(Exists') = Cardinality(Exists) + 1
  BY ExistsFinite, FS_AddElement
<1>2. Cardinality(Exists') <= Cardinality(Procs)
  BY ProcAssumption, FS_Subset DEF Exists
<1> QED  BY SMT, <1>1, <1>2 DEF LiveCount, TypeOK

LEMMA CountDown ==
  ASSUME TypeOK, LiveCount, NEW c \in Exists,
         Exists' = Exists \ {c}, live' = live - 1
  PROVE  LiveCount' /\ live' \in 0..Cardinality(Procs)
<1>1. Cardinality(Exists') = Cardinality(Exists) - 1
  BY ExistsFinite, FS_RemoveElement
<1>2. Cardinality(Exists') \in Nat  BY ExistsFinite, FS_CardinalityType
<1>3. Cardinality(Exists) <= Cardinality(Procs)
  BY ProcAssumption, FS_Subset DEF Exists
<1>4. Cardinality(Procs) \in Nat  BY ProcAssumption, FS_CardinalityType
<1> QED  BY SMT, <1>1, <1>2, <1>3, <1>4 DEF LiveCount, TypeOK

\* A zombie waitpid can reap is a proc.
LEMMA DeadProcs ==
  ASSUME TypeOK
  PROVE  \A q \in Procs : \A i \in Dead(q) : children[q][i] \in Procs
<1> SUFFICES ASSUME NEW q \in Procs, NEW i \in Dead(q)  PROVE children[q][i] \in Procs
  OBVIOUS
<1>1. children[q] \in Seq(Procs) /\ i \in DOMAIN children[q]
  BY DEF TypeOK, Dead, Matching
<1> QED  BY ONLY SMT, <1>1

-----------------------------------------------------------------------------
(* Lists: what concatenation and removal do to the places of the elements.  *)

\* The places of u are those of s and then those of t.
Joined(s, t, u) ==
  /\ Len(s) \in Nat
  /\ \A i \in DOMAIN s : i \in DOMAIN u /\ u[i] = s[i]
  /\ \A i \in DOMAIN t : Len(s) + i \in DOMAIN u /\ u[Len(s) + i] = t[i]
  /\ \A i \in DOMAIN u : \/ i \in DOMAIN s /\ u[i] = s[i]
                         \/ \E j \in DOMAIN t : i = Len(s) + j /\ u[i] = t[j]

LEMMA ConcatSpots ==
  ASSUME NEW S, NEW s \in Seq(S), NEW t \in Seq(S), NEW u, u = s \o t
  PROVE  Joined(s, t, u)
<1>1. /\ Len(s) \in Nat /\ DOMAIN s = 1..Len(s)
      /\ Len(t) \in Nat /\ DOMAIN t = 1..Len(t)
  BY SMT
<1>2. /\ u \in Seq(S) /\ Len(u) = Len(s) + Len(t)
      /\ \A i \in 1..(Len(s) + Len(t)) :
           u[i] = IF i <= Len(s) THEN s[i] ELSE t[i - Len(s)]
  BY SMT
<1>3. DOMAIN u = 1..(Len(s) + Len(t))  BY SMT, <1>2
<1>4. \A i \in DOMAIN s : i \in DOMAIN u /\ u[i] = s[i]
  BY ONLY SMT, <1>1, <1>2, <1>3
<1>5. ASSUME NEW i \in DOMAIN t
      PROVE  Len(s) + i \in DOMAIN u /\ u[Len(s) + i] = t[i]
  <2>1. /\ Len(s) + i \in 1..(Len(s) + Len(t))
        /\ ~(Len(s) + i <= Len(s)) /\ (Len(s) + i) - Len(s) = i
    BY ONLY SMT, <1>1, <1>5
  <2> QED  BY ONLY <2>1, <1>2, <1>3
<1>6. ASSUME NEW i \in DOMAIN u, i \notin DOMAIN s
      PROVE  \E j \in DOMAIN t : i = Len(s) + j /\ u[i] = t[j]
  <2>1. i - Len(s) \in DOMAIN t /\ i = Len(s) + (i - Len(s))
    BY ONLY SMT, <1>1, <1>3, <1>6
  <2>2. u[i] = t[i - Len(s)]  BY ONLY SMT, <1>1, <1>2, <1>3, <1>6
  <2> QED  BY ONLY <2>1, <2>2
<1> QED  BY ONLY <1>1, <1>4, <1>5, <1>6 DEF Joined

\* The places of u are those of s without the i-th.
Removed(s, i, u) ==
  /\ i \in Int
  /\ \A j \in DOMAIN u : LET k == IF j < i THEN j ELSE j + 1
                        IN  j \in Nat /\ k \in DOMAIN s \ {i} /\ u[j] = s[k]
  /\ \A k \in DOMAIN s \ {i} : \E j \in DOMAIN u : u[j] = s[k]

LEMMA RemoveSpots ==
  ASSUME NEW S, NEW s \in Seq(S), NEW i \in DOMAIN s, NEW u,
         u = SubSeq(s, 1, i - 1) \o SubSeq(s, i + 1, Len(s))
  PROVE  u \in Seq(S) /\ Removed(s, i, u)
<1>0. u = SubSeq(s, 1, i - 1) \o SubSeq(s, i + 1, Len(s))  OBVIOUS
<1>1. PICK n \in Nat : n = Len(s)  BY SMT
<1>2. DOMAIN s = 1..n /\ i \in Int /\ 1 <= i /\ i <= n  BY SMT, <1>1
<1>3. PICK a, b : a = SubSeq(s, 1, i - 1) /\ b = SubSeq(s, i + 1, n)  OBVIOUS
<1>4. \A j \in 1..n : s[j] \in S  BY ONLY SMT, <1>1
<1>5. /\ a \in Seq(S) /\ Len(a) = i - 1
      /\ \A j \in 1..(i - 1) : a[j] = s[j]
  BY ONLY SMT, <1>2, <1>3, <1>4
<1>6. b \in Seq(S) /\ Len(b) = n - i
  BY ONLY SMT, <1>2, <1>3, <1>4
<1>7. \A j \in 1..(n - i) : b[j] = s[i + j]
  BY ONLY <1>2, <1>3, <1>4
<1>8. u = a \o b  BY ONLY <1>0, <1>1, <1>3, Zenon
<1>9. u \in Seq(S) /\ Len(u) = n - 1
  <2>1. u \in Seq(S) /\ Len(u) = Len(a) + Len(b)  BY ONLY SMTT(30), <1>5, <1>6, <1>8
  <2> QED  BY ONLY SMT, <1>2, <1>5, <1>6, <2>1
<1>10. \A j \in 1..(n - 1) : u[j] = IF j <= i - 1 THEN a[j] ELSE b[j - (i - 1)]
  BY ONLY SMTT(30), <1>2, <1>5, <1>6, <1>8
<1>11. DOMAIN u = 1..(n - 1)  BY ONLY SMT, <1>9
<1>12. ASSUME NEW j \in DOMAIN u
       PROVE  LET k == IF j < i THEN j ELSE j + 1
              IN  j \in Nat /\ k \in DOMAIN s \ {i} /\ u[j] = s[k]
  <2>1. j \in Nat /\ 1 <= j /\ j <= n - 1  BY ONLY SMT, <1>11
  <2>2. CASE j < i  BY ONLY SMT, <1>2, <1>5, <1>10, <2>1, <2>2
  <2>3. CASE ~(j < i)
    <3>1. j - (i - 1) \in 1..(n - i) /\ i + (j - (i - 1)) = j + 1 /\ ~(j <= i - 1)
      BY ONLY SMT, <1>2, <2>1, <2>3
    <3>2. u[j] = b[j - (i - 1)]  BY ONLY <1>10, <1>11, <3>1
    <3>3. u[j] = s[j + 1]  BY ONLY <1>7, <3>1, <3>2
    <3>4. j + 1 \in DOMAIN s \ {i}  BY ONLY SMT, <1>2, <2>1, <2>3
    <3> QED  BY ONLY <2>1, <2>3, <3>3, <3>4
  <2> QED  BY ONLY <2>2, <2>3
<1>13. ASSUME NEW k \in DOMAIN s \ {i}
       PROVE  \E j \in DOMAIN u : u[j] = s[k]
  <2>1. k \in Nat /\ 1 <= k /\ k <= n /\ k # i  BY ONLY SMT, <1>2
  <2>2. CASE k < i
    <3>1. k \in DOMAIN u  BY ONLY SMT, <1>2, <1>11, <2>1, <2>2
    <3> QED  BY ONLY <3>1, <2>2, <1>12
  <2>3. CASE ~(k < i)
    <3>1. k - 1 \in DOMAIN u /\ ~(k - 1 < i) /\ (k - 1) + 1 = k
      BY ONLY SMT, <1>2, <1>11, <2>1, <2>3
    <3>2. u[k - 1] = s[k]  BY ONLY <3>1, <1>12
    <3> QED  BY ONLY <3>1, <3>2
  <2> QED  BY ONLY <2>2, <2>3
<1> QED  BY ONLY <1>2, <1>9, <1>12, <1>13 DEF Removed

-----------------------------------------------------------------------------
(* The initial states.                                                     *)

LEMMA InitInv == Init => ProcInv
<1> SUFFICES ASSUME Init PROVE ProcInv  OBVIOUS
<1>1. Exists = {InitProc}  BY ProcAssumption DEF Init, Exists
<1>2. LiveCount  BY <1>1, FS_Singleton DEF Init, LiveCount
<1>3. Cardinality(Exists) <= Cardinality(Procs) /\ Cardinality(Procs) \in Nat
  BY ProcAssumption, FS_Subset, FS_CardinalityType DEF Exists
<1>4. zombie \in [Procs -> BOOLEAN] /\ killed \in [Procs -> BOOLEAN]
  BY DEF Init
<1>5. TypeOK  BY SMT, <1>2, <1>3, <1>4 DEF Init, TypeOK, PC, LiveCount
<1>6. OneParent
  BY SMT, <1>1 DEF Init, OneParent, Unshared, Listed, Range
<1>7. /\ InitStays /\ Freed /\ EmptyHanded /\ ParentAgrees /\ ArgKnown
      /\ WakerInPlace /\ KillComes /\ ZombieComes
  BY SMT, ProcAssumption
  DEF Init, InitStays, Freed, EmptyHanded, ParentAgrees, ArgKnown, WakerInPlace,
      KillComes, ZombieComes
<1> QED  BY <1>2, <1>5, <1>6, <1>7 DEF ProcInv

-----------------------------------------------------------------------------
(* Each action preserves ProcInv.                                          *)

\* The steps that only move a proc on: to fork and back, into exit, and from the
\* scan of waitpid to its await.
LEMMA ControlInv ==
  ASSUME ProcInv, NEW p \in Procs,
         ForkCheck(p) \/ ForkFail(p) \/ Exit(p) \/ KilledTrap(p) \/ Park(p)
  PROVE  ProcInv'
<1> USE DEF ProcInv
<1> DEFINE From == {"user", "fork", "failed", "scan"}
           To == {"user", "fork", "failed", "take", "parked"}
<1>0. PICK l \in To :
        /\ pc' = [pc EXCEPT ![p] = l] /\ pc[p] \in From
        /\ p = InitProc => l # "take"
        /\ pc[p] = "scan" <=> l = "parked"
        /\ l = "parked" => Dead(p) = {} /\ p \notin nohang
        /\ UNCHANGED <<live, zombie, killed, parent, children, kids, waitWaker,
                       woken, arg, nohang, shell>>
  BY DEF ForkCheck, ForkFail, Exit, KilledTrap, Park, Goto, BackToUser, InitStays,
         flags, tree, wakers, user
<1>1. Exists' = Exists  BY <1>0 DEF Exists, TypeOK
<1>2. TypeOK'  BY <1>0 DEF TypeOK, PC
<1>3. LiveCount' /\ OneParent'  BY <1>0, <1>1, Frame
<1>4. InitStays'  BY SMT, <1>0 DEF TypeOK, InitStays
<1>5. Freed' /\ EmptyHanded' /\ ParentAgrees' /\ ArgKnown'
  BY <1>0 DEF TypeOK, Freed, EmptyHanded, ParentAgrees, ArgKnown
<1>6. WakerInPlace' /\ KillComes'
  BY SMT, <1>0 DEF TypeOK, WakerInPlace, KillComes
<1>7. ZombieComes'
  <2>1. \A q \in Procs : Dead(q)' = Dead(q)  BY <1>0 DEF Dead, Matching
  <2>2. \A c, q \in Procs : WakeComes(c, q) => WakeComes(c, q)'
    BY <1>0 DEF TypeOK, WakeComes
  <2>3. \A q \in Procs : \A i \in Dead(q) : children[q][i] \in Procs
    BY DeadProcs
  <2> QED  BY <1>0, <2>1, <2>2, <2>3 DEF TypeOK, ZombieComes
<1> QED  BY <1>2, <1>3, <1>4, <1>5, <1>6, <1>7

LEMMA ForkInv ==
  ASSUME ProcInv, NEW p \in Procs, NEW c \in Procs, Fork(p, c)
  PROVE  ProcInv'
<1> USE DEF ProcInv
<1>0. PICK l \in {"user", "take"} :
        /\ pc[p] = "fork" /\ pc[c] = "none" /\ p # c
        /\ pc' = [pc EXCEPT ![p] = l, ![c] = "user"]
        /\ p = InitProc => l = "user"
        /\ live' = live + 1
        /\ parent' = [parent EXCEPT ![c] = p]
        /\ children' = [children EXCEPT ![p] = Append(@, c)]
        /\ shell' = IF p = InitProc THEN c ELSE shell
        /\ UNCHANGED <<zombie, killed, kids, waitWaker, woken, arg, nohang>>
  BY DEF Fork, BackToUser, InitStays, flags, wakers
<1>1. c \notin Exists /\ Exists' = Exists \cup {c}  BY <1>0 DEF Exists, TypeOK
<1>2. LiveCount' /\ live' \in 0..Cardinality(Procs)  BY <1>0, <1>1, CountUp
<1>3. TypeOK'
  <2>1. children' \in [Procs -> Seq(Procs)]  BY SMT, <1>0 DEF TypeOK
  <2>2. nohang' \subseteq {q \in Procs : pc'[q] \in {"wait", "register", "scan"}}
    BY <1>0 DEF TypeOK
  <2> QED  BY <1>0, <1>2, <2>1, <2>2 DEF TypeOK, PC
<1>4. /\ \A q \in Procs : \A i \in DOMAIN children[q] : children[q][i] # c
      /\ \A q \in Procs : \A i \in DOMAIN kids[q] : kids[q][i] # c
  BY SMT, <1>1 DEF OneParent, Listed, Range
<1>5. /\ DOMAIN children'[p] = DOMAIN children[p] \cup {Len(children[p]) + 1}
      /\ Len(children[p]) + 1 \notin DOMAIN children[p]
      /\ children'[p][Len(children[p]) + 1] = c
      /\ \A i \in DOMAIN children[p] : children'[p][i] = children[p][i]
      /\ \A q \in Procs \ {p} : children'[q] = children[q]
  <2>1. children[p] \in Seq(Procs) /\ children'[p] = Append(children[p], c)
    BY <1>0 DEF TypeOK
  <2>2. /\ DOMAIN children'[p] = DOMAIN children[p] \cup {Len(children[p]) + 1}
        /\ Len(children[p]) + 1 \notin DOMAIN children[p]
        /\ children'[p][Len(children[p]) + 1] = c
        /\ \A i \in DOMAIN children[p] : children'[p][i] = children[p][i]
    BY ONLY SMT, <2>1, c \in Procs
  <2>3. \A q \in Procs \ {p} : children'[q] = children[q]  BY <1>0 DEF TypeOK
  <2> QED  BY <2>2, <2>3
<1>7. OneParent'
  <2>1. Unshared(children')
    <3> SUFFICES ASSUME NEW q \in Procs, NEW r \in Procs,
                        NEW i \in DOMAIN children'[q], NEW j \in DOMAIN children'[r],
                        children'[q][i] = children'[r][j]
                 PROVE  q = r /\ i = j
      BY DEF Unshared
    <3> QED  BY SMT, <1>4, <1>5 DEF OneParent, Unshared
  <2>2. Unshared(kids')  BY <1>0 DEF OneParent
  <2>3. Listed(children') = Listed(children) \cup {c}
    <3>1. Range(children'[p]) = Range(children[p]) \cup {c}  BY SMT, <1>5 DEF Range
    <3> QED  BY SMT, <1>5, <3>1 DEF Listed
  <2>4. Listed(kids') = Listed(kids)  BY <1>0 DEF Listed
  <2>5. /\ Listed(children') \cap Listed(kids') = {}
        /\ Listed(children') \cup Listed(kids') \subseteq Exists'
    BY <1>1, <2>3, <2>4 DEF OneParent
  <2>6. {d \in Exists' \ {InitProc} : ~zombie'[d]}
          \subseteq Listed(children') \cup Listed(kids')
    BY <1>0, <1>1, <2>3, <2>4 DEF OneParent
  <2> QED  BY <2>1, <2>2, <2>5, <2>6 DEF OneParent, Unshared
<1>8. InitStays'  BY <1>0, ProcAssumption DEF TypeOK, InitStays
<1>9. Freed' /\ EmptyHanded' /\ ArgKnown'
  BY <1>0 DEF TypeOK, Freed, EmptyHanded, ArgKnown
<1>10. ParentAgrees'
  <2>1. \A q \in Procs : \A i \in DOMAIN children'[q] :
          parent'[children'[q][i]] = q
    BY SMTT(30), <1>0, <1>4, <1>5 DEF TypeOK, ParentAgrees
  <2>2. \A q \in Procs : \A i \in DOMAIN kids[q] :
          parent'[kids[q][i]] = parent[kids[q][i]]
    BY SMT, <1>0, <1>4 DEF TypeOK
  <2>3. \A q \in Procs : pc'[q] = "splice" => pc[q] = "splice"
    BY <1>0 DEF TypeOK
  <2>4. kids' = kids  BY <1>0
  <2> QED  BY SMT, <2>1, <2>2, <2>3, <2>4 DEF ParentAgrees
<1>11. WakerInPlace' /\ KillComes'
  <2>1. \A q \in Procs : /\ pc'[q] \in {"register", "scan", "parked"} => pc'[q] = pc[q]
                         /\ pc[q] = "kill" => pc'[q] = "kill"
    BY <1>0 DEF TypeOK
  <2>2. WakerInPlace'  BY <1>0, <2>1 DEF WakerInPlace
  <2>3. KillComes'  BY <1>0, <2>1 DEF KillComes
  <2> QED  BY <2>2, <2>3
<1>12. ZombieComes'
  <2>1. \A q \in Procs \ {p} : Dead(q)' = Dead(q)
    BY <1>0, <1>5 DEF Dead, Matching
  <2>2. \A d, q \in Procs : d # c /\ WakeComes(d, q) => WakeComes(d, q)'
    BY <1>0 DEF TypeOK, WakeComes
  <2>3. \A q \in Procs : \A i \in Dead(q) : children[q][i] \in Procs \ {c}
    BY SMT, <1>4 DEF Dead, Matching, TypeOK
  <2> QED  BY SMT, <1>0, <1>5, <2>1, <2>2, <2>3 DEF TypeOK, ZombieComes
<1> QED  BY <1>2, <1>3, <1>7, <1>8, <1>9, <1>10, <1>11, <1>12

\* A proc with no children and no kids may go on as it likes.
LEMMA EmptyKept ==
  ASSUME EmptyHanded, NEW p \in Procs, children'[p] = <<>>, kids'[p] = <<>>,
         \A q \in Procs \ {p} :
           pc'[q] = pc[q] /\ children'[q] = children[q] /\ kids'[q] = kids[q]
  PROVE  EmptyHanded'
<1> SUFFICES ASSUME NEW q \in Procs
             PROVE  /\ pc'[q] \in {"none", "reparent", "splice", "tell", "zombie", "parent",
                                   "wake", "return", "done"} => children'[q] = <<>>
                    /\ pc'[q] \notin {"reparent", "splice"} => kids'[q] = <<>>
  BY DEF EmptyHanded
<1>1. CASE q = p  BY <1>1
<1>2. CASE q # p  BY ONLY SMT, <1>2, q \in Procs, EmptyHanded,
                    \A r \in Procs \ {p} :
                      pc'[r] = pc[r] /\ children'[r] = children[r] /\ kids'[r] = kids[r]
                  DEF EmptyHanded
<1> QED  BY <1>1, <1>2

LEMMA TakeKidsInv ==
  ASSUME ProcInv, NEW p \in Procs, TakeKids(p)
  PROVE  ProcInv'
<1> USE DEF ProcInv
<1>0. /\ pc[p] = "take" /\ kids[p] = <<>> /\ p # InitProc
      /\ kids' = [kids EXCEPT ![p] = children[p]]
      /\ children' = [children EXCEPT ![p] = <<>>]
      /\ UNCHANGED <<live, zombie, killed, parent, waitWaker, woken, arg, nohang,
                     shell>>
  BY DEF TakeKids, EmptyHanded, InitStays, flags, wakers, user
<1>1. PICK l \in {"zombie", "reparent"} :
        /\ pc' = [pc EXCEPT ![p] = l]
        /\ l = "zombie" <=> children[p] = <<>>
  BY DEF TakeKids, Goto
<1>2. Exists' = Exists  BY <1>0, <1>1 DEF Exists, TypeOK
<1>3. TypeOK'  BY <1>0, <1>1 DEF TypeOK, PC
<1>4. /\ children'[p] = <<>> /\ kids'[p] = children[p]
      /\ \A q \in Procs \ {p} : children'[q] = children[q] /\ kids'[q] = kids[q]
  BY <1>0 DEF TypeOK
<1>5. DOMAIN <<>> = {}  BY SMT
<1>6. OneParent'
  <2>1. Unshared(children')  BY SMT, <1>4, <1>5 DEF OneParent, Unshared
  <2>2. Unshared(kids')
    <3>1. \A q, r \in Procs : \A i \in DOMAIN children[q], j \in DOMAIN kids[r] :
            children[q][i] # kids[r][j]
      BY SMT DEF OneParent, Listed, Range
    <3> QED  BY SMT, <1>0, <1>4, <1>5, <3>1 DEF OneParent, Unshared
  <2>3. Listed(children') = Listed(children) \ Range(children[p])
    BY SMT, <1>4, <1>5 DEF OneParent, Unshared, Listed, Range
  <2>4. Listed(kids') = Listed(kids) \cup Range(children[p])
    BY SMT, <1>0, <1>4, <1>5 DEF Listed, Range
  <2>5. Range(children[p]) \subseteq Listed(children)  BY DEF Listed
  <2> QED  BY <1>0, <1>2, <2>1, <2>2, <2>3, <2>4, <2>5 DEF OneParent, Unshared
<1>7. LiveCount'  BY <1>0, <1>2 DEF LiveCount
<1>8. InitStays'  BY <1>0, <1>1, ProcAssumption DEF TypeOK, InitStays
<1>9. Freed' /\ EmptyHanded' /\ ArgKnown'
  <2>1. Freed'
    <3>1. pc'[p] = l /\ pc[p] = "take" /\ \A q \in Procs \ {p} : pc'[q] = pc[q]
      BY <1>0, <1>1 DEF TypeOK
    <3>2. zombie' = zombie /\ killed' = killed /\ Freed  BY <1>0
    <3> QED  BY ONLY SMT, <3>1, <3>2, p \in Procs, l \in {"zombie", "reparent"} DEF Freed
  <2>2. EmptyHanded'
    <3>1. CASE l = "zombie"
      <4>1. \A q \in Procs \ {p} : pc'[q] = pc[q]  BY <1>1 DEF TypeOK
      <4> QED  BY <1>1, <1>4, <3>1, <4>1, EmptyKept
    <3>2. CASE l = "reparent"
      <4>1. pc'[p] = "reparent" /\ \A q \in Procs \ {p} : pc'[q] = pc[q]
        BY <1>1, <3>2 DEF TypeOK
      <4> QED  BY <1>4, <4>1 DEF EmptyHanded
    <3> QED  BY <3>1, <3>2
  <2>3. ArgKnown'  BY SMT, <1>0, <1>1, <1>4 DEF TypeOK, ArgKnown
  <2> QED  BY <2>1, <2>2, <2>3
<1>10. ParentAgrees'
  <2>1. \A q \in Procs : pc'[q] = "splice" => q # p /\ pc[q] = "splice"
    BY <1>1 DEF TypeOK
  <2>2. \A q \in Procs : \A i \in DOMAIN children'[q] :
          q # p /\ children'[q] = children[q]
    BY <1>4, <1>5
  <2>3. parent' = parent  BY <1>0
  <2>4. ASSUME NEW q \in Procs
        PROVE  /\ \A i \in DOMAIN children'[q] : parent'[children'[q][i]] = q
               /\ pc'[q] = "splice" =>
                    \A i \in DOMAIN kids'[q] : parent'[kids'[q][i]] = InitProc
    <3>1. CASE q = p  BY <2>1, <2>2, <3>1
    <3>2. CASE q # p  BY <1>4, <2>1, <2>3, <3>2 DEF ParentAgrees
    <3> QED  BY <3>1, <3>2
  <2> QED  BY <2>4 DEF ParentAgrees
<1>11. WakerInPlace' /\ KillComes'
  <2>1. \A q \in Procs : /\ pc'[q] \in {"register", "scan", "parked"} => pc'[q] = pc[q]
                         /\ pc[q] = "kill" => pc'[q] = "kill"
    BY <1>0, <1>1 DEF TypeOK
  <2>2. WakerInPlace'  BY <1>0, <2>1 DEF WakerInPlace
  <2>3. KillComes'  BY <1>0, <2>1 DEF KillComes
  <2> QED  BY <2>2, <2>3
<1>12. ZombieComes'
  <2>1. \A q \in Procs \ {p} : Dead(q)' = Dead(q)
    BY <1>0, <1>4 DEF Dead, Matching
  <2>2. \A d, q \in Procs : WakeComes(d, q) => WakeComes(d, q)'
    BY <1>0, <1>1 DEF TypeOK, WakeComes
  <2>3. \A q \in Procs : \A i \in Dead(q) : children[q][i] \in Procs
    BY DeadProcs
  <2>4. \A q \in Procs : pc'[q] = "parked" => q # p /\ pc[q] = "parked"
    BY <1>1 DEF TypeOK
  <2>5. woken' = woken /\ \A q \in Procs \ {p} : children'[q] = children[q]
    BY <1>0, <1>4
  <2> QED  BY <2>1, <2>2, <2>3, <2>4, <2>5 DEF ZombieComes
<1> QED  BY <1>3, <1>6, <1>7, <1>8, <1>9, <1>10, <1>11, <1>12

LEMMA ReparentInv ==
  ASSUME ProcInv, NEW p \in Procs, Reparent(p)
  PROVE  ProcInv'
<1> USE DEF ProcInv
<1>0. /\ pc[p] = "reparent" /\ p # InitProc
      /\ UNCHANGED <<live, zombie, killed, children, kids, waitWaker, woken, arg,
                     nohang, shell>>
  BY DEF Reparent, InitStays, flags, wakers, user
<1>1. CASE Strangers(p) = {}
  <2>1. pc' = [pc EXCEPT ![p] = "splice"] /\ parent' = parent
    BY <1>1 DEF Reparent, Goto
  <2>2. \A i \in DOMAIN kids[p] : parent[kids[p][i]] = InitProc
    BY <1>1 DEF Strangers, Range
  <2>3. Exists' = Exists  BY <1>0, <2>1 DEF Exists, TypeOK
  <2>4. TypeOK'  BY <1>0, <2>1 DEF TypeOK, PC
  <2>5. LiveCount' /\ OneParent'  BY <1>0, <2>3, Frame
  <2>6. InitStays'  BY <1>0, <2>1, ProcAssumption DEF TypeOK, InitStays
  <2>7. Freed' /\ EmptyHanded' /\ ParentAgrees' /\ ArgKnown'
    BY <1>0, <2>1, <2>2 DEF TypeOK, Freed, EmptyHanded, ParentAgrees, ArgKnown
  <2>8. WakerInPlace' /\ KillComes'
    BY SMT, <1>0, <2>1 DEF TypeOK, WakerInPlace, KillComes
  <2>9. ZombieComes'
    <3>1. \A q \in Procs : Dead(q)' = Dead(q)  BY <1>0 DEF Dead, Matching
    <3>2. \A c, q \in Procs : WakeComes(c, q) => WakeComes(c, q)'
      BY <1>0, <2>1 DEF TypeOK, WakeComes
    <3>3. \A q \in Procs : \A i \in Dead(q) : children[q][i] \in Procs
      BY SMT DEF Dead, Matching, TypeOK
    <3> QED  BY <1>0, <2>1, <3>1, <3>2, <3>3 DEF TypeOK, ZombieComes
  <2> QED  BY <2>4, <2>5, <2>6, <2>7, <2>8, <2>9
<1>2. CASE Strangers(p) # {}
  <2>1. PICK k \in Strangers(p) :
          parent' = [parent EXCEPT ![k] = InitProc] /\ pc' = pc
    BY <1>2 DEF Reparent
  <2>2. k \in Procs /\ k \in Listed(kids)
    BY SMT DEF Strangers, Range, Listed, TypeOK
  <2>3. \A q \in Procs : \A i \in DOMAIN children[q] : children[q][i] # k
    BY SMT, <2>2 DEF OneParent, Listed, Range
  <2>4. TypeOK'  BY <1>0, <2>1, <2>2, ProcAssumption DEF TypeOK
  <2>5. LiveCount' /\ OneParent'  BY <1>0, <2>1, Frame DEF Exists
  <2>6. InitStays' /\ Freed' /\ EmptyHanded' /\ ArgKnown'
    BY <1>0, <2>1 DEF InitStays, Freed, EmptyHanded, ArgKnown
  <2>7. ParentAgrees'
    <3>1. children' = children /\ kids' = kids /\ pc' = pc  BY <1>0, <2>1
    <3>2. \A d \in Procs : parent'[d] = IF d = k THEN InitProc ELSE parent[d]
      BY <2>1 DEF TypeOK
    <3>3. \A q \in Procs : /\ \A i \in DOMAIN children[q] : children[q][i] \in Procs
                           /\ \A i \in DOMAIN kids[q] : kids[q][i] \in Procs
      BY SMT DEF TypeOK
    <3> QED  BY <2>3, <3>1, <3>2, <3>3 DEF ParentAgrees
  <2>8. WakerInPlace' /\ KillComes'
    BY <1>0, <2>1 DEF WakerInPlace, KillComes
  <2>9. ZombieComes'
    <3>1. \A q \in Procs : Dead(q)' = Dead(q)  BY <1>0 DEF Dead, Matching
    <3>2. \A c, q \in Procs : c # k /\ WakeComes(c, q) => WakeComes(c, q)'
      BY <1>0, <2>1 DEF TypeOK, WakeComes
    <3>3. \A q \in Procs : \A i \in Dead(q) : children[q][i] \in Procs \ {k}
      BY SMT, <2>3 DEF Dead, Matching, TypeOK
    <3> QED  BY <1>0, <2>1, <3>1, <3>2, <3>3 DEF ZombieComes
  <2> QED  BY <2>4, <2>5, <2>6, <2>7, <2>8, <2>9
<1> QED  BY <1>1, <1>2

LEMMA SpliceInv ==
  ASSUME ProcInv, NEW p \in Procs, Splice(p)
  PROVE  ProcInv'
<1> USE DEF ProcInv
<1>0. /\ pc[p] = "splice" /\ p # InitProc
      /\ pc' = [pc EXCEPT ![p] = "tell"]
      /\ children' = [children EXCEPT ![InitProc] = @ \o kids[p]]
      /\ kids' = [kids EXCEPT ![p] = <<>>]
      /\ UNCHANGED <<live, zombie, killed, parent, waitWaker, woken, arg, nohang,
                     shell>>
  BY DEF Splice, Orphans, Goto, InitStays, flags, wakers, user
<1> DEFINE n == Len(children[InitProc])
<1>1. Exists' = Exists  BY <1>0 DEF Exists, TypeOK
<1>2. TypeOK'
  <2>1. children' \in [Procs -> Seq(Procs)]
    BY SMT, <1>0, ProcAssumption DEF TypeOK
  <2>2. kids' \in [Procs -> Seq(Procs)] /\ pc' \in [Procs -> PC]
    BY SMT, <1>0 DEF TypeOK, PC
  <2>3. nohang' \subseteq {q \in Procs : pc'[q] \in {"wait", "register", "scan"}}
    BY <1>0 DEF TypeOK
  <2> QED  BY <1>0, <2>1, <2>2, <2>3 DEF TypeOK
<1>3. /\ children'[InitProc] = children[InitProc] \o kids[p]
      /\ \A q \in Procs \ {InitProc} : children'[q] = children[q]
      /\ kids'[p] = <<>> /\ \A q \in Procs \ {p} : kids'[q] = kids[q]
  BY <1>0, ProcAssumption DEF TypeOK
<1>4. Joined(children[InitProc], kids[p], children'[InitProc])
  <2>1. children[InitProc] \in Seq(Procs) /\ kids[p] \in Seq(Procs)
    BY ProcAssumption DEF TypeOK
  <2> QED  BY ONLY <1>3, <2>1, ConcatSpots, Zenon
<1>5. DOMAIN <<>> = {}  BY SMT
<1>6. \A q, r \in Procs : \A i \in DOMAIN children[q], j \in DOMAIN kids[r] :
        children[q][i] # kids[r][j]
  BY SMT DEF OneParent, Listed, Range
<1>7. OneParent'
  <2>1. Unshared(children')
    <3> SUFFICES ASSUME NEW q \in Procs, NEW r \in Procs,
                        NEW i \in DOMAIN children'[q], NEW j \in DOMAIN children'[r],
                        children'[q][i] = children'[r][j]
                 PROVE  q = r /\ i = j
      BY DEF Unshared
    <3>1. \A x, y \in Procs : \A k \in DOMAIN children[x], m \in DOMAIN children[y] :
            children[x][k] = children[y][m] => x = y /\ k = m
      BY DEF OneParent, Unshared
    <3>2. ASSUME NEW x \in Procs, NEW y \in DOMAIN children'[x]
          PROVE  \/ y \in DOMAIN children[x] /\ children'[x][y] = children[x][y]
                 \/ /\ x = InitProc
                    /\ \E k \in DOMAIN kids[p] : y = n + k /\ children'[x][y] = kids[p][k]
      <4>1. CASE x = InitProc  BY <1>4, <4>1 DEF Joined
      <4>2. CASE x # InitProc  BY <1>3, <4>2
      <4> QED  BY <4>1, <4>2
    <3>3. CASE /\ i \in DOMAIN children[q] /\ children'[q][i] = children[q][i]
               /\ j \in DOMAIN children[r] /\ children'[r][j] = children[r][j]
      <4>1. children[q][i] = children[r][j]  BY <3>3
      <4> QED  BY SMT, <3>1, <3>3, <4>1
    <3>4. ASSUME NEW k \in DOMAIN kids[p], NEW m \in DOMAIN kids[p],
                 kids[p][k] = kids[p][m]
          PROVE  n + k = n + m
      BY SMT, <3>4 DEF OneParent, Unshared
    <3> QED  BY SMT, <3>2, <3>3, <3>4, <1>6
  <2>2. Unshared(kids')  BY SMT, <1>3, <1>5 DEF OneParent, Unshared
  <2>3. Range(children'[InitProc]) = Range(children[InitProc]) \cup Range(kids[p])
    BY SMT, <1>4 DEF Range, Joined
  <2>4. Listed(children') = Listed(children) \cup Range(kids[p])
    <3>1. InitProc \in Procs  BY ProcAssumption
    <3>2. \A q \in Procs \ {InitProc} : Range(children'[q]) = Range(children[q])
      BY <1>3
    <3>3. \A x : x \in Listed(children') => x \in Listed(children) \cup Range(kids[p])
      BY <2>3, <3>1, <3>2 DEF Listed
    <3>4. \A x : x \in Listed(children) \cup Range(kids[p]) => x \in Listed(children')
      BY <2>3, <3>1, <3>2 DEF Listed
    <3> QED  BY <3>3, <3>4
  <2>5. Listed(kids') = Listed(kids) \ Range(kids[p])
    BY SMT, <1>3, <1>5 DEF OneParent, Unshared, Listed, Range
  <2>6. Range(kids[p]) \subseteq Listed(kids)  BY DEF Listed
  <2> QED  BY <1>0, <1>1, <2>1, <2>2, <2>4, <2>5, <2>6 DEF OneParent, Unshared
<1>8. LiveCount'  BY <1>0, <1>1 DEF LiveCount
<1>9. InitStays'  BY <1>0, ProcAssumption DEF TypeOK, InitStays
<1>10. Freed' /\ EmptyHanded' /\ ArgKnown'
  <2>1. pc'[p] = "tell" /\ \A q \in Procs \ {p} : pc'[q] = pc[q]  BY <1>0 DEF TypeOK
  <2>2. Freed' /\ ArgKnown'  BY <1>0, <2>1 DEF Freed, ArgKnown
  <2>3. /\ \A q \in Procs \ {InitProc} : children'[q] = children[q]
        /\ kids'[p] = <<>> /\ \A q \in Procs \ {p} : kids'[q] = kids[q]
    BY <1>3
  <2>4. pc'[InitProc] = pc[InitProc]  BY <1>0, <2>1, ProcAssumption
  <2>5. EmptyHanded /\ InitStays /\ pc[p] = "splice"  BY <1>0
  <2>6. EmptyHanded'  BY ONLY <2>1, <2>3, <2>4, <2>5, p \in Procs DEF EmptyHanded, InitStays
  <2> QED  BY <2>2, <2>6
<1>11. ParentAgrees'
  <2>1. \A i \in DOMAIN children'[InitProc] :
          parent[children'[InitProc][i]] = InitProc
    <3>1. /\ \A i \in DOMAIN children[InitProc] : parent[children[InitProc][i]] = InitProc
          /\ \A i \in DOMAIN kids[p] : parent[kids[p][i]] = InitProc
      BY <1>0, ProcAssumption DEF ParentAgrees
    <3> QED  BY ONLY SMT, <1>4, <3>1 DEF Joined
  <2>2. \A q \in Procs : pc'[q] = "splice" => pc[q] = "splice" /\ q # p
    BY <1>0 DEF TypeOK
  <2>3. parent' = parent  BY <1>0
  <2>4. ASSUME NEW q \in Procs
        PROVE  \A i \in DOMAIN children'[q] : parent[children'[q][i]] = q
    <3>1. CASE q = InitProc  BY <2>1, <3>1
    <3>2. CASE q # InitProc  BY <1>3, <3>2 DEF ParentAgrees
    <3> QED  BY <3>1, <3>2
  <2> QED  BY <1>3, <2>2, <2>3, <2>4 DEF ParentAgrees
<1>12. WakerInPlace' /\ KillComes'
  BY <1>0 DEF TypeOK, WakerInPlace, KillComes
<1>13. ZombieComes'
  <2>1. \A q \in Procs \ {InitProc} : Dead(q)' = Dead(q)
    BY <1>0, <1>3 DEF Dead, Matching
  <2>2. \A d, q \in Procs : WakeComes(d, q) => WakeComes(d, q)'
    BY <1>0 DEF TypeOK, WakeComes
  <2>3. \A q \in Procs : \A i \in Dead(q) : children[q][i] \in Procs
    BY DeadProcs
  <2>4. \A d \in Procs : WakeComes(d, InitProc)'
    BY <1>0 DEF WakeComes, TypeOK
  <2>5. \A i \in Dead(InitProc)' : children'[InitProc][i] \in Procs
    BY SMT, <1>2, ProcAssumption DEF Dead, Matching, TypeOK
  <2>6. \A q \in Procs : pc'[q] = "parked" => pc[q] = "parked"
    BY <1>0 DEF TypeOK
  <2>7. \A i \in Dead(InitProc)' : WakeComes(children[InitProc][i], InitProc)'
    BY <2>4, <2>5
  <2>8. \A q \in Procs \ {InitProc} : pc[q] = "parked" => \A i \in Dead(q)' :
          q \in woken' \/ WakeComes(children[q][i], q)'
    BY <1>0, <1>3, <2>1, <2>2, <2>3 DEF ZombieComes
  <2> QED  BY <2>6, <2>7, <2>8 DEF ZombieComes
<1> QED  BY <1>2, <1>7, <1>8, <1>9, <1>10, <1>11, <1>12, <1>13

LEMMA TellInv ==
  ASSUME ProcInv, NEW p \in Procs, Tell(p)
  PROVE  ProcInv'
<1> USE DEF ProcInv
<1>0. /\ pc[p] = "tell" /\ p # InitProc
      /\ pc' = [pc EXCEPT ![p] = "zombie"]
      /\ waitWaker' = waitWaker \ {InitProc}
      /\ woken' = IF InitProc \in waitWaker THEN woken \cup {InitProc} ELSE woken
      /\ UNCHANGED <<live, zombie, killed, parent, children, kids, arg, nohang, shell>>
  BY DEF Tell, WakeWait, Goto, InitStays, flags, tree, user
<1>1. Exists' = Exists  BY <1>0 DEF Exists, TypeOK
<1>2. TypeOK'  BY <1>0, ProcAssumption DEF TypeOK, PC
<1>3. LiveCount' /\ OneParent'  BY <1>0, <1>1, Frame
<1>4. InitStays' /\ Freed' /\ EmptyHanded' /\ ParentAgrees' /\ ArgKnown'
  <2>1. InitStays'  BY SMT, <1>0, ProcAssumption DEF TypeOK, InitStays
  <2>2. Freed'  BY SMT, <1>0, ProcAssumption DEF TypeOK, Freed
  <2>3. EmptyHanded'
    <3>1. children[p] = <<>> /\ kids[p] = <<>>  BY <1>0 DEF EmptyHanded
    <3>2. \A q \in Procs \ {p} : pc'[q] = pc[q]  BY <1>0 DEF TypeOK
    <3> QED  BY <1>0, <3>1, <3>2, EmptyKept
  <2>4. ParentAgrees'  BY SMT, <1>0 DEF TypeOK, ParentAgrees
  <2>5. ArgKnown'  BY SMT, <1>0 DEF TypeOK, ArgKnown
  <2> QED  BY <2>1, <2>2, <2>3, <2>4, <2>5
<1>5. WakerInPlace' /\ KillComes'
  BY SMT, <1>0 DEF TypeOK, WakerInPlace, KillComes
<1>6. ZombieComes'
  <2>1. \A q \in Procs : Dead(q)' = Dead(q)  BY <1>0 DEF Dead, Matching
  <2>2. \A d \in Procs, q \in Procs \ {InitProc} : WakeComes(d, q) => WakeComes(d, q)'
    BY <1>0 DEF TypeOK, WakeComes
  <2>3. \A q \in Procs : \A i \in Dead(q) : children[q][i] \in Procs
    BY DeadProcs
  <2>4. pc[InitProc] = "parked" => InitProc \in woken'
    BY <1>0, ProcAssumption DEF WakerInPlace
  <2> QED  BY SMTT(30), <1>0, <2>1, <2>2, <2>3, <2>4 DEF TypeOK, ZombieComes
<1> QED  BY <1>2, <1>3, <1>4, <1>5, <1>6

LEMMA SetZombieInv ==
  ASSUME ProcInv, NEW p \in Procs, SetZombie(p)
  PROVE  ProcInv'
<1> USE DEF ProcInv
<1>0. /\ pc[p] = "zombie" /\ p # InitProc
      /\ pc' = [pc EXCEPT ![p] = "parent"]
      /\ zombie' = [zombie EXCEPT ![p] = TRUE]
      /\ UNCHANGED <<live, killed, parent, children, kids, waitWaker, woken, arg,
                     nohang, shell>>
  BY DEF SetZombie, Goto, InitStays, tree, wakers, user
<1>1. Exists' = Exists  BY <1>0 DEF Exists, TypeOK
<1>2. TypeOK'  BY <1>0 DEF TypeOK, PC
<1>3. LiveCount' /\ OneParent'
  <2>1. LiveCount'  BY <1>0, <1>1 DEF LiveCount
  <2>2. \A q \in Procs : ~zombie'[q] => ~zombie[q]  BY <1>0 DEF TypeOK
  <2>3. {c \in Exists' \ {InitProc} : ~zombie'[c]}
          \subseteq {c \in Exists \ {InitProc} : ~zombie[c]}
    BY <1>1, <2>2 DEF Exists
  <2>4. Listed(children)' = Listed(children) /\ Listed(kids)' = Listed(kids)
    BY <1>0 DEF Listed
  <2>5. Unshared(children)' /\ Unshared(kids)'
    BY SMT, <1>0 DEF OneParent, Unshared
  <2> QED  BY <1>1, <2>1, <2>3, <2>4, <2>5 DEF OneParent
<1>4. InitStays'  BY <1>0, ProcAssumption DEF TypeOK, InitStays
<1>5. Freed' /\ EmptyHanded' /\ ParentAgrees' /\ ArgKnown'
  BY <1>0 DEF TypeOK, Freed, EmptyHanded, ParentAgrees, ArgKnown
<1>6. WakerInPlace' /\ KillComes'
  BY <1>0 DEF TypeOK, WakerInPlace, KillComes
<1>7. ZombieComes'
  <2> SUFFICES ASSUME NEW q \in Procs, pc'[q] = "parked", NEW i \in Dead(q)'
               PROVE  q \in woken' \/ WakeComes(children[q][i], q)'
    BY DEF ZombieComes
  <2>1. pc[q] = "parked" /\ q # p  BY <1>0 DEF TypeOK
  <2>2. i \in DOMAIN children[q] /\ i \in Matching(q) /\ zombie'[children[q][i]]
    BY <1>0 DEF Dead, Matching
  <2>3. children[q][i] \in Procs  BY SMT, <2>2 DEF TypeOK
  <2>4. CASE children[q][i] = p
    BY <1>0, <2>2, <2>4 DEF WakeComes, ParentAgrees, TypeOK
  <2>5. CASE children[q][i] # p
    <3>1. i \in Dead(q)  BY <1>0, <2>2, <2>3, <2>5 DEF Dead, TypeOK
    <3> QED  BY <1>0, <2>1, <2>3, <2>5, <3>1 DEF ZombieComes, WakeComes, TypeOK
  <2> QED  BY <2>4, <2>5
<1> QED  BY <1>2, <1>3, <1>4, <1>5, <1>6, <1>7

LEMMA ReadParentInv ==
  ASSUME ProcInv, NEW p \in Procs, ReadParent(p)
  PROVE  ProcInv'
<1> USE DEF ProcInv
<1>0. PICK l \in {"return", "wake"} :
        /\ pc[p] = "parent" /\ p # InitProc
        /\ pc' = [pc EXCEPT ![p] = l]
        /\ l = "return" <=> parent[p] = None
        /\ arg' = [arg EXCEPT ![p] = parent[p]]
        /\ UNCHANGED <<live, zombie, killed, parent, children, kids, waitWaker, woken,
                       nohang, shell>>
  BY DEF ReadParent, Goto, InitStays, flags, tree, wakers
<1>1. Exists' = Exists  BY <1>0 DEF Exists, TypeOK
<1>2. TypeOK'  BY <1>0 DEF TypeOK, PC
<1>3. LiveCount' /\ OneParent'  BY <1>0, <1>1, Frame
<1>4. InitStays'  BY <1>0, ProcAssumption DEF TypeOK, InitStays
<1>5. Freed' /\ EmptyHanded' /\ ParentAgrees' /\ ArgKnown'
  <2>1. Freed'
    <3>1. pc'[p] = l /\ \A q \in Procs \ {p} : pc'[q] = pc[q]  BY <1>0 DEF TypeOK
    <3>2. zombie' = zombie /\ killed' = killed /\ Freed  BY <1>0
    <3> QED  BY ONLY SMT, <3>1, <3>2, l \in {"return", "wake"} DEF Freed
  <2>2. EmptyHanded'
    <3>1. children[p] = <<>> /\ kids[p] = <<>>  BY <1>0 DEF EmptyHanded
    <3>2. \A q \in Procs \ {p} : pc'[q] = pc[q]  BY <1>0 DEF TypeOK
    <3> QED  BY <1>0, <3>1, <3>2, EmptyKept
  <2>3. ParentAgrees'
    <3>1. \A q \in Procs : pc'[q] = "splice" => pc[q] = "splice"  BY <1>0 DEF TypeOK
    <3>2. UNCHANGED <<children, kids, parent>> /\ ParentAgrees  BY <1>0
    <3> QED  BY ONLY SMT, <3>1, <3>2 DEF ParentAgrees
  <2>4. ArgKnown'  BY SMT, <1>0 DEF TypeOK, ArgKnown
  <2> QED  BY <2>1, <2>2, <2>3, <2>4
<1>6. WakerInPlace' /\ KillComes'
  BY SMT, <1>0 DEF TypeOK, WakerInPlace, KillComes
<1>7. ZombieComes'
  <2> SUFFICES ASSUME NEW q \in Procs, pc'[q] = "parked", NEW i \in Dead(q)'
               PROVE  q \in woken' \/ WakeComes(children[q][i], q)'
    BY DEF ZombieComes
  <2>1. pc[q] = "parked" /\ q # p  BY <1>0 DEF TypeOK
  <2>2. i \in Dead(q) /\ i \in DOMAIN children[q]
    BY <1>0, <2>1 DEF Dead, Matching, TypeOK
  <2>3. children[q][i] \in Procs  BY SMT, <2>2 DEF TypeOK
  <2>4. q \in woken \/ WakeComes(children[q][i], q)  BY <2>1, <2>2 DEF ZombieComes
  <2>5. CASE children[q][i] = p
    BY SMTT(30), <1>0, <2>4, <2>5, ProcAssumption DEF WakeComes, TypeOK
  <2>6. CASE children[q][i] # p
    BY <1>0, <2>3, <2>4, <2>6 DEF WakeComes, TypeOK
  <2> QED  BY <2>5, <2>6
<1> QED  BY <1>2, <1>3, <1>4, <1>5, <1>6, <1>7

-----------------------------------------------------------------------------
(* The steps of waitpid and of kill, and the freeing of procs.             *)

LEMMA CallWaitInv ==
  ASSUME ProcInv, NEW p \in Procs, NEW f \in Procs \cup {None}, NEW nh \in BOOLEAN,
         CallWait(p, f, nh)
  PROVE  ProcInv'
<1> USE DEF ProcInv
<1>0. /\ pc[p] = "user"
      /\ pc' = [pc EXCEPT ![p] = "wait"]
      /\ arg' = [arg EXCEPT ![p] = f]
      /\ nohang' \subseteq nohang \cup {p}
      /\ woken' = woken \ {p}
      /\ UNCHANGED <<live, zombie, killed, parent, children, kids, waitWaker, shell>>
  BY DEF CallWait, Goto, flags, tree
<1>1. Exists' = Exists  BY <1>0 DEF Exists, TypeOK
<1>2. TypeOK'  BY SMT, <1>0 DEF TypeOK, PC
<1>3. LiveCount' /\ OneParent'  BY <1>0, <1>1, Frame
<1>4. InitStays'  BY <1>0, ProcAssumption DEF TypeOK, InitStays
<1>5. Freed' /\ EmptyHanded' /\ ParentAgrees' /\ ArgKnown'
  BY <1>0 DEF TypeOK, Freed, EmptyHanded, ParentAgrees, ArgKnown
<1>6. WakerInPlace' /\ KillComes'
  BY SMT, <1>0 DEF TypeOK, WakerInPlace, KillComes
<1>7. ZombieComes'
  <2>1. \A q \in Procs \ {p} : Dead(q)' = Dead(q)  BY <1>0 DEF Dead, Matching, TypeOK
  <2>2. \A d, q \in Procs : WakeComes(d, q) => WakeComes(d, q)'
    BY <1>0 DEF TypeOK, WakeComes
  <2>3. \A q \in Procs : \A i \in Dead(q) : children[q][i] \in Procs
    BY DeadProcs
  <2> QED  BY <1>0, <2>1, <2>2, <2>3 DEF TypeOK, ZombieComes
<1> QED  BY <1>2, <1>3, <1>4, <1>5, <1>6, <1>7

\* The other steps of waitpid that free nothing.
LEMMA WaitInv ==
  ASSUME ProcInv, NEW p \in Procs,
         WaitKilled(p) \/ Register(p) \/ WaitReturn(p) \/ Repoll(p)
  PROVE  ProcInv'
<1> USE DEF ProcInv
<1>0. PICK l \in {"take", "register", "scan", "user", "wait"} :
        /\ pc[p] \in {"wait", "register", "scan", "parked"}
        /\ pc' = [pc EXCEPT ![p] = l]
        /\ p = InitProc => l # "take"
        /\ l = "register" => ~killed[p]
        /\ l = "scan" <=> pc[p] = "register"
        /\ woken' = woken \/ (woken' = woken \ {p} /\ l = "wait")
        /\ waitWaker' = IF l = "scan" THEN waitWaker \cup {p} ELSE waitWaker
        /\ arg' \in {arg, [arg EXCEPT ![p] = None]}
        /\ nohang' \subseteq nohang /\ (p \in nohang' => l \in {"register", "scan"})
        /\ shell' \in {shell, None}
        /\ UNCHANGED <<live, zombie, killed, parent, children, kids>>
  <2>1. CASE WaitKilled(p)
    BY <2>1 DEF WaitKilled, Answer, ForgetOptions, Goto, InitStays, flags, tree, wakers,
       user
  <2>2. CASE Register(p)
    BY <2>2 DEF Register, Registered, Goto, flags, tree, user
  <2>3. CASE WaitReturn(p)
    BY <2>3 DEF WaitReturn, Answer, ForgetOptions, BackToUser, Goto, InitStays, flags,
       tree, wakers
  <2>4. CASE Repoll(p)
    BY <2>4 DEF Repoll, Goto, TypeOK, flags, tree, user
  <2> QED  BY <2>1, <2>2, <2>3, <2>4
<1>1. Exists' = Exists  BY <1>0 DEF Exists, TypeOK
<1>2. TypeOK'
  <2>1. pc' \in [Procs -> PC] /\ arg' \in [Procs -> Procs \cup {None}]
    BY <1>0 DEF TypeOK, PC
  <2>2. nohang' \subseteq {q \in Procs : pc'[q] \in {"wait", "register", "scan"}}
    BY <1>0 DEF TypeOK
  <2> QED  BY <1>0, <2>1, <2>2 DEF TypeOK
<1>3. LiveCount' /\ OneParent'  BY <1>0, <1>1, Frame
<1>4. InitStays'  BY <1>0, ProcAssumption DEF TypeOK, InitStays
<1>5. Freed' /\ EmptyHanded' /\ ParentAgrees' /\ ArgKnown'
  <2>1. pc'[p] = l /\ \A q \in Procs \ {p} : pc'[q] = pc[q] /\ arg'[q] = arg[q]
    BY <1>0 DEF TypeOK
  <2>2. Freed'  BY <1>0, <2>1 DEF Freed
  <2>3. EmptyHanded'  BY <1>0, <2>1 DEF EmptyHanded
  <2>4. ParentAgrees'  BY <1>0, <2>1 DEF ParentAgrees
  <2>5. ArgKnown'  BY <1>0, <2>1 DEF ArgKnown
  <2> QED  BY <2>2, <2>3, <2>4, <2>5
<1>6. WakerInPlace' /\ KillComes'
  <2>1. \A q \in Procs \ {p} : pc'[q] = pc[q] /\ arg'[q] = arg[q]
    BY <1>0 DEF TypeOK
  <2>2. \A q \in Procs \ {p} : q \in woken => q \in woken'  BY <1>0
  <2>3. WakerInPlace'  BY <1>0, <2>1, <2>2 DEF TypeOK, WakerInPlace
  <2>4. KillComes'
    BY SMT, <1>0, <2>1, <2>2 DEF TypeOK, KillComes
  <2> QED  BY <2>3, <2>4
<1>7. ZombieComes'
  <2>1. \A q \in Procs \ {p} : Dead(q)' = Dead(q)  BY SMTT(30), <1>0 DEF Dead, Matching, TypeOK
  <2>2. \A d, q \in Procs : WakeComes(d, q) => WakeComes(d, q)'
    BY <1>0 DEF TypeOK, WakeComes
  <2>3. \A q \in Procs : \A i \in Dead(q) : children[q][i] \in Procs
    BY DeadProcs
  <2> SUFFICES ASSUME NEW q \in Procs, pc'[q] = "parked", NEW i \in Dead(q)', q \notin woken'
               PROVE  WakeComes(children[q][i], q)'
    BY DEF ZombieComes
  <2>4. pc[q] = "parked" /\ q # p /\ q \notin woken /\ children' = children
    BY <1>0 DEF TypeOK
  <2>5. i \in Dead(q)  BY <2>1, <2>4
  <2>6. WakeComes(children[q][i], q)  BY <2>4, <2>5 DEF ZombieComes
  <2> QED  BY <2>2, <2>3, <2>4, <2>5, <2>6
<1> QED  BY <1>2, <1>3, <1>4, <1>5, <1>6, <1>7

LEMMA KillInv ==
  ASSUME ProcInv, NEW p \in Procs, NEW c \in Procs, Kill(p, c)
  PROVE  ProcInv'
<1> USE DEF ProcInv
<1>0. /\ pc[p] = "user" /\ p # InitProc /\ c # InitProc /\ c \in Exists
      /\ pc' = [pc EXCEPT ![p] = "kill"]
      /\ killed' = [killed EXCEPT ![c] = TRUE]
      /\ arg' = [arg EXCEPT ![p] = c]
      /\ UNCHANGED <<live, zombie, parent, children, kids, waitWaker, woken, nohang,
                     shell>>
  BY DEF Kill, Goto, tree, wakers
<1>1. Exists' = Exists  BY <1>0 DEF Exists, TypeOK
<1>2. TypeOK'  BY <1>0 DEF TypeOK, PC
<1>3. LiveCount' /\ OneParent'  BY <1>0, <1>1, Frame
<1>4. InitStays'  BY <1>0, ProcAssumption DEF TypeOK, InitStays
<1>5. Freed' /\ EmptyHanded' /\ ParentAgrees' /\ ArgKnown'
  BY <1>0 DEF TypeOK, Freed, EmptyHanded, ParentAgrees, ArgKnown, Exists
<1>6. WakerInPlace'  BY <1>0 DEF TypeOK, WakerInPlace
<1>7. KillComes'
  BY <1>0 DEF TypeOK, KillComes
<1>8. ZombieComes'
  <2>1. \A q \in Procs \ {p} : Dead(q)' = Dead(q)  BY <1>0 DEF Dead, Matching, TypeOK
  <2>2. \A d, q \in Procs : WakeComes(d, q) => WakeComes(d, q)'
    BY <1>0 DEF TypeOK, WakeComes
  <2>3. \A q \in Procs : \A i \in Dead(q) : children[q][i] \in Procs
    BY DeadProcs
  <2> QED  BY SMT, <1>0, <2>1, <2>2, <2>3 DEF TypeOK, ZombieComes
<1> QED  BY <1>2, <1>3, <1>4, <1>5, <1>6, <1>7, <1>8

-----------------------------------------------------------------------------
(* The steps that may free a proc: it is done and its last Arc goes.       *)

\* What holds of a proc whose last Arc is the one p has in arg.
LEMMA ArgIsLast ==
  ASSUME ProcInv, NEW p \in Procs, pc[p] \in {"wake", "kill"},
         Cardinality(Arcs(arg[p])) = 1
  PROVE  arg[p] \notin Listed(children) \cup Listed(kids)
<1>1. <<p, "arg">> \in Arcs(arg[p])  BY DEF Arcs
<1>2. Arcs(arg[p]) = {<<p, "arg">>}  BY <1>1, LastArc
<1>3. \A q \in Procs : /\ <<q, "children">> \notin Arcs(arg[p])
                      /\ <<q, "kids">> \notin Arcs(arg[p])
  BY <1>2
<1> QED  BY <1>3 DEF Arcs, Listed

\* The parts of the invariant that are about the tree, when c is freed and p,
\* which let it go, moves on to l.
LEMMA FreeInv ==
  ASSUME ProcInv, NEW p \in Procs, NEW c \in Procs, NEW l \in {"return", "user", "take"},
         pc[c] \in {"done", "return"}, Drop(c),
         \/ p = c /\ pc' = [pc EXCEPT ![c] = "none"]
         \/ /\ p # c /\ pc' = [pc EXCEPT ![p] = l, ![c] = "none"]
            /\ pc[p] \in {"wake", "kill", "scan"}
            /\ l = "return" <=> pc[p] = "wake"
            /\ p = InitProc => l = "user",
         kids' = kids, children' \in [Procs -> Seq(Procs)],
         Unshared(children'), Listed(children') = Listed(children) \ {c},
         c \notin Listed(kids),
         \A q \in Procs : Range(children'[q]) \subseteq Range(children[q])
  PROVE  /\ LiveCount' /\ OneParent' /\ InitStays' /\ Freed' /\ EmptyHanded'
         /\ ParentAgrees' /\ live' \in 0..Cardinality(Procs)
         /\ zombie' \in [Procs -> BOOLEAN] /\ killed' \in [Procs -> BOOLEAN]
         /\ parent' \in [Procs -> Procs \cup {None}] /\ pc' \in [Procs -> PC]
<1> USE DEF ProcInv
<1>0. /\ live' = live - 1
      /\ zombie' = [zombie EXCEPT ![c] = FALSE]
      /\ killed' = [killed EXCEPT ![c] = FALSE]
      /\ parent' = [q \in Procs |-> IF q = c \/ parent[q] = c THEN None ELSE parent[q]]
  BY DEF Drop, Uncount
<1>1. c \in Exists /\ c # InitProc /\ Exists' = Exists \ {c}
  <2>1. c \in Exists /\ c # InitProc  BY DEF Exists, InitStays
  <2>2. \A q \in Procs : pc'[q] # "none" <=> pc[q] # "none" /\ q # c
    BY DEF TypeOK
  <2> QED  BY <2>1, <2>2 DEF Exists
<1>2. LiveCount' /\ live' \in 0..Cardinality(Procs)  BY <1>0, <1>1, CountDown
<1>3. /\ zombie' \in [Procs -> BOOLEAN] /\ killed' \in [Procs -> BOOLEAN]
      /\ parent' \in [Procs -> Procs \cup {None}] /\ pc' \in [Procs -> PC]
  BY <1>0 DEF TypeOK, PC
<1>4. OneParent'
  <2>1. Listed(kids') = Listed(kids)  OBVIOUS
  <2>2. Unshared(kids')  BY DEF OneParent
  <2>3. Listed(children') \cup Listed(kids') \subseteq Exists'
    BY <1>1, <2>1 DEF OneParent
  <2>4. \A q \in Procs \ {c} : zombie'[q] = zombie[q]  BY <1>0 DEF TypeOK
  <2>5. {q \in Exists' \ {InitProc} : ~zombie'[q]}
          \subseteq Listed(children') \cup Listed(kids')
    BY <1>1, <2>1, <2>4 DEF OneParent, Exists
  <2> QED  BY <2>1, <2>2, <2>3, <2>5 DEF OneParent, Unshared
<1>5. InitStays'
  BY <1>0, <1>1, ProcAssumption DEF TypeOK, InitStays
<1>6. Freed'  BY <1>0, <1>1 DEF TypeOK, Freed
<1>7. EmptyHanded'
  <2>1. \A q \in Procs : children[q] = <<>> => children'[q] = <<>>
    <3> SUFFICES ASSUME NEW q \in Procs, children[q] = <<>>, children'[q] # <<>>
                 PROVE  FALSE
      OBVIOUS
    <3>1. children'[q] \in Seq(Procs)  OBVIOUS
    <3>2. 1 \in DOMAIN children'[q]  BY SMT, <3>1
    <3>3. Range(children[q]) = {}  BY SMT DEF Range
    <3>4. children'[q][1] \in Range(children'[q])  BY <3>2 DEF Range
    <3> QED  BY <3>3, <3>4
  <2>2. children[c] = <<>> /\ kids[c] = <<>>  BY DEF EmptyHanded
  <2> QED  BY <2>1, <2>2 DEF TypeOK, EmptyHanded
<1>8. ParentAgrees'
  <2>1. ASSUME NEW q \in Procs, NEW i \in DOMAIN children'[q]
        PROVE  parent'[children'[q][i]] = q
    <3> DEFINE d == children'[q][i]
    <3>1. d \in Range(children'[q])  BY DEF Range
    <3>2. d \in Range(children[q]) /\ d \in Listed(children') /\ d \in Procs
      BY SMT, <3>1, <2>1 DEF Listed
    <3>3. parent[d] = q /\ d # c /\ children[q] # <<>>
      BY SMT, <3>2 DEF ParentAgrees, Range
    <3>4. children[c] = <<>>  BY DEF EmptyHanded
    <3> QED  BY <1>0, <3>2, <3>3, <3>4
  <2>2. ASSUME NEW q \in Procs, pc'[q] = "splice", NEW i \in DOMAIN kids[q]
        PROVE  parent'[kids[q][i]] = InitProc
    <3>1. pc[q] = "splice"  BY <2>2 DEF TypeOK
    <3>2. parent[kids[q][i]] = InitProc  BY <3>1, <2>2 DEF ParentAgrees
    <3>3. kids[q][i] \in Procs /\ kids[q][i] \in Listed(kids)
      <4>1. kids[q] \in Seq(Procs)  BY DEF TypeOK
      <4>2. kids[q][i] \in Range(kids[q])  BY <2>2 DEF Range
      <4> QED  BY SMT, <4>1, <4>2, <2>2 DEF Listed
    <3> QED  BY <1>0, <1>1, <3>2, <3>3
  <2> QED  BY <2>1, <2>2 DEF ParentAgrees
<1> QED  BY <1>2, <1>3, <1>4, <1>5, <1>6, <1>7, <1>8

\* An exiting child wakes its parent, a killer its target; the Arc goes.
LEMMA WakeInv ==
  ASSUME ProcInv, NEW p \in Procs, WakeParent(p) \/ KillWake(p)
  PROVE  ProcInv'
<1> USE DEF ProcInv
<1>0. PICK c \in Procs, l \in {"return", "user", "take"} :
        /\ c = arg[p] /\ pc[p] \in {"wake", "kill"}
        /\ l = "return" <=> pc[p] = "wake"
        /\ p # InitProc
        /\ Release(p, c, l)
        /\ waitWaker' = waitWaker \ {c}
        /\ woken \subseteq woken' /\ woken' \subseteq woken \cup {c}
        /\ pc[c] \in {"scan", "parked", "register"} /\ pc[p] = "kill" => c \in woken'
        /\ c \in waitWaker /\ pc[c] # "done" => c \in woken'
        /\ arg' = [arg EXCEPT ![p] = None]
        /\ UNCHANGED <<children, kids, nohang, shell>>
  <2>1. arg[p] \in Procs /\ p # InitProc
    BY DEF WakeParent, KillWake, ArgKnown, InitStays
  <2>2. CASE WakeParent(p)
    BY <2>1, <2>2 DEF WakeParent, WakeWait
  <2>3. CASE KillWake(p)
    BY <2>1, <2>3 DEF KillWake, KillWakes, BackToUser
  <2> QED  BY <2>2, <2>3
<1>1. /\ pc'[p] = l
      /\ \A q \in Procs \ {p} : pc'[q] = pc[q] \/ (q = c /\ pc[c] = "done" /\ pc'[c] = "none")
      /\ \A q \in Procs \ {p} : arg'[q] = arg[q]
      /\ \A q \in Procs : parent'[q] = parent[q] \/ pc'[q] = "none"
                                               \/ (pc[c] = "done" /\ parent[q] = c)
      /\ \A q \in Procs : zombie'[q] => zombie[q]
      /\ \A q \in Procs : killed'[q] => killed[q]
  <2>1. CASE pc[c] = "done" /\ Cardinality(Arcs(c)) = 1
    <3>1. /\ Drop(c) /\ p # c /\ pc' = [pc EXCEPT ![p] = l, ![c] = "none"]
      BY <1>0, <2>1 DEF Release
    <3> QED  BY <1>0, <2>1, <3>1 DEF Drop, TypeOK
  <2>2. CASE ~(pc[c] = "done" /\ Cardinality(Arcs(c)) = 1)
    BY <1>0, <2>2 DEF Release, Goto, flags, TypeOK
  <2> QED  BY <2>1, <2>2
<1>2. /\ LiveCount' /\ OneParent' /\ InitStays' /\ Freed' /\ EmptyHanded'
      /\ ParentAgrees' /\ live' \in 0..Cardinality(Procs)
      /\ zombie' \in [Procs -> BOOLEAN] /\ killed' \in [Procs -> BOOLEAN]
      /\ parent' \in [Procs -> Procs \cup {None}] /\ pc' \in [Procs -> PC]
  <2>1. CASE pc[c] = "done" /\ Cardinality(Arcs(c)) = 1
    <3>1. c \notin Listed(children) \cup Listed(kids)  BY <1>0, <2>1, ArgIsLast
    <3>2. /\ Drop(c) /\ p # c /\ pc' = [pc EXCEPT ![p] = l, ![c] = "none"]
      BY <1>0, <2>1 DEF Release
    <3>3. /\ children' \in [Procs -> Seq(Procs)] /\ Unshared(children')
          /\ Listed(children') = Listed(children) \ {c}
          /\ \A q \in Procs : Range(children'[q]) \subseteq Range(children[q])
      BY SMT, <1>0, <3>1 DEF TypeOK, OneParent
    <3> QED  BY <1>0, <2>1, <3>1, <3>2, <3>3, FreeInv
  <2>2. CASE ~(pc[c] = "done" /\ Cardinality(Arcs(c)) = 1)
    <3>1. pc' = [pc EXCEPT ![p] = l] /\ UNCHANGED <<live, zombie, killed, parent>>
      BY <1>0, <2>2 DEF Release, Goto, flags
    <3>2. Exists' = Exists  BY <1>0, <3>1 DEF Exists, TypeOK
    <3>3. LiveCount' /\ OneParent'  BY <1>0, <3>1, <3>2, Frame
    <3>4. InitStays'  BY <1>0, <3>1, ProcAssumption DEF TypeOK, InitStays
    <3>5. Freed' /\ EmptyHanded' /\ ParentAgrees'
      <4>1. pc'[p] = l /\ \A q \in Procs \ {p} : pc'[q] = pc[q]  BY <3>1 DEF TypeOK
      <4>2. Freed'  BY <1>0, <3>1, <4>1 DEF Freed
      <4>3. EmptyHanded'  BY <1>0, <3>1, <4>1 DEF EmptyHanded
      <4>4. ParentAgrees'  BY <1>0, <3>1, <4>1 DEF ParentAgrees
      <4> QED  BY <4>2, <4>3, <4>4
    <3> QED  BY <1>0, <3>1, <3>3, <3>4, <3>5 DEF TypeOK, PC
  <2> QED  BY <2>1, <2>2
<1>3. TypeOK'
  <2>1. arg' \in [Procs -> Procs \cup {None}]  BY <1>0 DEF TypeOK
  <2>2. nohang' \subseteq {q \in Procs : pc'[q] \in {"wait", "register", "scan"}}
    BY <1>0, <1>1 DEF TypeOK
  <2>3. waitWaker' \subseteq Procs /\ woken' \subseteq Procs  BY <1>0 DEF TypeOK
  <2> QED  BY <1>0, <1>2, <2>1, <2>2, <2>3 DEF TypeOK
<1>4. ArgKnown'  BY <1>0, <1>1 DEF ArgKnown
<1>5. WakerInPlace'  BY <1>0, <1>1 DEF WakerInPlace
<1>6. KillComes'
  <2> SUFFICES ASSUME NEW q \in Procs, pc'[q] \in {"register", "scan", "parked"},
                      killed'[q], q \notin woken'
               PROVE  \E k \in Procs : pc'[k] = "kill" /\ arg'[k] = q
    BY DEF KillComes
  <2>1. pc[q] \in {"register", "scan", "parked"} /\ killed[q] /\ q \notin woken /\ q # p
    BY <1>0, <1>1
  <2>2. PICK k \in Procs : pc[k] = "kill" /\ arg[k] = q  BY <2>1 DEF KillComes
  <2>3. k # p  BY <1>0, <2>1, <2>2
  <2> QED  BY <1>1, <2>2, <2>3
<1>7. ZombieComes'
  <2> SUFFICES ASSUME NEW q \in Procs, pc'[q] = "parked", NEW i \in Dead(q)', q \notin woken'
               PROVE  WakeComes(children[q][i], q)'
    BY DEF ZombieComes
  <2>1. pc[q] = "parked" /\ q # p /\ q \notin woken /\ q \in waitWaker
    BY <1>0, <1>1 DEF WakerInPlace
  <2>2. q # c  BY <1>0, <2>1
  <2>3. i \in DOMAIN children[q] /\ children[q][i] \in Procs
    BY SMT, <1>0, <2>1 DEF Dead, Matching, TypeOK
  <2>4. i \in Dead(q)  BY <1>0, <1>1, <2>1, <2>3 DEF Dead, Matching
  <2>5. WakeComes(children[q][i], q)  BY <2>1, <2>4 DEF ZombieComes
  <2>6. \A x \in Procs : x # p /\ pc[x] # "done" => pc'[x] = pc[x] /\ arg'[x] = arg[x]
    BY <1>1
  <2>7. \A x \in Procs : pc[x] = "parent" /\ parent[x] = q => parent'[x] = q
    BY <1>0, <1>1, <2>2
  <2>8. pc[p] = "wake" => arg[p] # q  BY <1>0, <2>2
  <2> QED  BY SMT, <1>0, <2>3, <2>5, <2>6, <2>7, <2>8 DEF WakeComes
<1> QED  BY <1>2, <1>3, <1>4, <1>5, <1>6, <1>7

LEMMA TaskDoneInv ==
  ASSUME ProcInv, NEW p \in Procs, TaskDone(p)
  PROVE  ProcInv'
<1> USE DEF ProcInv
<1>0. /\ pc[p] = "return" /\ p # InitProc
      /\ woken' = woken \ {p} /\ waitWaker' = waitWaker \ {p}
      /\ UNCHANGED <<children, kids, arg, nohang, shell>>
  BY DEF TaskDone, InitStays, user
<1>1. /\ pc'[p] \in {"done", "none"}
      /\ \A q \in Procs \ {p} : pc'[q] = pc[q]
      /\ \A q \in Procs \ {p} : parent'[q] = parent[q] \/ parent[q] = p
      /\ \A q \in Procs : zombie'[q] => zombie[q]
      /\ \A q \in Procs : killed'[q] => killed[q]
  <2>1. CASE Arcs(p) = {}
    <3>1. Drop(p) /\ pc' = [pc EXCEPT ![p] = "none"]  BY <2>1 DEF TaskDone, Goto
    <3> QED  BY <3>1 DEF Drop, TypeOK
  <2>2. CASE Arcs(p) # {}
    BY <2>2 DEF TaskDone, Goto, flags, TypeOK
  <2> QED  BY <2>1, <2>2
<1>2. /\ LiveCount' /\ OneParent' /\ InitStays' /\ Freed' /\ EmptyHanded'
      /\ ParentAgrees' /\ live' \in 0..Cardinality(Procs)
      /\ zombie' \in [Procs -> BOOLEAN] /\ killed' \in [Procs -> BOOLEAN]
      /\ parent' \in [Procs -> Procs \cup {None}] /\ pc' \in [Procs -> PC]
  <2>1. CASE Arcs(p) = {}
    <3>1. p \notin Listed(children) \cup Listed(kids)
      <4>1. \A q \in Procs : /\ p \in Range(children[q]) => <<q, "children">> \in Arcs(p)
                             /\ p \in Range(kids[q]) => <<q, "kids">> \in Arcs(p)
        BY DEF Arcs
      <4>2. \A x : x \notin Arcs(p)  BY <2>1
      <4>3. \A q \in Procs : p \notin Range(children[q]) /\ p \notin Range(kids[q])
        BY ONLY <4>1, <4>2, Zenon
      <4> QED  BY ONLY <4>3 DEF Listed
    <3>2. Drop(p) /\ pc' = [pc EXCEPT ![p] = "none"]  BY <2>1 DEF TaskDone, Goto
    <3>3. /\ children' \in [Procs -> Seq(Procs)] /\ Unshared(children')
          /\ Listed(children') = Listed(children) \ {p}
          /\ \A q \in Procs : Range(children'[q]) \subseteq Range(children[q])
      BY <1>0, <3>1 DEF TypeOK, OneParent
    <3> QED  BY <1>0, <3>1, <3>2, <3>3, FreeInv
  <2>2. CASE Arcs(p) # {}
    <3>1. pc' = [pc EXCEPT ![p] = "done"] /\ UNCHANGED <<live, zombie, killed, parent>>
      BY <2>2 DEF TaskDone, Goto, flags
    <3>2. Exists' = Exists  BY <1>0, <3>1 DEF Exists, TypeOK
    <3>3. LiveCount' /\ OneParent'  BY <1>0, <3>1, <3>2, Frame
    <3>4. InitStays'  BY <1>0, <3>1, ProcAssumption DEF TypeOK, InitStays
    <3>5. Freed' /\ EmptyHanded' /\ ParentAgrees'
      BY <1>0, <3>1 DEF TypeOK, Freed, EmptyHanded, ParentAgrees
    <3> QED  BY <1>0, <3>1, <3>3, <3>4, <3>5 DEF TypeOK, PC
  <2> QED  BY <2>1, <2>2
<1>3. TypeOK'
  <2>1. nohang' \subseteq {q \in Procs : pc'[q] \in {"wait", "register", "scan"}}
    BY <1>0, <1>1 DEF TypeOK
  <2> QED  BY <1>0, <1>2, <2>1 DEF TypeOK
<1>4. ArgKnown'  BY <1>0, <1>1 DEF ArgKnown
<1>5. WakerInPlace'  BY <1>0, <1>1 DEF WakerInPlace
<1>6. KillComes'  BY SMTT(30), <1>0, <1>1 DEF KillComes
<1>7. ZombieComes'
  <2> SUFFICES ASSUME NEW q \in Procs, pc'[q] = "parked", NEW i \in Dead(q)', q \notin woken'
               PROVE  WakeComes(children[q][i], q)'
    BY DEF ZombieComes
  <2>1. pc[q] = "parked" /\ q # p /\ q \notin woken  BY <1>0, <1>1
  <2>2. i \in DOMAIN children[q] /\ children[q][i] \in Procs
    BY SMT, <1>0, <2>1 DEF Dead, Matching, TypeOK
  <2>3. i \in Dead(q)  BY <1>0, <1>1, <2>1, <2>2 DEF Dead, Matching
  <2>4. WakeComes(children[q][i], q)  BY <2>1, <2>3 DEF ZombieComes
  <2> QED  BY <1>0, <1>1, <2>1, <2>2, <2>4 DEF WakeComes
<1> QED  BY <1>2, <1>3, <1>4, <1>5, <1>6, <1>7

LEMMA ReapInv ==
  ASSUME ProcInv, NEW p \in Procs, Reap(p)
  PROVE  ProcInv'
<1> USE DEF ProcInv
<1>1. PICK k \in Dead(p) :
        /\ children' = [children EXCEPT ![p] =
                           SubSeq(@, 1, k - 1) \o SubSeq(@, k + 1, Len(@))]
        /\ Release(p, children[p][k], BackToUser(p))
        /\ Answer(p, children[p][k])
  BY DEF Reap
<1>2. /\ children[p] \in Seq(Procs) /\ k \in DOMAIN children[p]
      /\ children[p][k] \in Procs /\ zombie[children[p][k]]
  BY SMT DEF Dead, Matching, TypeOK
<1>3. PICK c \in Procs, l \in {"user", "take"} :
        /\ c = children[p][k] /\ l = BackToUser(p)
        /\ p = InitProc => l = "user"
  BY <1>2 DEF BackToUser, InitStays
<1>4. /\ pc[p] = "scan"
      /\ Release(p, c, l)
      /\ arg' = [arg EXCEPT ![p] = None]
      /\ nohang' = nohang \ {p}
      /\ shell' \in {shell, None}
      /\ UNCHANGED <<kids, waitWaker, woken>>
  BY <1>1, <1>3 DEF Reap, Answer, ForgetOptions, wakers
<1>5. /\ children' \in [Procs -> Seq(Procs)]
      /\ Removed(children[p], k, children'[p])
      /\ \A q \in Procs \ {p} : children'[q] = children[q]
  <2>1. PICK u : /\ u = SubSeq(children[p], 1, k - 1)
                           \o SubSeq(children[p], k + 1, Len(children[p]))
                 /\ children' = [children EXCEPT ![p] = u]
    BY <1>1
  <2>2. u \in Seq(Procs) /\ Removed(children[p], k, u)
    BY ONLY <1>2, <2>1, RemoveSpots, Zenon
  <2>3. children'[p] = u /\ \A q \in Procs \ {p} : children'[q] = children[q]
    BY ONLY <2>1, ProcInv, p \in Procs DEF TypeOK, ProcInv
  <2>4. children' \in [Procs -> Seq(Procs)]
    BY ONLY <2>1, <2>2, ProcInv, p \in Procs DEF TypeOK, ProcInv
  <2> QED  BY ONLY <2>2, <2>3, <2>4
<1>6. c # p /\ c # InitProc /\ c \in Listed(children) /\ c \notin Listed(kids)
  <2>1. c # p /\ c # InitProc  BY <1>2, <1>3, <1>4 DEF Freed, InitStays
  <2>2. c \in Range(children[p])  BY <1>2, <1>3 DEF Range
  <2> QED  BY SMT, <2>1, <2>2 DEF Listed, OneParent
<1>7. \A j \in DOMAIN children'[p] :
        \E m \in DOMAIN children[p] \ {k} :
          /\ j \in Nat /\ m = (IF j < k THEN j ELSE j + 1)
          /\ children'[p][j] = children[p][m]
  BY ONLY <1>5 DEF Removed
<1>8. \A q \in Procs : Range(children'[q]) \subseteq Range(children[q])
  <2>1. Range(children'[p]) \subseteq Range(children[p])  BY ONLY <1>7, Zenon DEF Range
  <2>2. \A q \in Procs : q # p => Range(children'[q]) = Range(children[q])  BY <1>5
  <2> QED  BY ONLY <2>1, <2>2
<1>9. Unshared(children)  BY DEF OneParent
<1>10. Unshared(children')
  <2> SUFFICES ASSUME NEW q \in Procs, NEW r \in Procs,
                      NEW i \in DOMAIN children'[q], NEW j \in DOMAIN children'[r],
                      children'[q][i] = children'[r][j]
               PROVE  q = r /\ i = j
    BY DEF Unshared
  <2>1. CASE q # p /\ r # p
    <3>1. children'[q] = children[q] /\ children'[r] = children[r]  BY <1>5, <2>1
    <3>2. /\ i \in DOMAIN children[q] /\ j \in DOMAIN children[r]
          /\ children[q][i] = children[r][j]
      BY <3>1
    <3> QED  BY ONLY <1>9, <3>2, q \in Procs, r \in Procs DEF Unshared
  <2>2. CASE q = p /\ r # p
    <3>1. PICK m \in DOMAIN children[p] : children'[p][i] = children[p][m]  BY <1>7, <2>2
    <3>2. children'[r] = children[r]  BY <1>5, <2>2
    <3> QED  BY <1>9, <2>2, <3>1, <3>2, Zenon DEF Unshared
  <2>3. CASE q # p /\ r = p
    <3>1. PICK m \in DOMAIN children[p] : children'[p][j] = children[p][m]  BY <1>7, <2>3
    <3>2. children'[q] = children[q]  BY <1>5, <2>3
    <3>3. i \in DOMAIN children[q] /\ children[q][i] = children[p][m]  BY <2>3, <3>1, <3>2
    <3> QED  BY ONLY <1>9, <2>3, <3>1, <3>3, q \in Procs, p \in Procs DEF Unshared
  <2>4. CASE q = p /\ r = p
    <3>1. PICK m \in DOMAIN children[p] \ {k} :
            /\ i \in Nat /\ m = (IF i < k THEN i ELSE i + 1)
            /\ children'[p][i] = children[p][m]
      BY <1>7, <2>4
    <3>2. PICK n \in DOMAIN children[p] \ {k} :
            /\ j \in Nat /\ n = (IF j < k THEN j ELSE j + 1)
            /\ children'[p][j] = children[p][n]
      BY <1>7, <2>4
    <3>3. m = n  BY SMT, <1>9, <2>4, <3>1, <3>2 DEF Unshared
    <3>4. k \in Int  BY <1>5 DEF Removed
    <3> QED  BY ONLY SMT, <2>4, <3>1, <3>2, <3>3, <3>4
  <2> QED  BY <2>1, <2>2, <2>3, <2>4
<1>11. Listed(children') = Listed(children) \ {c}
  <2>1. ASSUME NEW d \in Listed(children')  PROVE  d \in Listed(children) /\ d # c
    <3>1. PICK q \in Procs : d \in Range(children'[q])  BY <2>1 DEF Listed
    <3>2. d \in Listed(children)  BY <1>8, <3>1 DEF Listed
    <3>3. PICK j \in DOMAIN children'[q] : d = children'[q][j]  BY <3>1 DEF Range
    <3>4. CASE q = p
      <4>1. PICK m \in DOMAIN children[p] \ {k} : d = children[p][m]
        BY <1>7, <3>3, <3>4
      <4> QED  BY <1>2, <1>3, <1>9, <3>2, <4>1 DEF Unshared
    <3>5. CASE q # p
      <4>1. children'[q] = children[q]  BY <1>5, <3>5
      <4>2. j \in DOMAIN children[q] /\ d = children[q][j]  BY <3>3, <4>1
      <4>3. d # c  BY ONLY <1>2, <1>3, <1>9, <3>5, <4>2, q \in Procs, p \in Procs DEF Unshared
      <4> QED  BY <3>2, <4>3
    <3> QED  BY <3>4, <3>5
  <2>2. ASSUME NEW d \in Listed(children), d # c  PROVE  d \in Listed(children')
    <3>1. PICK q \in Procs : d \in Range(children[q])  BY <2>2 DEF Listed
    <3>2. PICK m \in DOMAIN children[q] : d = children[q][m]  BY <3>1 DEF Range
    <3>3. \E j \in DOMAIN children'[q] : d = children'[q][j]
      <4>1. CASE q = p
        <5>1. m \in DOMAIN children[p] \ {k}  BY <1>3, <2>2, <3>2, <4>1
        <5> QED  BY <1>5, <3>2, <4>1, <5>1 DEF Removed
      <4>2. CASE q # p  BY <1>5, <3>2, <4>2
      <4> QED  BY <4>1, <4>2
    <3>4. d \in Range(children'[q])  BY <3>3 DEF Range
    <3> QED  BY <3>4 DEF Listed
  <2> QED  BY <2>1, <2>2
<1>12. /\ pc'[p] = l
       /\ \A q \in Procs \ {p} : pc'[q] = pc[q] \/ (q = c /\ pc[c] = "done" /\ pc'[c] = "none")
       /\ \A q \in Procs \ {p} : arg'[q] = arg[q]
       /\ \A q \in Procs : \/ parent'[q] = parent[q] \/ pc'[q] = "none"
                           \/ (pc[c] = "done" /\ parent[q] = c)
       /\ \A q \in Procs : zombie'[q] => zombie[q]
       /\ \A q \in Procs : killed'[q] => killed[q]
  <2>0. \A q \in Procs \ {p} : arg'[q] = arg[q]  BY <1>4 DEF TypeOK
  <2>1. CASE pc[c] = "done" /\ Cardinality(Arcs(c)) = 1
    <3>1. Drop(c) /\ pc' = [pc EXCEPT ![p] = l, ![c] = "none"]
      BY <1>4, <2>1 DEF Release
    <3> QED  BY <1>6, <2>0, <2>1, <3>1 DEF Drop, TypeOK
  <2>2. CASE ~(pc[c] = "done" /\ Cardinality(Arcs(c)) = 1)
    BY <1>4, <2>0, <2>2 DEF Release, Goto, flags, TypeOK
  <2> QED  BY <2>1, <2>2
<1>13. /\ LiveCount' /\ OneParent' /\ InitStays' /\ Freed' /\ EmptyHanded'
       /\ ParentAgrees' /\ live' \in 0..Cardinality(Procs)
       /\ zombie' \in [Procs -> BOOLEAN] /\ killed' \in [Procs -> BOOLEAN]
       /\ parent' \in [Procs -> Procs \cup {None}] /\ pc' \in [Procs -> PC]
  <2>1. CASE pc[c] = "done" /\ Cardinality(Arcs(c)) = 1
    <3>1. Drop(c) /\ pc' = [pc EXCEPT ![p] = l, ![c] = "none"]
      BY <1>4, <2>1 DEF Release
    <3>2. pc[c] \in {"done", "return"} /\ l \in {"return", "user", "take"}
      BY <1>3, <2>1
    <3>3. /\ p # c /\ pc[p] \in {"wake", "kill", "scan"}
          /\ l = "return" <=> pc[p] = "wake"
          /\ p = InitProc => l = "user"
      BY <1>3, <1>4, <1>6
    <3> QED
      BY ONLY <1>4, <1>5, <1>6, <1>8, <1>10, <1>11, <3>1, <3>2, <3>3, FreeInv,
              ProcInv, p \in Procs
  <2>2. CASE ~(pc[c] = "done" /\ Cardinality(Arcs(c)) = 1)
    <3>1. pc' = [pc EXCEPT ![p] = l] /\ UNCHANGED <<live, zombie, killed, parent>>
      BY <1>4, <2>2 DEF Release, Goto, flags
    <3>2. Exists' = Exists
      <4>1. \A q \in Procs : pc'[q] = "none" <=> pc[q] = "none"
        BY <1>4, <3>1 DEF TypeOK
      <4> QED  BY <4>1 DEF Exists
    <3>3. LiveCount'  BY <3>1, <3>2 DEF LiveCount
    <3>4. OneParent'
      <4>1. Listed(kids') = Listed(kids) /\ Unshared(kids')  BY <1>4 DEF OneParent
      <4>2. zombie'[c]  BY <1>2, <1>3, <3>1
      <4> QED  BY <1>10, <1>11, <3>1, <3>2, <4>1, <4>2 DEF OneParent
    <3>5. InitStays'  BY <1>3, <3>1, ProcAssumption DEF TypeOK, InitStays
    <3>6. Freed'  BY <1>4, <3>1 DEF TypeOK, Freed
    <3>7. EmptyHanded'  BY <1>3, <1>4, <1>5, <3>1 DEF TypeOK, EmptyHanded
    <3>8. ParentAgrees'
      <4>1. \A i \in DOMAIN children'[p] : parent'[children'[p][i]] = p
        BY SMT, <1>7, <3>1 DEF ParentAgrees
      <4>2. \A q \in Procs \ {p} : \A i \in DOMAIN children'[q] :
              parent'[children'[q][i]] = q
        BY <1>5, <3>1 DEF ParentAgrees
      <4>3. \A q \in Procs : pc'[q] = "splice" =>
              \A i \in DOMAIN kids'[q] : parent'[kids'[q][i]] = InitProc
        BY <1>3, <1>4, <3>1 DEF ParentAgrees, TypeOK
      <4> QED  BY ONLY <4>1, <4>2, <4>3 DEF ParentAgrees
    <3>9. pc' \in [Procs -> PC]  BY <1>3, <3>1 DEF TypeOK, PC
    <3> QED  BY <3>1, <3>3, <3>4, <3>5, <3>6, <3>7, <3>8, <3>9 DEF TypeOK
  <2> QED  BY <2>1, <2>2
<1>14. TypeOK'
  <2>1. arg' \in [Procs -> Procs \cup {None}]  BY <1>4 DEF TypeOK
  <2>2. nohang' \subseteq {q \in Procs : pc'[q] \in {"wait", "register", "scan"}}
    BY <1>4, <1>12 DEF TypeOK
  <2> QED  BY ONLY <1>4, <1>5, <1>13, <2>1, <2>2, ProcInv DEF TypeOK, ProcInv
<1>15. ArgKnown'  BY <1>3, <1>12 DEF ArgKnown
<1>16. WakerInPlace'  BY <1>3, <1>4, <1>12 DEF WakerInPlace
<1>17. KillComes'
  <2> SUFFICES ASSUME NEW q \in Procs, pc'[q] \in {"register", "scan", "parked"},
                      killed'[q], q \notin woken'
               PROVE  \E x \in Procs : pc'[x] = "kill" /\ arg'[x] = q
    BY DEF KillComes
  <2>1. pc[q] \in {"register", "scan", "parked"} /\ killed[q] /\ q \notin woken
    BY <1>3, <1>4, <1>12
  <2>2. PICK x \in Procs : pc[x] = "kill" /\ arg[x] = q  BY <2>1 DEF KillComes
  <2> QED  BY <1>4, <1>12, <2>2
<1>18. ZombieComes'
  <2> SUFFICES ASSUME NEW q \in Procs, pc'[q] = "parked", NEW i \in Dead(q)', q \notin woken'
               PROVE  WakeComes(children[q][i], q)'
    BY DEF ZombieComes
  <2>1. pc[q] = "parked" /\ q # p /\ q \notin woken  BY <1>3, <1>4, <1>12
  <2>2. children'[q] = children[q] /\ arg'[q] = arg[q]  BY <1>5, <1>12, <2>1
  <2>3. i \in DOMAIN children[q] /\ children[q][i] \in Procs
    <3>1. children[q] \in Seq(Procs)  BY DEF TypeOK
    <3>2. i \in DOMAIN children[q]  BY <2>2 DEF Dead, Matching
    <3> QED  BY ONLY SMT, <3>1, <3>2
  <2>4. i \in Dead(q)  BY <1>12, <2>2, <2>3 DEF Dead, Matching
  <2>5. WakeComes(children[q][i], q)  BY <2>1, <2>4 DEF ZombieComes
  <2>6. \A x \in Procs : pc[x] \in {"parent", "wake", "tell"} =>
          pc'[x] = pc[x] /\ arg'[x] = arg[x] /\ (parent[x] = q => parent'[x] = q)
    BY <1>4, <1>12, <2>1
  <2>7. WakeComes(children[q][i], q)' <=>
          \/ pc'[children[q][i]] = "parent" /\ parent'[children[q][i]] = q
          \/ pc'[children[q][i]] = "wake" /\ arg'[children[q][i]] = q
          \/ q = InitProc /\ \E x \in Procs : pc'[x] = "tell"
    BY <2>2 DEF WakeComes
  <2> QED  BY ONLY <2>3, <2>5, <2>6, <2>7 DEF WakeComes
<1> QED  BY ONLY <1>13, <1>14, <1>15, <1>16, <1>17, <1>18 DEF ProcInv

-----------------------------------------------------------------------------
(* The theorems.                                                           *)

LEMMA NextInv == ProcInv /\ [Next]_vars => ProcInv'
<1> SUFFICES ASSUME ProcInv, [Next]_vars  PROVE ProcInv'
  OBVIOUS
<1>1. CASE UNCHANGED vars
  <2>1. UNCHANGED <<live, zombie, killed, parent, children, kids, waitWaker, woken,
                    pc, arg, nohang, shell>>
    BY <1>1 DEF vars, flags, tree, wakers, user
  <2>2. Exists' = Exists  BY <2>1 DEF Exists
  <2>3. LiveCount' /\ OneParent'  BY <2>1, <2>2, Frame DEF ProcInv
  <2>4. TypeOK' /\ InitStays' /\ Freed' /\ EmptyHanded'
    BY <2>1 DEF ProcInv, TypeOK, InitStays, Freed, EmptyHanded
  <2>5. ParentAgrees' /\ ArgKnown' /\ WakerInPlace' /\ KillComes'
    BY <2>1 DEF ProcInv, ParentAgrees, ArgKnown, WakerInPlace, KillComes
  <2>6. \A q \in Procs : Dead(q)' = Dead(q)  BY <2>1 DEF Dead, Matching
  <2>7. ZombieComes'
    BY <2>1, <2>6 DEF ProcInv, ZombieComes, WakeComes
  <2> QED  BY <2>3, <2>4, <2>5, <2>7 DEF ProcInv
<1>2. ASSUME NEW p \in Procs, Kernel(p)  PROVE ProcInv'
  BY <1>2, ForkInv, ControlInv, TakeKidsInv, ReparentInv, SpliceInv, TellInv,
     SetZombieInv, ReadParentInv, WakeInv, TaskDoneInv, WaitInv, ReapInv DEF Kernel
<1>3. ASSUME NEW p \in Procs, Program(p)  PROVE ProcInv'
  BY <1>3, ControlInv, CallWaitInv, KillInv DEF Program
<1> QED  BY <1>1, <1>2, <1>3 DEF Next

\* The facts about procs, lists, references and wake-ups that keep fork, exit,
\* waitpid and kill correct together hold in every state.
THEOREM ProcTreeInvariant == Spec => []ProcInv
  BY InitInv, NextInv, PTL DEF Spec

\* LIVE_PROCS is the number of procs not freed, for any number of procs and any
\* interleaving: with_layout's count and Drop's balance (proc.rs).
THEOREM LiveCountHolds == Spec => []LiveCount
<1>1. ProcInv => LiveCount  BY DEF ProcInv
<1> QED  BY <1>1, ProcTreeInvariant, PTL

\* A proc is in one list of children at most, and in one as long as it has not
\* exited, whatever splices of exiting parents and reaps by init do (sys_exit).
THEOREM OneParentHolds == Spec => []OneParent
<1>1. ProcInv => OneParent  BY DEF ProcInv
<1> QED  BY <1>1, ProcTreeInvariant, PTL

\* A waitpid that is parked for good has no zombie to reap: registering the waker
\* before the scan, and waking after the zombie state is set, suffice.
THEOREM ZombieNotForgotten == Spec => []NoForgottenZombie
<1>1. ProcInv => NoForgottenZombie
  <2> SUFFICES ASSUME ProcInv, Quiet, NEW p \in Procs, pc[p] = "parked",
                      NEW i \in Dead(p)
               PROVE  FALSE
    BY DEF NoForgottenZombie
  <2>1. children[p] \in Seq(Procs) /\ i \in DOMAIN children[p]
    BY DEF ProcInv, TypeOK, Dead, Matching
  <2>2. children[p][i] \in Procs  BY SMT, <2>1
  <2>3. p \notin woken  BY DEF Quiet
  <2>4. WakeComes(children[p][i], p)  BY <2>3 DEF ProcInv, ZombieComes
  <2> QED  BY <2>2, <2>4 DEF WakeComes, Quiet
<1> QED  BY <1>1, ProcTreeInvariant, PTL

\* A waitpid that is parked for good is not killed: kill wakes it after it set the
\* flag that waitpid looks at before it registers.
THEOREM KillNotForgotten == Spec => []NoForgottenKill
<1>1. ProcInv => NoForgottenKill
  BY DEF ProcInv, NoForgottenKill, Quiet, KillComes
<1> QED  BY <1>1, ProcTreeInvariant, PTL

=============================================================================
