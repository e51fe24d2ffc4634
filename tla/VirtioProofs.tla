---------------------------- MODULE VirtioProofs ----------------------------
(***************************************************************************)
(* The inductive invariant of the virtio block driver, and the facts about *)
(* its ring indices, its descriptor table and its chains that the proof    *)
(* rests on: for every table size, every width of the ring indices and     *)
(* every set of tasks, on any number of harts.                             *)
(***************************************************************************)
EXTENDS VirtioBlk, FiniteSetTheorems, TLAPS

\* Most steps are first-order; the others name the backend they need.
USE ZenonT(40)

-----------------------------------------------------------------------------
(* The inductive invariant.                                                *)

\* A task has a chain from submit_chain to finish, and the chain knows its task.
Busy == {"notify", "breg", "bchk", "bparked", "finish"}
Heads ==
  /\ \A t \in Tasks : /\ head[t] # None <=> pc[t] \in Busy
                      /\ head[t] # None => owner[head[t]] = t
                      /\ pc[t] = "finish" => completed[head[t]]
  /\ \A d \in Descs : owner[d] # None => head[owner[d]] = d

\* Every chain has three descriptors, none of them free.
Threes ==
  \A t \in InFlight :
    LET h == head[t] IN
    /\ next[h] \in Descs \ {h}
    /\ next[next[h]] \in Descs \ {h, next[h]}
    /\ Chain(h) \cap free = {}

\* Chains share no descriptor, and one that is in no chain is free.
Apart ==
  /\ \A t, u \in InFlight : t # u => Chain(head[t]) \cap Chain(head[u]) = {}
  /\ \A d \in Descs \ free : \E t \in InFlight : d \in Chain(head[t])

Counted == Cardinality(free) + 3 * Cardinality(InFlight) = NUM

\* How far the index j is ahead of the index i
Ahead(i, j) == IF j >= i THEN j - i ELSE j - i + WRAP

\* The ring positions from a up to, not including, b
Between(a, b, k) == IF a <= b THEN a <= k /\ k < b ELSE a <= k \/ k < b

\* The entries of ring from index i to index j, less than the whole ring, are
\* all that is in it, and no two are the same.
Ring(ring, i, j) ==
  /\ Ahead(i, j) < NUM
  /\ RingPos(j) - RingPos(i) \in {Ahead(i, j), Ahead(i, j) - NUM}
  /\ \A k \in Descs : ring[k] # None <=> Between(RingPos(i), RingPos(j), k)
  /\ \A k, m \in Descs : ring[k] = ring[m] /\ ring[k] # None => k = m

Rings == Ring(avail, seenAvail, availIdx) /\ Ring(used, seenUsed, usedIdx)

\* The handler works on entries the device has published.
Drains ==
  /\ irq \in {"drain", "wake"} => Ahead(seenUsed, usedNow) <= Ahead(seenUsed, usedIdx)
  /\ irq = "wake" => seenUsed # usedNow

On(ring, d) == \E k \in Descs : ring[k] = d

\* The entry whose flag is set and whose task is not yet woken
Current(d) == irq = "wake" /\ used[RingPos(seenUsed)] = d

\* A chain is in the avail ring, in service, in the used ring or completed, and
\* in only one of these; what is in one of these is the head of a chain.
Stage(d) ==
  /\ On(avail, d) \/ d \in serving \/ On(used, d) => owner[d] # None
  /\ On(avail, d) => d \notin serving /\ ~On(used, d)
  /\ d \in serving => ~On(used, d)
  /\ owner[d] # None => On(avail, d) \/ d \in serving \/ On(used, d) \/ completed[d]
  /\ owner[d] # None /\ completed[d] => /\ ~On(avail, d) /\ d \notin serving
                                        /\ On(used, d) => Current(d)
                                        /\ owner[d] \in served
  /\ On(used, d) => owner[d] \in served
  /\ Current(d) => completed[d]

\* Whoever has something to take from a ring has been told, or is about to be.
Told ==
  /\ seenAvail # availIdx => kicked \/ \E t \in Tasks : pc[t] = "notify"
  /\ irq = "idle" /\ seenUsed # usedIdx => intr
  /\ irq \in {"drain", "wake"} /\ usedNow # usedIdx => intr

\* A task that waits for its request is in the head's cell until it is completed,
\* and is then woken.
OpWaits(t) ==
  /\ pc[t] = "bchk" => waker[head[t]] = t \/ completed[head[t]]
  /\ pc[t] = "bparked" /\ t \notin woken =>
       waker[head[t]] = t /\ (completed[head[t]] => Current(head[t]))

\* A task that waits for descriptors is on the list while there are too few, and
\* is woken after that.
DescWaits(t) ==
  /\ pc[t] = "dchk" => t \in descWaiters \cup woken
  /\ pc[t] = "dparked" /\ t \notin woken =>
       /\ t \in descWaiters
       /\ Cardinality(free) < 3 \/ \E u \in Tasks : pc[u] = "fwake"

VirtioInvariant ==
  /\ TypeOK /\ Heads /\ Threes /\ Apart /\ Counted
  /\ Rings /\ Drains /\ Told
  /\ \A d \in Descs : Stage(d)
  /\ \A t \in Tasks : OpWaits(t) /\ DescWaits(t)

-----------------------------------------------------------------------------
(* Ring indices.                                                           *)

LEMMA SuccIs ==
  ASSUME NEW i \in 0..(WRAP - 1)
  PROVE  Succ(i) = IF i + 1 = WRAP THEN 0 ELSE i + 1
  BY SMT, VirtioAssumption DEF Succ

LEMMA NextRest ==
  ASSUME NEW i \in Nat
  PROVE  (i + 1) % NUM = IF (i % NUM) + 1 = NUM THEN 0 ELSE (i % NUM) + 1
<1>1. NUM \in Int /\ NUM > 0 /\ i \in Int  BY SMT, VirtioAssumption
<1>2. i % NUM \in 0..(NUM - 1)  BY SMT, VirtioAssumption
<1>3. i \div NUM \in Int  BY SMT, <1>1
<1>4. i = NUM * (i \div NUM) + (i % NUM)  BY ONLY SMT, <1>1
<1>5. PICK q \in Int, r \in 0..(NUM - 1) : i = NUM * q + r /\ r = i % NUM
  BY ONLY <1>2, <1>3, <1>4
<1>6. CASE r + 1 = NUM
  <2>1. i + 1 = NUM * (q + 1)  BY SMT, <1>5, <1>6, <1>1
  <2>2. (NUM * (q + 1)) % NUM = 0  BY SMT, <1>1
  <2> QED  BY <1>1, <1>5, <1>6, <2>1, <2>2
<1>7. CASE r + 1 # NUM
  <2>1. i + 1 = NUM * q + (r + 1)  BY SMT, <1>1, <1>5
  <2>2. (NUM * q + (r + 1)) % NUM = r + 1  BY SMT, <1>1, <1>7
  <2> QED  BY <1>1, <1>5, <1>7, <2>1, <2>2
<1> QED  BY <1>5, <1>6, <1>7

\* The index after i is at the next ring position, because the number of ring
\* entries divides the number of index values.
LEMMA RingPosSucc ==
  ASSUME NEW i \in 0..(WRAP - 1)
  PROVE  /\ RingPos(i) \in Descs /\ Succ(i) \in 0..(WRAP - 1)
         /\ RingPos(Succ(i)) = IF RingPos(i) + 1 = NUM THEN 0 ELSE RingPos(i) + 1
<1>1. RingPos(i) \in Descs  BY SMT, VirtioAssumption DEF RingPos, Descs
<1>2. Succ(i) \in 0..(WRAP - 1)  BY SMT, SuccIs, VirtioAssumption
<1>3. (i + 1) % NUM = IF RingPos(i) + 1 = NUM THEN 0 ELSE RingPos(i) + 1
  <2>1. i \in Nat  BY SMT, VirtioAssumption
  <2> QED  BY <2>1, NextRest DEF RingPos
<1>4. CASE i + 1 = WRAP
  <2>1. Succ(i) = 0 /\ 0 % NUM = 0 /\ (i + 1) % NUM = 0
    BY SMT, <1>4, SuccIs, VirtioAssumption
  <2> QED  BY <1>1, <1>2, <1>3, <2>1 DEF RingPos, Descs
<1>5. CASE i + 1 # WRAP
  <2>1. Succ(i) = i + 1  BY <1>5, SuccIs
  <2> QED  BY <1>1, <1>2, <1>3, <2>1 DEF RingPos
<1> QED  BY <1>4, <1>5

\* Taking the oldest entry out of a ring that is not empty.
LEMMA RingPop ==
  ASSUME NEW ring \in [Descs -> Descs \cup {None}],
         NEW i \in 0..(WRAP - 1), NEW j \in 0..(WRAP - 1), i # j,
         Ring(ring, i, j)
  PROVE  LET popped == [ring EXCEPT ![RingPos(i)] = None] IN
         /\ ring[RingPos(i)] \in Descs
         /\ Ring(popped, Succ(i), j)
         /\ \A d \in Descs : On(popped, d) <=> On(ring, d) /\ d # ring[RingPos(i)]
<1> DEFINE a == RingPos(i)
           b == RingPos(j)
           c == RingPos(Succ(i))
           popped == [ring EXCEPT ![RingPos(i)] = None]
<1>1. /\ a \in Descs /\ b \in Descs /\ c \in Descs
      /\ c = IF a + 1 = NUM THEN 0 ELSE a + 1
      /\ Succ(i) \in 0..(WRAP - 1)
  BY RingPosSucc
<1>2. /\ NUM \in Nat /\ WRAP \in Nat /\ NUM >= 3
      /\ \A d \in Descs : d \in 0..(NUM - 1) /\ d # None
  BY VirtioAssumption DEF Descs
<1>3. Ahead(i, j) \in 1..(NUM - 1) /\ Ahead(Succ(i), j) = Ahead(i, j) - 1
  BY SMT, <1>1, <1>2, SuccIs DEF Ring, Ahead
<1>4. b - a \in {Ahead(i, j), Ahead(i, j) - NUM}  BY DEF Ring
<1>5. /\ b - c \in {Ahead(i, j) - 1, Ahead(i, j) - 1 - NUM}
      /\ Between(a, b, a)
      /\ \A k \in Descs : Between(c, b, k) <=> Between(a, b, k) /\ k # a
  <2> HIDE DEF a, b, c
  <2> QED  BY SMT, <1>1, <1>2, <1>3, <1>4 DEF Between
<1>6. ring[a] \in Descs  BY <1>1, <1>2, <1>5 DEF Ring
<1>7. /\ \A k \in Descs : popped[k] = IF k = a THEN None ELSE ring[k]  BY <1>1
<1>8. Ring(popped, Succ(i), j)
  <2>1. \A k \in Descs : popped[k] # None <=> Between(c, b, k)
    BY <1>5, <1>7 DEF Ring
  <2>2. \A k, m \in Descs : popped[k] = popped[m] /\ popped[k] # None => k = m
    BY <1>7 DEF Ring
  <2>3. Ahead(Succ(i), j) < NUM  BY SMT, <1>2, <1>3
  <2>4. RingPos(j) - RingPos(Succ(i)) \in {Ahead(Succ(i), j), Ahead(Succ(i), j) - NUM}
    BY <1>3, <1>5
  <2> QED  BY <2>1, <2>2, <2>3, <2>4 DEF Ring
<1>9. \A d \in Descs : On(popped, d) <=> On(ring, d) /\ d # ring[a]
  <2> TAKE d \in Descs
  <2>1. ASSUME On(popped, d) PROVE On(ring, d) /\ d # ring[a]
    <3>1. PICK k \in Descs : popped[k] = d  BY <2>1 DEF On
    <3>2. k # a /\ ring[k] = d  BY <1>2, <1>7, <3>1
    <3>3. ring[k] # ring[a]  BY <1>1, <1>2, <3>2 DEF Ring
    <3> QED  BY <3>2, <3>3 DEF On
  <2>2. ASSUME On(ring, d), d # ring[a] PROVE On(popped, d)
    <3>1. PICK k \in Descs : ring[k] = d  BY <2>2 DEF On
    <3>2. popped[k] = d  BY <1>7, <2>2, <3>1
    <3> QED  BY <3>2 DEF On
  <2> QED  BY <2>1, <2>2
<1> QED  BY <1>6, <1>8, <1>9

\* Putting an entry into a ring in which there is always one more position than
\* there are entries.
LEMMA RingPush ==
  ASSUME NEW ring \in [Descs -> Descs \cup {None}],
         NEW i \in 0..(WRAP - 1), NEW j \in 0..(WRAP - 1),
         Ring(ring, i, j), NEW d \in Descs, ~On(ring, d),
         NEW x \in Descs, x # d, ~On(ring, x)
  PROVE  LET pushed == [ring EXCEPT ![RingPos(j)] = d] IN
         /\ ring[RingPos(j)] = None
         /\ Ring(pushed, i, Succ(j))
         /\ Ahead(i, Succ(j)) = Ahead(i, j) + 1
         /\ \A e \in Descs : On(pushed, e) <=> On(ring, e) \/ e = d
<1> DEFINE a == RingPos(i)
           b == RingPos(j)
           c == RingPos(Succ(j))
           pushed == [ring EXCEPT ![RingPos(j)] = d]
<1>1. /\ a \in Descs /\ b \in Descs /\ c \in Descs
      /\ c = IF b + 1 = NUM THEN 0 ELSE b + 1
      /\ Succ(j) \in 0..(WRAP - 1)
  BY RingPosSucc
<1>2. /\ NUM \in Nat /\ WRAP \in Nat /\ NUM >= 3 /\ NUM <= WRAP
      /\ \A e \in Descs : e \in 0..(NUM - 1) /\ e # None
  <2>1. NUM <= WRAP
    <3>1. SUFFICES ASSUME WRAP < NUM PROVE FALSE  BY SMT, VirtioAssumption
    <3>2. WRAP % NUM = WRAP  BY SMT, <3>1, VirtioAssumption
    <3> QED  BY SMT, <3>2, VirtioAssumption
  <2> QED  BY <2>1, VirtioAssumption DEF Descs
<1>3. Ahead(i, j) \in 0..(NUM - 1)  BY SMT, <1>2 DEF Ring, Ahead
<1>4. b - a \in {Ahead(i, j), Ahead(i, j) - NUM}  BY DEF Ring
<1>5. \A k \in Descs : pushed[k] = IF k = b THEN d ELSE ring[k]  BY <1>1
<1>6. /\ ring[b] = None
      /\ \A k, m \in Descs : pushed[k] = pushed[m] /\ pushed[k] # None => k = m
  <2>1. ~Between(a, b, b)
    <3> HIDE DEF a, b
    <3> QED  BY SMT, <1>1, <1>2 DEF Between
  <2>2. ring[b] = None  BY <1>1, <2>1 DEF Ring
  <2> QED  BY <1>5, <2>2 DEF Ring, On
<1>7. Ahead(i, j) # NUM - 1
  <2>1. SUFFICES ASSUME Ahead(i, j) = NUM - 1 PROVE FALSE  OBVIOUS
  <2>2. \A k \in Descs \ {b} : Between(a, b, k)
    <3> HIDE DEF a, b
    <3> QED  BY SMT, <1>1, <1>2, <1>4, <2>1 DEF Between
  <2>3. pushed \in [Descs -> Descs \ {x}]
    <3>1. \A k \in Descs : ring[k] # x  BY DEF On
    <3>2. \A k \in Descs : pushed[k] \in Descs \ {x}  BY <1>5, <2>2, <3>1 DEF Ring
    <3> QED  BY <3>2
  <2>4. IsFiniteSet(Descs)  BY SMT, <1>2, FS_Interval DEF Descs
  <2>5. /\ IsFiniteSet(Descs \ {x}) /\ Cardinality(Descs) \in Nat
        /\ Cardinality(Descs \ {x}) = Cardinality(Descs) - 1
    BY <2>4, FS_RemoveElement, FS_CardinalityType
  <2>6. \E k, m \in Descs : k # m /\ pushed[k] = pushed[m]
    <3> HIDE DEF pushed
    <3> QED  BY SMT, <2>3, <2>4, <2>5, FS_PigeonHole
  <2> QED  BY <1>2, <1>6, <2>3, <2>6
<1>8. Ahead(i, Succ(j)) = Ahead(i, j) + 1 /\ Ahead(i, Succ(j)) < NUM
  BY SMT, <1>1, <1>2, <1>3, <1>7, SuccIs DEF Ahead
<1>9. /\ c - a \in {Ahead(i, j) + 1, Ahead(i, j) + 1 - NUM}
      /\ \A k \in Descs : Between(a, c, k) <=> Between(a, b, k) \/ k = b
  <2> HIDE DEF a, b, c
  <2> QED  BY SMT, <1>1, <1>2, <1>3, <1>4, <1>7 DEF Between
<1>10. \A k \in Descs : pushed[k] # None <=> Between(a, c, k)
  BY <1>2, <1>5, <1>9 DEF Ring
<1>11. Ring(pushed, i, Succ(j))
  <2>1. RingPos(Succ(j)) - RingPos(i) \in {Ahead(i, Succ(j)), Ahead(i, Succ(j)) - NUM}
    BY SMT, <1>1, <1>2, <1>3, <1>8, <1>9
  <2> HIDE DEF pushed
  <2> QED  BY <1>6, <1>8, <1>10, <2>1 DEF Ring
<1>12. \A e \in Descs : On(pushed, e) <=> On(ring, e) \/ e = d
  BY <1>1, <1>2, <1>5, <1>6 DEF On
<1> QED  BY <1>6, <1>8, <1>11, <1>12

-----------------------------------------------------------------------------
(* Descriptors and chains.                                                 *)

LEMMA LowestIn ==
  ASSUME NEW S \in SUBSET Nat, S # {}
  PROVE  Lowest(S) \in S
<1>1. PICK i \in S : \A j \in S : <<j, i>> \notin OpToRel(<, Nat)
  BY NatLessThanWellFounded, WFMin
<1>2. \A j \in S : <<j, i>> \in Nat \X Nat /\ <<j, i>>[1] = j /\ <<j, i>>[2] = i
  OBVIOUS
<1>3. \A j \in S : ~(j < i)  BY <1>1, <1>2 DEF OpToRel
<1>4. S \subseteq Nat  OBVIOUS
<1>5. \A j \in S : i <= j  BY ONLY SMT, <1>3, <1>4, i \in S
<1> QED  BY <1>5 DEF Lowest

LEMMA FreeIsFinite ==
  ASSUME TypeOK
  PROVE  /\ free \subseteq Descs /\ Descs \subseteq Nat /\ IsFiniteSet(free)
         /\ IsFiniteSet(InFlight) /\ IsFiniteSet(Descs) /\ Cardinality(Descs) = NUM
         /\ Cardinality(free) \in Nat /\ Cardinality(InFlight) \in Nat
<1>1. free \in SUBSET Descs /\ InFlight \in SUBSET Tasks /\ Descs \subseteq Nat
  BY SMT DEF TypeOK, InFlight, Descs
<1>2. IsFiniteSet(Descs) /\ Cardinality(Descs) = NUM
  BY SMT, FS_Interval, VirtioAssumption DEF Descs
<1>3. IsFiniteSet(free) /\ IsFiniteSet(InFlight)
  BY <1>1, <1>2, FS_Subset, VirtioAssumption
<1> QED  BY <1>1, <1>2, <1>3, FS_CardinalityType

\* alloc_three finds three descriptors when there are three.
LEMMA AllocIs ==
  ASSUME TypeOK, ~(Cardinality(free) < 3)
  PROVE  \E a, b, c \in free : /\ a # b /\ a # c /\ b # c /\ AllocThree = <<a, b, c>>
                               /\ Cardinality(free \ {a, b, c}) = Cardinality(free) - 3
<1> DEFINE a == Lowest(free)
           b == Lowest(free \ {a})
           c == Lowest(free \ {a, b})
<1>1. /\ free \in SUBSET Nat /\ IsFiniteSet(free) /\ Cardinality(free) \in Nat
  BY FreeIsFinite
<1>2. a \in free
  <2>1. free # {}  BY SMT, <1>1, FS_EmptySet
  <2> QED  BY <1>1, <2>1, LowestIn
<1>3. /\ IsFiniteSet(free \ {a}) /\ Cardinality(free \ {a}) = Cardinality(free) - 1
  BY <1>1, <1>2, FS_RemoveElement
<1>4. b \in free \ {a}
  <2>1. free \ {a} # {}  BY SMT, <1>1, <1>3, FS_EmptySet
  <2>2. free \ {a} \in SUBSET Nat  BY <1>1
  <2> HIDE DEF a
  <2> QED  BY <2>1, <2>2, LowestIn
<1>5. /\ IsFiniteSet(free \ {a, b}) /\ Cardinality(free \ {a, b}) = Cardinality(free) - 2
  <2> HIDE DEF a, b
  <2>1. (free \ {a}) \ {b} = free \ {a, b}  OBVIOUS
  <2>2. /\ IsFiniteSet((free \ {a}) \ {b})
        /\ Cardinality((free \ {a}) \ {b}) = Cardinality(free \ {a}) - 1
    BY <1>3, <1>4, FS_RemoveElement
  <2> QED  BY SMT, <1>1, <1>3, <2>1, <2>2
<1>6. c \in free \ {a, b}
  <2> HIDE DEF a, b
  <2>1. free \ {a, b} # {}
    <3>1. Cardinality(free \ {a, b}) # 0  BY SMT, <1>1, <1>5
    <3> QED  BY <3>1, <1>5, FS_EmptySet
  <2>2. free \ {a, b} \in SUBSET Nat  BY <1>1
  <2> QED  BY <2>1, <2>2, LowestIn
<1>7. Cardinality(free \ {a, b, c}) = Cardinality(free) - 3
  <2> HIDE DEF a, b, c
  <2>1. (free \ {a, b}) \ {c} = free \ {a, b, c}  OBVIOUS
  <2>2. Cardinality((free \ {a, b}) \ {c}) = Cardinality(free \ {a, b}) - 1
    BY <1>5, <1>6, FS_RemoveElement
  <2> QED  BY SMT, <1>1, <1>5, <2>1, <2>2
<1>8. AllocThree = <<a, b, c>>  BY DEF AllocThree
<1> HIDE DEF a, b, c
<1> QED  BY <1>2, <1>4, <1>6, <1>7, <1>8

\* The chain that free_chain walks through is not free, and comes back whole.
LEMMA ChainFreed ==
  ASSUME TypeOK, Threes, NEW t \in InFlight
  PROVE  /\ Chain(head[t]) \subseteq Descs
         /\ Cardinality(free \cup Chain(head[t])) = Cardinality(free) + 3
<1> DEFINE h == head[t]
<1>1. /\ h \in Descs /\ next[h] \in Descs \ {h} /\ next[next[h]] \in Descs \ {h, next[h]}
      /\ h \notin free /\ next[h] \notin free /\ next[next[h]] \notin free
  BY DEF Threes, TypeOK, InFlight, Chain
<1>2. PICK b, c : b = next[h] /\ c = next[next[h]]  OBVIOUS
<1> HIDE DEF h
<1>3. free \cup Chain(h) = ((free \cup {h}) \cup {b}) \cup {c} /\ Chain(h) \subseteq Descs
  BY <1>1, <1>2 DEF Chain
<1>4. IsFiniteSet(free) /\ Cardinality(free) \in Nat  BY FreeIsFinite
<1>5. IsFiniteSet(free \cup {h}) /\ Cardinality(free \cup {h}) = Cardinality(free) + 1
  BY <1>1, <1>4, FS_AddElement
<1>6. /\ IsFiniteSet((free \cup {h}) \cup {b})
      /\ Cardinality((free \cup {h}) \cup {b}) = Cardinality(free \cup {h}) + 1
  <2>1. b \notin free \cup {h}  BY <1>1, <1>2
  <2> QED  BY <1>5, <2>1, FS_AddElement
<1>7. Cardinality(((free \cup {h}) \cup {b}) \cup {c})
        = Cardinality((free \cup {h}) \cup {b}) + 1
  <2>1. c \notin (free \cup {h}) \cup {b}  BY <1>1, <1>2
  <2> QED  BY <1>6, <2>1, FS_AddElement
<1>8. Cardinality(((free \cup {h}) \cup {b}) \cup {c}) = Cardinality(free) + 3
  BY SMT, <1>4, <1>5, <1>6, <1>7
<1> QED  BY <1>3, <1>8 DEF h

-----------------------------------------------------------------------------
(* The initial state, and the steps that leave the descriptor table alone. *)

LEMMA EmptyRing ==
  ASSUME NEW i \in 0..(WRAP - 1)
  PROVE  Ring([d \in Descs |-> None], i, i)
<1>1. RingPos(i) \in Descs /\ i \in Int /\ NUM \in Nat /\ NUM >= 3 /\ WRAP \in Nat
  BY SMT, RingPosSucc, VirtioAssumption
<1>2. Ahead(i, i) = 0 /\ RingPos(i) - RingPos(i) = 0  BY SMT, <1>1 DEF Ahead, Descs
<1>3. \A k \in Descs : ~Between(RingPos(i), RingPos(i), k)  BY SMT, <1>1 DEF Between, Descs
<1>4. 0 < NUM  BY SMT, <1>1
<1> QED  BY <1>2, <1>3, <1>4 DEF Ring

LEMMA InitInv == Init => VirtioInvariant
<1> SUFFICES ASSUME Init PROVE VirtioInvariant  OBVIOUS
<1>1. TypeOK
  <2>1. /\ 0 \in 0..(WRAP - 1) /\ 0 \in 0..MaxCalls /\ Start \in 0..(WRAP - 1)
        /\ \A d \in Descs : (Start > 0 /\ d % 3 = 0) \in BOOLEAN
    BY SMT, VirtioAssumption
  <2> QED  BY <2>1 DEF Init, TypeOK, PC
<1>2. InFlight = {} /\ free = Descs  BY DEF InFlight, Init
<1>3. Heads  BY DEF Heads, Init, Busy
<1>4. Threes /\ Apart  BY <1>2 DEF Threes, Apart
<1>5. Counted
  <2>1. Cardinality(InFlight) = 0  BY <1>2, FS_EmptySet
  <2>2. Cardinality(free) = NUM  BY <1>1, <1>2, FreeIsFinite
  <2> QED  BY SMT, <2>1, <2>2, VirtioAssumption DEF Counted
<1>6. Rings  BY EmptyRing, VirtioAssumption DEF Rings, Init
<1>7. Drains /\ Told  BY DEF Drains, Told, Init
<1>8. \A d \in Descs : Stage(d)
  BY VirtioAssumption DEF Stage, On, Current, Init
<1>9. \A t \in Tasks : OpWaits(t) /\ DescWaits(t)  BY DEF OpWaits, DescWaits, Init
<1> QED  BY <1>1, <1>3, <1>4, <1>5, <1>6, <1>7, <1>8, <1>9 DEF VirtioInvariant

LEMMA TableSame ==
  ASSUME VirtioInvariant, UNCHANGED <<free, next, head>>
  PROVE  Threes' /\ Apart' /\ Counted' /\ InFlight' = InFlight
  BY DEF VirtioInvariant, Threes, Apart, Counted, InFlight, Chain

\* Different tasks have different heads.
LEMMA HeadsDiffer ==
  ASSUME VirtioInvariant, NEW t \in Tasks, head[t] # None
  PROVE  head[t] \in Descs /\ \A u \in Tasks \ {t} : head[u] # head[t]
<1>1. head[t] \in Descs \cup {None}  BY DEF VirtioInvariant, TypeOK
<1>2. \A u \in Tasks : head[u] # None => owner[head[u]] = u  BY DEF VirtioInvariant, Heads
<1> QED  BY <1>1, <1>2

\* A step of a task that touches neither the table nor the rings, and wakes those
\* it should.
LEMMA TaskStepInv ==
  ASSUME VirtioInvariant, TypeOK', NEW t \in Tasks,
         \A u \in Tasks \ {t} : pc'[u] = pc[u],
         UNCHANGED <<free, next, completed, owner, avail, availIdx, used, usedIdx,
                     seenAvail, serving, served, irq, usedNow, seenUsed, head, intr>>,
         pc'[t] \in Busy <=> pc[t] \in Busy,
         pc'[t] = "finish" => completed[head[t]],
         kicked \/ pc[t] = "notify" => kicked',
         OpWaits(t)', DescWaits(t)',
         \A u \in Tasks \ {t} : u \in woken => u \in woken',
         \A d \in Descs : waker'[d] = waker[d] \/ d = head[t],
         \A u \in Tasks \ {t} : u \in descWaiters => u \in descWaiters' \cup woken',
         pc[t] = "fwake" => \A u \in Tasks \ {t} : u \in descWaiters => u \in woken'
  PROVE  VirtioInvariant'
<1> USE DEF VirtioInvariant
<1>1. Threes' /\ Apart' /\ Counted'  BY TableSame
<1>2. Heads'  BY DEF Heads
<1>3. Rings' /\ Drains'  BY DEF Rings, Drains, Ring, Ahead
<1>4. Told'
  <2>1. seenAvail # availIdx => kicked' \/ \E u \in Tasks : pc'[u] = "notify"
    BY DEF Told
  <2> QED  BY <2>1 DEF Told
<1>5. \A d \in Descs : Stage(d)'  BY DEF Stage, On, Current
<1>6. ASSUME NEW u \in Tasks \ {t}
      PROVE  OpWaits(u)' /\ DescWaits(u)'
  <2>1. pc'[u] = pc[u] /\ head'[u] = head[u]  OBVIOUS
  <2>2. pc[u] \in Busy => waker'[head[u]] = waker[head[u]]
    <3>1. pc[u] \in Busy => head[u] # None  BY DEF Heads
    <3> QED  BY <3>1, HeadsDiffer
  <2>3. OpWaits(u)'  BY <2>1, <2>2 DEF OpWaits, Current, Busy
  <2>4. DescWaits(u)'  BY <2>1 DEF DescWaits
  <2> QED  BY <2>3, <2>4
<1> QED  BY <1>1, <1>2, <1>3, <1>4, <1>5, <1>6

\* The steps of a task between two accesses to the table.
LEMMA TaskInv ==
  ASSUME VirtioInvariant, NEW t \in Tasks,
         \/ Call(t)
         \/ /\ \/ Notify(t) \/ DescRegister(t) \/ DescCheck(t) \/ OpRegister(t)
               \/ OpCheck(t) \/ Repoll(t) \/ FinishWake(t)
               \/ Submit(t) /\ Cardinality(free) < 3
            /\ UNCHANGED calls
  PROVE  VirtioInvariant'
<1> USE DEF VirtioInvariant
<1>0. PICK l \in PC :
        /\ pc' = [pc EXCEPT ![t] = l]
        /\ \/ /\ pc[t] = "out" /\ l = "submit"
              /\ UNCHANGED <<waker, descWaiters, kicked, woken>>
           \/ /\ pc[t] = "submit" /\ l = "dreg"
              /\ UNCHANGED <<waker, descWaiters, kicked, woken>>
           \/ /\ pc[t] = "notify" /\ l = "breg" /\ kicked' = TRUE
              /\ UNCHANGED <<waker, descWaiters, woken>>
           \/ /\ pc[t] = "dreg" /\ l = "dchk" /\ descWaiters' = descWaiters \cup {t}
              /\ UNCHANGED <<waker, kicked, woken>>
           \/ /\ pc[t] = "dchk" /\ l = (IF Cardinality(free) >= 3 THEN "submit" ELSE "dparked")
              /\ UNCHANGED <<waker, descWaiters, kicked, woken>>
           \/ /\ pc[t] = "breg" /\ l = "bchk" /\ waker' = [waker EXCEPT ![head[t]] = t]
              /\ UNCHANGED <<descWaiters, kicked, woken>>
           \/ /\ pc[t] = "bchk" /\ l = (IF completed[head[t]] THEN "finish" ELSE "bparked")
              /\ UNCHANGED <<waker, descWaiters, kicked, woken>>
           \/ /\ pc[t] = "dparked" /\ l = "dreg" /\ woken' = woken \ {t}
              /\ UNCHANGED <<waker, descWaiters, kicked>>
           \/ /\ pc[t] = "bparked" /\ l = "breg" /\ woken' = woken \ {t}
              /\ UNCHANGED <<waker, descWaiters, kicked>>
           \/ /\ pc[t] = "fwake" /\ l = "out" /\ descWaiters' = {}
              /\ woken' = woken \cup descWaiters
              /\ UNCHANGED <<waker, kicked>>
  <2> USE DEF Goto, PC
  <2>1. CASE Call(t)  BY <2>1 DEF Call
  <2>2. CASE Notify(t)  BY <2>2 DEF Notify
  <2>3. CASE DescRegister(t)  BY <2>3 DEF DescRegister
  <2>4. CASE DescCheck(t)  BY <2>4 DEF DescCheck
  <2>5. CASE OpRegister(t)  BY <2>5 DEF OpRegister
  <2>6. CASE OpCheck(t)  BY <2>6 DEF OpCheck, Done
  <2>7. CASE Repoll(t)  BY <2>7 DEF Repoll
  <2>8. CASE FinishWake(t)  BY <2>8 DEF FinishWake, WakeDesc
  <2>9. CASE Submit(t) /\ Cardinality(free) < 3  BY <2>9 DEF Submit
  <2> QED  BY <2>1, <2>2, <2>3, <2>4, <2>5, <2>6, <2>7, <2>8, <2>9
<1>1. UNCHANGED <<free, next, completed, owner, avail, availIdx, used, usedIdx,
                  seenAvail, serving, served, irq, usedNow, seenUsed, head, intr>>
  BY DEF Call, Notify, DescRegister, DescCheck, OpRegister, OpCheck, Repoll, FinishWake,
     Submit, driver, rings, device, handler
<1>2. pc'[t] = l /\ \A u \in Tasks \ {t} : pc'[u] = pc[u]  BY <1>0 DEF TypeOK
<1>3. calls' \in 0..MaxCalls
  <2>1. CASE calls' = calls  BY <2>1 DEF TypeOK
  <2>2. CASE Call(t)  BY SMT, <2>2, VirtioAssumption DEF Call, TypeOK
  <2> QED  BY <2>1, <2>2
<1>4. pc[t] \in Busy => head[t] \in Descs  BY HeadsDiffer DEF Heads
<1>5. TypeOK'
  <2>1. waker' \in [Descs -> Tasks \cup {None}]  BY <1>0, <1>4 DEF TypeOK, Busy
  <2>2. descWaiters' \in SUBSET Tasks /\ woken' \in SUBSET Tasks /\ kicked' \in BOOLEAN
    BY <1>0 DEF TypeOK
  <2> QED  BY <1>0, <1>1, <1>3, <2>1, <2>2 DEF TypeOK
<1>6. OpWaits(t)'
  <2>1. l = "bchk" => waker'[head[t]] = t
    BY <1>0, <1>4 DEF Busy, TypeOK
  <2>2. l = "bparked" => waker' = waker /\ ~completed[head[t]] /\ pc[t] = "bchk"
    BY <1>0
  <2> QED  BY <1>1, <1>2, <2>1, <2>2 DEF OpWaits
<1>7. DescWaits(t)'
  <2>1. l = "dchk" => t \in descWaiters'  BY <1>0
  <2>2. l = "dparked" => /\ descWaiters' = descWaiters /\ woken' = woken
                         /\ pc[t] = "dchk" /\ ~(Cardinality(free) >= 3)
    BY <1>0
  <2>3. ~(Cardinality(free) >= 3) => Cardinality(free) < 3
    BY SMT, FreeIsFinite
  <2> QED  BY <1>1, <1>2, <2>1, <2>2, <2>3 DEF DescWaits
<1>8. /\ pc'[t] \in Busy <=> pc[t] \in Busy
      /\ pc'[t] = "finish" => completed[head[t]]
      /\ kicked \/ pc[t] = "notify" => kicked'
  <2>1. l \in Busy <=> pc[t] \in Busy  BY SMT, <1>0 DEF Busy
  <2>2. l = "finish" => completed[head[t]]  BY <1>0
  <2>3. kicked \/ pc[t] = "notify" => kicked'  BY <1>0
  <2> QED  BY <1>2, <2>1, <2>2, <2>3
<1>9. /\ \A u \in Tasks \ {t} : u \in woken => u \in woken'
      /\ \A u \in Tasks \ {t} : u \in descWaiters => u \in descWaiters' \cup woken'
      /\ pc[t] = "fwake" => \A u \in Tasks \ {t} : u \in descWaiters => u \in woken'
  BY <1>0
<1>10. \A d \in Descs : waker'[d] = waker[d] \/ d = head[t]
  BY <1>0 DEF TypeOK
<1> QED  BY <1>1, <1>2, <1>5, <1>6, <1>7, <1>8, <1>9, <1>10, TaskStepInv

-----------------------------------------------------------------------------
(* The device and the interrupt handler.                                   *)

\* The second descriptor of a chain is nobody's head.
LEMMA SecondIsNoHead ==
  ASSUME VirtioInvariant, NEW d \in Descs, owner[d] # None
  PROVE  next[d] \in Descs \ {d} /\ owner[next[d]] = None
<1> USE DEF VirtioInvariant
<1>0. \A e \in Descs : owner[e] # None => owner[e] \in Tasks /\ head[owner[e]] = e
  <2>1. \A e \in Descs : owner[e] \in Tasks \cup {None}  BY DEF TypeOK
  <2> QED  BY <2>1 DEF Heads
<1>1. PICK t \in Tasks : t = owner[d] /\ head[t] = d  BY <1>0
<1>2. t \in InFlight  BY <1>1, VirtioAssumption DEF InFlight
<1>3. next[d] \in Descs \ {d}  BY <1>1, <1>2 DEF Threes
<1>4. SUFFICES ASSUME owner[next[d]] # None PROVE FALSE  BY <1>3
<1>5. PICK u \in Tasks : u = owner[next[d]] /\ head[u] = next[d]
  BY <1>0, <1>3, <1>4
<1>6. u \in InFlight /\ u # t  BY <1>1, <1>3, <1>5, VirtioAssumption DEF InFlight
<1>7. next[d] \in Chain(head[t]) \cap Chain(head[u])  BY <1>1, <1>5 DEF Chain
<1> QED  BY <1>2, <1>6, <1>7 DEF Apart

\* What a step of the device or of the handler has to keep.
LEMMA DeviceStepInv ==
  ASSUME VirtioInvariant, TypeOK', UNCHANGED <<free, next, head, owner, pc, descWaiters>>,
         Rings', Drains', Told', \A d \in Descs : Stage(d)', \A t \in Tasks : OpWaits(t)',
         \A d \in Descs : completed[d] => completed'[d],
         woken \subseteq woken'
  PROVE  VirtioInvariant'
<1>1. Threes' /\ Apart' /\ Counted'  BY TableSame
<1>2. Heads'
  <2>1. \A t \in Tasks : pc[t] = "finish" => head[t] \in Descs
    BY HeadsDiffer DEF VirtioInvariant, Heads, Busy
  <2> QED  BY <2>1 DEF VirtioInvariant, Heads
<1>3. \A t \in Tasks : DescWaits(t)'  BY DEF VirtioInvariant, DescWaits
<1> QED  BY <1>1, <1>2, <1>3 DEF VirtioInvariant

LEMMA DeviceTakeInv ==
  ASSUME VirtioInvariant, DeviceTake, UNCHANGED calls
  PROVE  VirtioInvariant'
<1> USE DEF VirtioInvariant
<1>0. PICK d : d = avail[RingPos(seenAvail)]  OBVIOUS
<1>1. /\ kicked /\ seenAvail # availIdx /\ serving' = serving \cup {d}
      /\ avail' = [avail EXCEPT ![RingPos(seenAvail)] = None]
      /\ seenAvail' = Succ(seenAvail)
      /\ UNCHANGED <<free, next, completed, owner, waker, descWaiters, availIdx, used,
                     usedIdx, served, kicked, intr, irq, usedNow, seenUsed, pc, head, woken,
                     calls>>
  BY <1>0 DEF DeviceTake, driver, handler
<1>2. seenAvail \in 0..(WRAP - 1) /\ availIdx \in 0..(WRAP - 1)  BY DEF TypeOK
<1>3. /\ d \in Descs /\ Ring(avail', seenAvail', availIdx)
      /\ \A e \in Descs : On(avail', e) <=> On(avail, e) /\ e # d
  BY <1>0, <1>1, <1>2, RingPop DEF TypeOK, Rings
<1>4. On(avail, d)  BY <1>0, <1>2, RingPosSucc DEF On
<1>5. TypeOK'
  <2>1. avail' \in [Descs -> Descs \cup {None}]  BY <1>1 DEF TypeOK
  <2>2. seenAvail' \in 0..(WRAP - 1)  BY <1>1, <1>2, RingPosSucc
  <2> QED  BY <1>1, <1>3, <2>1, <2>2 DEF TypeOK
<1>6. Rings'  BY <1>1, <1>3 DEF Rings, Ring, Ahead
<1>7. Drains' /\ Told'  BY <1>1 DEF Drains, Told, Ahead
<1>8. ASSUME NEW e \in Descs PROVE Stage(e)'
  <2>1. (On(used, e) <=> On(used, e)') /\ (Current(e) <=> Current(e)')
    BY <1>1 DEF On, Current
  <2>2. Stage(e)  OBVIOUS
  <2>3. CASE e = d
    BY <1>1, <1>3, <1>4, <2>1, <2>2, <2>3 DEF Stage
  <2>4. CASE e # d
    <3>1. On(avail', e) <=> On(avail, e)  BY <1>3, <2>4
    <3> QED  BY <1>1, <2>1, <2>2, <2>4, <3>1 DEF Stage
  <2> QED  BY <2>3, <2>4
<1>9. \A t \in Tasks : OpWaits(t)'  BY <1>1 DEF OpWaits, Current
<1> QED  BY <1>1, <1>5, <1>6, <1>7, <1>8, <1>9, DeviceStepInv

LEMMA DeviceServeInv ==
  ASSUME VirtioInvariant, NEW d \in Descs, DeviceServe(d), UNCHANGED calls
  PROVE  VirtioInvariant'
<1> USE DEF VirtioInvariant
<1>1. /\ d \in serving /\ serving' = serving \ {d}
      /\ served' = served \cup {owner[d]}
      /\ used' = [used EXCEPT ![RingPos(usedIdx)] = d]
      /\ usedIdx' = Succ(usedIdx) /\ intr' = TRUE
      /\ UNCHANGED <<free, next, completed, owner, waker, descWaiters, avail, availIdx,
                     seenAvail, kicked, irq, usedNow, seenUsed, pc, head, woken, calls>>
  BY DEF DeviceServe, driver, handler, RingPos
<1>2. /\ owner[d] # None /\ ~On(used, d) /\ ~On(avail, d)
      /\ ~completed[d]
  BY <1>1 DEF Stage
<1>3. PICK x \in Descs : x # d /\ ~On(used, x)
  BY <1>2, SecondIsNoHead DEF Stage
<1>4. usedIdx \in 0..(WRAP - 1) /\ seenUsed \in 0..(WRAP - 1) /\ usedNow \in 0..(WRAP - 1)
  BY DEF TypeOK
<1>5. /\ used[RingPos(usedIdx)] = None
      /\ Ring(used', seenUsed, usedIdx')
      /\ Ahead(seenUsed, usedIdx') = Ahead(seenUsed, usedIdx) + 1
      /\ \A e \in Descs : On(used', e) <=> On(used, e) \/ e = d
  <2>1. used \in [Descs -> Descs \cup {None}] /\ Ring(used, seenUsed, usedIdx)
    BY DEF TypeOK, Rings
  <2>2. x \in Descs /\ x # d /\ ~On(used, x) /\ ~On(used, d)  BY <1>2, <1>3
  <2> DEFINE pushed == [used EXCEPT ![RingPos(usedIdx)] = d]
  <2>3. /\ used[RingPos(usedIdx)] = None
        /\ Ring(pushed, seenUsed, Succ(usedIdx))
        /\ Ahead(seenUsed, Succ(usedIdx)) = Ahead(seenUsed, usedIdx) + 1
        /\ \A e \in Descs : On(pushed, e) <=> On(used, e) \/ e = d
    BY <1>4, <2>1, <2>2, RingPush
  <2> QED  BY <1>1, <2>3
<1>6. TypeOK'
  <2>1. used' \in [Descs -> Descs \cup {None}]  BY <1>1 DEF TypeOK
  <2>2. usedIdx' \in 0..(WRAP - 1)  BY <1>1, <1>4, RingPosSucc
  <2>3. owner[d] \in Tasks  BY <1>2 DEF TypeOK
  <2> QED  BY <1>1, <2>1, <2>2, <2>3 DEF TypeOK
<1>7. Rings'  BY <1>1, <1>5 DEF Rings, Ring, Ahead
<1>8. Drains'
  <2>1. /\ Ahead(seenUsed, usedIdx) \in Int /\ Ahead(seenUsed, usedNow) \in Int
    BY SMT, <1>4, VirtioAssumption DEF Ahead
  <2>2. Ahead(seenUsed, usedNow)' = Ahead(seenUsed, usedNow)  BY <1>1 DEF Ahead
  <2>3. Ahead(seenUsed, usedIdx)' = Ahead(seenUsed, usedIdx) + 1  BY <1>1, <1>5 DEF Ahead
  <2>4. irq \in {"drain", "wake"} =>
          Ahead(seenUsed, usedNow)' <= Ahead(seenUsed, usedIdx)'
    BY SMT, <2>1, <2>2, <2>3 DEF Drains
  <2> QED  BY <1>1, <2>4 DEF Drains
<1>9. Told'  BY <1>1 DEF Told
<1>10. \A e \in Descs : Current(e)' <=> Current(e)
  <2>1. CASE irq = "wake"
    <3>1. seenUsed # usedIdx
      BY SMT, <1>4, <2>1, VirtioAssumption DEF Drains, Ahead
    <3>2. used[RingPos(seenUsed)] \in Descs  BY <1>4, <3>1, RingPop DEF TypeOK, Rings
    <3>3. RingPos(seenUsed) # RingPos(usedIdx) /\ RingPos(seenUsed) \in Descs
      BY <1>4, <1>5, <3>2, RingPosSucc, VirtioAssumption
    <3>4. used'[RingPos(seenUsed)] = used[RingPos(seenUsed)]
      BY <1>1, <3>3 DEF TypeOK
    <3> QED  BY <1>1, <3>4 DEF Current, RingPos
  <2>2. CASE irq # "wake"  BY <1>1, <2>2 DEF Current
  <2> QED  BY <2>1, <2>2
<1>11. ASSUME NEW e \in Descs PROVE Stage(e)'
  <2>1. (On(avail, e) <=> On(avail, e)') /\ (Current(e) <=> Current(e)')
    BY <1>1, <1>10 DEF On
  <2>2. Stage(e)  OBVIOUS
  <2>3. CASE e = d
    BY <1>1, <1>2, <1>5, <2>1, <2>2, <2>3 DEF Stage
  <2>4. CASE e # d
    <3>1. On(used', e) <=> On(used, e)  BY <1>5, <2>4
    <3> QED  BY <1>1, <2>1, <2>2, <2>4, <3>1 DEF Stage
  <2> QED  BY <2>3, <2>4
<1>12. \A t \in Tasks : OpWaits(t)'
  <2>1. \A t \in Tasks : pc[t] = "bparked" => head[t] \in Descs
    BY HeadsDiffer DEF Heads, Busy
  <2> QED  BY <1>1, <1>10, <2>1 DEF OpWaits
<1> QED  BY <1>1, <1>6, <1>7, <1>8, <1>9, <1>11, <1>12, DeviceStepInv

\* The steps of the device and of the handler that move no entry.
LEMMA SignalInv ==
  ASSUME VirtioInvariant, DeviceIdle \/ IrqAck \/ IrqRead \/ IrqDone, UNCHANGED calls
  PROVE  VirtioInvariant'
<1> USE DEF VirtioInvariant
<1>0. /\ UNCHANGED <<free, next, completed, owner, waker, descWaiters, avail, availIdx, used,
                     usedIdx, seenAvail, serving, served, seenUsed, pc, head, woken, calls>>
      /\ ~(irq = "wake") \/ irq' = irq
      /\ ~(irq' = "wake") \/ irq' = irq
  <2>1. CASE DeviceIdle  BY <2>1 DEF DeviceIdle, driver, rings, device, handler
  <2>2. CASE IrqAck  BY <2>2 DEF IrqAck, driver, rings, device
  <2>3. CASE IrqRead  BY <2>3 DEF IrqRead, driver, rings, device
  <2>4. CASE IrqDone  BY <2>4 DEF IrqDone, driver, rings, device
  <2> QED  BY <2>1, <2>2, <2>3, <2>4
<1>1. usedIdx \in 0..(WRAP - 1) /\ 0 \in 0..(WRAP - 1) /\ usedNow \in 0..(WRAP - 1)
  BY SMT, VirtioAssumption DEF TypeOK
<1>2. TypeOK'
  <2>1. /\ usedNow' \in 0..(WRAP - 1) /\ kicked' \in BOOLEAN /\ intr' \in BOOLEAN
        /\ irq' \in {"idle", "read", "drain", "wake"}
    BY <1>1 DEF TypeOK, DeviceIdle, IrqAck, IrqRead, IrqDone, handler
  <2> QED  BY <1>0, <2>1 DEF TypeOK
<1>3. Rings'  BY <1>0 DEF Rings, Ring, Ahead
<1>4. Drains'
  <2>1. /\ Ahead(seenUsed, usedIdx) <= Ahead(seenUsed, usedIdx)
    BY SMT, VirtioAssumption DEF Ahead, TypeOK
  <2>2. CASE IrqRead  BY <1>0, <2>1, <2>2 DEF IrqRead, Drains, Ahead
  <2>3. CASE ~IrqRead
    BY <1>0, <2>3 DEF Drains, Ahead, DeviceIdle, IrqAck, IrqDone, handler
  <2> QED  BY <2>2, <2>3
<1>5. Told'
  BY <1>0 DEF Told, DeviceIdle, IrqAck, IrqRead, IrqDone, handler
<1>6. \A d \in Descs : Stage(d)'  BY <1>0 DEF Stage, On, Current
<1>7. \A t \in Tasks : OpWaits(t)'  BY <1>0 DEF OpWaits, Current
<1> QED  BY <1>0, <1>2, <1>3, <1>4, <1>5, <1>6, <1>7, DeviceStepInv

\* The handler is at an entry of the used ring.
LEMMA EntryIsThere ==
  ASSUME VirtioInvariant, irq \in {"drain", "wake"}, seenUsed # usedNow
  PROVE  /\ seenUsed \in 0..(WRAP - 1) /\ usedIdx \in 0..(WRAP - 1) /\ seenUsed # usedIdx
         /\ used[RingPos(seenUsed)] \in Descs /\ On(used, used[RingPos(seenUsed)])
<1> USE DEF VirtioInvariant
<1>1. seenUsed \in 0..(WRAP - 1) /\ usedIdx \in 0..(WRAP - 1) /\ usedNow \in 0..(WRAP - 1)
  BY DEF TypeOK
<1>2. seenUsed # usedIdx  BY SMT, <1>1, VirtioAssumption DEF Drains, Ahead
<1>3. used \in [Descs -> Descs \cup {None}] /\ Ring(used, seenUsed, usedIdx)
  BY DEF TypeOK, Rings
<1>4. used[RingPos(seenUsed)] \in Descs  BY <1>1, <1>2, <1>3, RingPop
<1>5. RingPos(seenUsed) \in Descs  BY <1>1, RingPosSucc
<1> QED  BY <1>1, <1>2, <1>4, <1>5 DEF On

LEMMA IrqCompleteInv ==
  ASSUME VirtioInvariant, IrqComplete, UNCHANGED calls
  PROVE  VirtioInvariant'
<1> USE DEF VirtioInvariant
<1>0. PICK d : d = used[RingPos(seenUsed)]  OBVIOUS
<1>1. /\ irq = "drain" /\ seenUsed # usedNow /\ irq' = "wake"
      /\ completed' = [completed EXCEPT ![d] = TRUE]
      /\ UNCHANGED <<free, next, owner, waker, descWaiters, avail, availIdx, used, usedIdx,
                     seenAvail, serving, served, kicked, intr, usedNow, seenUsed, pc, head,
                     woken, calls>>
  BY <1>0 DEF IrqComplete, rings, device
<1>2. d \in Descs /\ On(used, d)  BY <1>0, <1>1, EntryIsThere
<1>3. completed'[d] /\ \A e \in Descs \ {d} : completed'[e] = completed[e]
  BY <1>1, <1>2 DEF TypeOK
<1>4. TypeOK'  BY <1>1 DEF TypeOK
<1>5. Rings' /\ Drains' /\ Told'  BY <1>1 DEF Rings, Ring, Drains, Told, Ahead
<1>6. \A e \in Descs : ~Current(e) /\ (Current(e)' <=> e = d)
  BY <1>0, <1>1 DEF Current, RingPos
<1>7. ASSUME NEW e \in Descs PROVE Stage(e)'
  <2>1. (On(avail, e) <=> On(avail, e)') /\ (On(used, e) <=> On(used, e)')
    BY <1>1 DEF On
  <2>2. Stage(e)  OBVIOUS
  <2>3. CASE e = d  BY <1>1, <1>2, <1>3, <1>6, <2>1, <2>2, <2>3 DEF Stage
  <2>4. CASE e # d  BY <1>1, <1>3, <1>6, <2>1, <2>2, <2>4 DEF Stage
  <2> QED  BY <2>3, <2>4
<1>8. ASSUME NEW t \in Tasks PROVE OpWaits(t)'
  <2>1. pc[t] \in {"bchk", "bparked"} => head[t] \in Descs
    BY HeadsDiffer DEF Heads, Busy
  <2> QED  BY <1>1, <1>3, <1>6, <2>1 DEF OpWaits
<1>9. \A e \in Descs : completed[e] => completed'[e]  BY <1>3
<1> QED  BY <1>1, <1>4, <1>5, <1>7, <1>8, <1>9, DeviceStepInv

LEMMA IrqWakeInv ==
  ASSUME VirtioInvariant, IrqWake, UNCHANGED calls
  PROVE  VirtioInvariant'
<1> USE DEF VirtioInvariant
<1>0. PICK d : d = used[RingPos(seenUsed)]  OBVIOUS
<1>1. /\ irq = "wake" /\ irq' = "drain" /\ seenUsed # usedNow
      /\ waker' = [waker EXCEPT ![d] = None]
      /\ woken' = woken \cup ({waker[d]} \ {None})
      /\ used' = [used EXCEPT ![RingPos(seenUsed)] = None]
      /\ seenUsed' = Succ(seenUsed)
      /\ UNCHANGED <<free, next, completed, owner, descWaiters, avail, availIdx, usedIdx,
                     seenAvail, serving, served, kicked, intr, usedNow, pc, head, calls>>
  BY <1>0 DEF IrqWake, WakeOp, driver, device, Drains
<1>2. /\ seenUsed \in 0..(WRAP - 1) /\ usedIdx \in 0..(WRAP - 1) /\ seenUsed # usedIdx
      /\ d \in Descs /\ usedNow \in 0..(WRAP - 1)
  BY <1>0, <1>1, EntryIsThere DEF TypeOK
<1>3. /\ Ring(used', Succ(seenUsed), usedIdx)
      /\ \A e \in Descs : On(used', e) <=> On(used, e) /\ e # d
  <2>1. used \in [Descs -> Descs \cup {None}] /\ Ring(used, seenUsed, usedIdx)
    BY DEF TypeOK, Rings
  <2> DEFINE popped == [used EXCEPT ![RingPos(seenUsed)] = None]
  <2>2. /\ Ring(popped, Succ(seenUsed), usedIdx)
        /\ \A e \in Descs : On(popped, e) <=> On(used, e) /\ e # used[RingPos(seenUsed)]
    BY <1>2, <2>1, RingPop
  <2> QED  BY <1>0, <1>1, <2>2
<1>4. TypeOK'
  <2>1. used' \in [Descs -> Descs \cup {None}] /\ waker' \in [Descs -> Tasks \cup {None}]
    BY <1>1 DEF TypeOK
  <2>2. seenUsed' \in 0..(WRAP - 1)  BY <1>1, <1>2, RingPosSucc
  <2>3. woken' \in SUBSET Tasks
    <3>1. waker[d] \in Tasks \cup {None}  BY <1>2 DEF TypeOK
    <3> QED  BY <1>1, <3>1 DEF TypeOK
  <2> QED  BY <1>1, <2>1, <2>2, <2>3 DEF TypeOK
<1>5. Rings'  BY <1>1, <1>3 DEF Rings, Ring, Ahead
<1>6. Drains'
  <2>1. Ahead(seenUsed, usedNow) <= Ahead(seenUsed, usedIdx)  BY <1>1 DEF Drains
  <2>2. Ahead(Succ(seenUsed), usedNow) <= Ahead(Succ(seenUsed), usedIdx)
    BY SMT, <1>1, <1>2, <2>1, SuccIs, VirtioAssumption DEF Ahead
  <2>3. Ahead(seenUsed', usedNow') <= Ahead(seenUsed', usedIdx')  BY <1>1, <2>2
  <2> QED  BY <1>1, <2>3 DEF Drains, Ahead
<1>7. Told'  BY <1>1 DEF Told
<1>8. \A e \in Descs : ~Current(e)' /\ (Current(e) <=> e = d)
  BY <1>0, <1>1 DEF Current
<1>9. ASSUME NEW e \in Descs PROVE Stage(e)'
  <2>1. On(avail, e) <=> On(avail, e)'  BY <1>1 DEF On
  <2>2. Stage(e)  OBVIOUS
  <2>3. On(used, e)' <=> On(used, e) /\ e # d  BY <1>3 DEF On
  <2> QED  BY <1>1, <1>8, <2>1, <2>2, <2>3 DEF Stage
<1>10. ASSUME NEW t \in Tasks PROVE OpWaits(t)'
  <2>1. pc[t] \in {"bchk", "bparked"} => head[t] \in Descs
    BY HeadsDiffer DEF Heads, Busy
  <2>2. Stage(d) /\ OpWaits(t) /\ t # None  BY <1>2, VirtioAssumption
  <2>3. completed[d]  BY <1>2, <1>8, <2>2 DEF Stage
  <2>4. \A e \in Descs \ {d} : waker'[e] = waker[e]  BY <1>1 DEF TypeOK
  <2>5. CASE head[t] = d
    BY <1>1, <1>8, <2>2, <2>3, <2>5 DEF OpWaits
  <2>6. CASE head[t] # d
    <3>1. ASSUME pc[t] \in {"bchk", "bparked"}
          PROVE  waker'[head[t]] = waker[head[t]] /\ ~Current(head[t])
      BY <1>8, <2>1, <2>4, <2>6, <3>1
    <3>2. pc'[t] = pc[t] /\ head'[t] = head[t] /\ completed' = completed
      BY <1>1
    <3>3. t \in woken => t \in woken'  BY <1>1
    <3> QED  BY <2>2, <3>1, <3>2, <3>3 DEF OpWaits
  <2> QED  BY <2>5, <2>6
<1> QED  BY <1>1, <1>4, <1>5, <1>6, <1>7, <1>9, <1>10, DeviceStepInv

-----------------------------------------------------------------------------
(* Taking a chain from the table and giving it back.                       *)

\* A free descriptor is in no chain, and nobody's head.
LEMMA FreeIsNoHead ==
  ASSUME VirtioInvariant, NEW d \in free
  PROVE  /\ d \in Descs /\ owner[d] = None
         /\ \A u \in InFlight : d \notin Chain(head[u])
<1> USE DEF VirtioInvariant
<1>1. d \in Descs /\ owner[d] \in Tasks \cup {None}  BY DEF TypeOK
<1>2. \A u \in InFlight : d \notin Chain(head[u])  BY DEF Threes
<1>3. owner[d] # None => owner[d] \in InFlight /\ head[owner[d]] = d
  BY <1>1, VirtioAssumption DEF Heads, InFlight
<1>4. owner[d] # None => d \in Chain(head[owner[d]])  BY <1>3 DEF Chain
<1> QED  BY <1>1, <1>2, <1>3, <1>4

\* submit_chain puts three free descriptors in a chain.
LEMMA ChainTaken ==
  ASSUME VirtioInvariant, NEW t \in Tasks, head[t] = None,
         NEW a \in free, NEW b \in free, NEW c \in free, a # b, a # c, b # c,
         Cardinality(free \ {a, b, c}) = Cardinality(free) - 3,
         free' = free \ {a, b, c},
         next' = [next EXCEPT ![a] = b, ![b] = c, ![c] = None],
         head' = [head EXCEPT ![t] = a]
  PROVE  Threes' /\ Apart' /\ Counted'
<1> USE DEF VirtioInvariant
<1>1. a \in Descs /\ b \in Descs /\ c \in Descs /\ None \notin Descs
  BY FreeIsNoHead, VirtioAssumption
<1>2. head'[t] = a /\ \A u \in Tasks \ {t} : head'[u] = head[u]  BY DEF TypeOK
<1>3. InFlight' = InFlight \cup {t} /\ t \notin InFlight /\ InFlight \subseteq Tasks
  BY <1>1, <1>2 DEF InFlight
<1>4. /\ next'[a] = b /\ next'[b] = c
      /\ \A d \in Descs \ {a, b, c} : next'[d] = next[d]
  BY <1>1 DEF TypeOK
<1>5. head'[t] = a /\ Chain(a)' = {a, b, c}  BY <1>2, <1>4 DEF Chain
<1>6. ASSUME NEW u \in InFlight
      PROVE  /\ u # t /\ head'[u] = head[u] /\ Chain(head[u])' = Chain(head[u])
             /\ next'[head[u]] = next[head[u]]
             /\ next'[next[head[u]]] = next[next[head[u]]]
             /\ Chain(head[u]) \cap {a, b, c} = {}
  <2>1. u \in Tasks /\ u # t /\ head'[u] = head[u]  BY <1>2, <1>3
  <2>2. Chain(head[u]) \cap {a, b, c} = {}  BY FreeIsNoHead
  <2>3. head[u] \in Descs /\ next[head[u]] \in Descs
    BY <2>1, HeadsDiffer DEF InFlight, Threes
  <2>4. head[u] \in Descs \ {a, b, c} /\ next[head[u]] \in Descs \ {a, b, c}
    BY <2>2, <2>3 DEF Chain
  <2>5. next'[head[u]] = next[head[u]] /\ next'[next[head[u]]] = next[next[head[u]]]
    BY <1>4, <2>4
  <2>6. Chain(head[u])' = Chain(head[u])  BY <2>1, <2>5 DEF Chain
  <2> QED  BY <2>1, <2>2, <2>5, <2>6
<1>7. Threes'
  <2>1. ASSUME NEW u \in InFlight'
        PROVE  /\ next'[head'[u]] \in Descs \ {head'[u]}
               /\ next'[next'[head'[u]]] \in Descs \ {head'[u], next'[head'[u]]}
               /\ Chain(head[u])' \cap free' = {}
    <3>1. CASE u = t
      <4>1. head'[u] = a /\ Chain(head[u])' = {a, b, c}  BY <1>5, <3>1 DEF Chain
      <4> QED  BY <1>1, <1>4, <4>1
    <3>2. CASE u # t
      <4>1. u \in InFlight  BY <1>3, <3>2
      <4>2. /\ next[head[u]] \in Descs \ {head[u]}
            /\ next[next[head[u]]] \in Descs \ {head[u], next[head[u]]}
            /\ Chain(head[u]) \cap free = {}
        BY <4>1 DEF Threes
      <4>3. /\ head'[u] = head[u] /\ Chain(head[u])' = Chain(head[u])
            /\ next'[head[u]] = next[head[u]]
            /\ next'[next[head[u]]] = next[next[head[u]]]
        BY <1>6, <4>1
      <4>4. next'[head'[u]] = next[head[u]] /\ next'[next'[head'[u]]] = next[next[head[u]]]
        BY ONLY <4>3
      <4>5. Chain(head[u])' \cap free' = {}  BY <4>2, <4>3
      <4> QED  BY ONLY <4>2, <4>3, <4>4, <4>5
    <3> QED  BY <3>1, <3>2
  <2> QED  BY <2>1 DEF Threes
<1>8. ASSUME NEW u \in InFlight', NEW w \in InFlight', u # w
      PROVE  Chain(head[u])' \cap Chain(head[w])' = {}
  <2>1. CASE u = t
    <3>1. w \in InFlight  BY <1>3, <1>8, <2>1
    <3>2. Chain(head[u])' = {a, b, c}  BY <1>5, <2>1 DEF Chain
    <3> QED  BY <1>6, <3>1, <3>2
  <2>2. CASE w = t
    <3>1. u \in InFlight  BY <1>3, <1>8, <2>2
    <3>2. Chain(head[w])' = {a, b, c}  BY <1>5, <2>2 DEF Chain
    <3> QED  BY <1>6, <3>1, <3>2
  <2>3. CASE u # t /\ w # t
    <3>1. u \in InFlight /\ w \in InFlight  BY <1>3, <2>3
    <3>2. Chain(head[u]) \cap Chain(head[w]) = {}  BY <1>8, <3>1 DEF Apart
    <3> QED  BY <1>6, <3>1, <3>2
  <2> QED  BY <2>1, <2>2, <2>3
<1>9. ASSUME NEW d \in Descs, d \notin free'
      PROVE  \E u \in InFlight' : d \in Chain(head[u])'
  <2>1. CASE d \in {a, b, c}
    <3>1. t \in InFlight' /\ Chain(head[t])' = {a, b, c}  BY <1>3, <1>5 DEF Chain
    <3> QED  BY <2>1, <3>1
  <2>2. CASE d \notin {a, b, c}
    <3>1. d \in Descs \ free  BY <1>9, <2>2
    <3>2. PICK u \in InFlight : d \in Chain(head[u])  BY <3>1 DEF Apart
    <3>3. u \in InFlight' /\ d \in Chain(head[u])'  BY <1>3, <1>6, <3>2
    <3> QED  BY <3>3
  <2> QED  BY <2>1, <2>2
<1>10. Apart'  BY <1>8, <1>9 DEF Apart
<1>11. Counted'
  <2>1. /\ Cardinality(free) \in Nat /\ IsFiniteSet(InFlight) /\ Cardinality(InFlight) \in Nat
    BY FreeIsFinite, FS_CardinalityType
  <2>2. Cardinality(InFlight') = Cardinality(InFlight) + 1  BY <1>3, <2>1, FS_AddElement
  <2>3. Cardinality(free') = Cardinality(free) - 3  OBVIOUS
  <2>4. Cardinality(free) + 3 * Cardinality(InFlight) = NUM  BY DEF Counted
  <2>5. Cardinality(free') + 3 * Cardinality(InFlight') = NUM
    BY ONLY SMT, <2>1, <2>2, <2>3, <2>4, VirtioAssumption
  <2> QED  BY <2>5 DEF Counted
<1> QED  BY <1>7, <1>10, <1>11

LEMMA SubmitInv ==
  ASSUME VirtioInvariant, NEW t \in Tasks, LockFree, Submit(t), ~(Cardinality(free) < 3),
         UNCHANGED calls
  PROVE  VirtioInvariant'
<1> USE DEF VirtioInvariant
<1>0. PICK a \in free, b \in free, c \in free :
        /\ a # b /\ a # c /\ b # c /\ AllocThree = <<a, b, c>>
        /\ Cardinality(free \ {a, b, c}) = Cardinality(free) - 3
  BY AllocIs
<1>1. /\ pc[t] = "submit" /\ pc' = [pc EXCEPT ![t] = "notify"]
      /\ free' = free \ {a, b, c}
      /\ next' = [next EXCEPT ![a] = b, ![b] = c, ![c] = None]
      /\ owner' = [owner EXCEPT ![a] = t]
      /\ completed' = [completed EXCEPT ![a] = FALSE]
      /\ avail' = [avail EXCEPT ![RingPos(availIdx)] = a]
      /\ availIdx' = Succ(availIdx)
      /\ head' = [head EXCEPT ![t] = a]
  <2>1. AllocThree[1] = a /\ AllocThree[2] = b /\ AllocThree[3] = c  BY SMT, <1>0
  <2> QED  BY <2>1 DEF Submit, Reset, Goto
<1>2. UNCHANGED <<waker, descWaiters, used, usedIdx, seenAvail, serving, served, kicked, intr,
                  irq, usedNow, seenUsed, woken, calls>>
  BY DEF Submit, device, handler
<1>3. /\ a \in Descs /\ b \in Descs /\ c \in Descs
      /\ owner[a] = None /\ owner[b] = None /\ t # None
  BY FreeIsNoHead, VirtioAssumption
<1>4. /\ pc'[t] = "notify" /\ \A u \in Tasks \ {t} : pc'[u] = pc[u]
      /\ head'[t] = a /\ \A u \in Tasks \ {t} : head'[u] = head[u]
      /\ owner'[a] = t /\ \A d \in Descs \ {a} : owner'[d] = owner[d]
      /\ completed'[a] = FALSE /\ \A d \in Descs \ {a} : completed'[d] = completed[d]
  BY <1>1, <1>3 DEF TypeOK
<1>5. head[t] = None  BY <1>1 DEF Heads, Busy
<1>6. Threes' /\ Apart' /\ Counted'
  BY <1>0, <1>1, <1>5, ChainTaken
<1>7. \A u \in Tasks : head[u] # a
  <2>1. \A u \in Tasks : head[u] # None => owner[head[u]] = u  BY DEF Heads
  <2>2. \A u \in Tasks : u # None /\ a # None  BY <1>3, VirtioAssumption
  <2> QED  BY <1>3, <2>1, <2>2
<1>8. Heads'
  <2>1. ASSUME NEW u \in Tasks
        PROVE  /\ head'[u] # None <=> pc'[u] \in Busy
               /\ head'[u] # None => owner'[head'[u]] = u
               /\ pc'[u] = "finish" => completed'[head'[u]]
    <3>1. CASE u = t
      <4>1. a # None /\ "notify" \in Busy  BY <1>3, VirtioAssumption DEF Busy
      <4> QED  BY <1>4, <3>1, <4>1
    <3>2. CASE u # t
      <4>1. head'[u] = head[u] /\ pc'[u] = pc[u] /\ head[u] # a  BY <1>4, <1>7, <3>2
      <4>2. head[u] # None => head[u] \in Descs  BY HeadsDiffer
      <4>3. /\ head[u] # None <=> pc[u] \in Busy
            /\ head[u] # None => owner[head[u]] = u
            /\ pc[u] = "finish" => completed[head[u]] /\ head[u] # None
        BY DEF Heads, Busy
      <4>4. head[u] # None => /\ owner'[head[u]] = owner[head[u]]
                              /\ completed'[head[u]] = completed[head[u]]
        BY <1>4, <4>1, <4>2
      <4> QED  BY ONLY <4>1, <4>3, <4>4
    <3> QED  BY <3>1, <3>2
  <2>2. ASSUME NEW d \in Descs, owner'[d] # None
        PROVE  head'[owner'[d]] = d
    <3>1. CASE d = a  BY <1>4, <3>1
    <3>2. CASE d # a
      <4>1. owner'[d] = owner[d] /\ owner[d] \in Tasks \cup {None} /\ owner[d] # None
        BY <1>4, <2>2, <3>2 DEF TypeOK
      <4>2. head[owner[d]] = d  BY <4>1 DEF Heads
      <4>3. owner[d] # t  BY <1>3, <1>5, <4>2, VirtioAssumption
      <4> QED  BY <1>4, <4>1, <4>2, <4>3
    <3> QED  BY <3>1, <3>2
  <2> QED  BY <2>1, <2>2 DEF Heads
<1>9. seenAvail \in 0..(WRAP - 1) /\ availIdx \in 0..(WRAP - 1)  BY DEF TypeOK
<1>10. /\ Ring(avail', seenAvail, availIdx')
       /\ \A e \in Descs : On(avail', e) <=> On(avail, e) \/ e = a
  <2>1. avail \in [Descs -> Descs \cup {None}] /\ Ring(avail, seenAvail, availIdx)
    BY DEF TypeOK, Rings
  <2>2. b # a /\ ~On(avail, a) /\ ~On(avail, b)  BY <1>0, <1>3 DEF Stage
  <2> DEFINE pushed == [avail EXCEPT ![RingPos(availIdx)] = a]
  <2>3. /\ avail[RingPos(availIdx)] = None
        /\ Ring(pushed, seenAvail, Succ(availIdx))
        /\ Ahead(seenAvail, Succ(availIdx)) = Ahead(seenAvail, availIdx) + 1
        /\ \A e \in Descs : On(pushed, e) <=> On(avail, e) \/ e = a
    BY <1>3, <1>9, <2>1, <2>2, RingPush
  <2> QED  BY <1>1, <2>3
<1>11. Rings'
  <2>1. Ring(avail', seenAvail', availIdx')  BY <1>2, <1>10
  <2>2. Ring(used', seenUsed', usedIdx')  BY <1>2 DEF Rings
  <2> QED  BY <2>1, <2>2 DEF Rings, Ring, Ahead
<1>12. TypeOK'
  <2>1. availIdx' \in 0..(WRAP - 1)  BY <1>1, <1>9, RingPosSucc
  <2>2. /\ free' \in SUBSET Descs /\ next' \in [Descs -> Descs \cup {None}]
        /\ completed' \in [Descs -> BOOLEAN] /\ avail' \in [Descs -> Descs \cup {None}]
        /\ owner' \in [Descs -> Tasks \cup {None}] /\ head' \in [Tasks -> Descs \cup {None}]
        /\ pc' \in [Tasks -> PC]
    <3>1. next' \in [Descs -> Descs \cup {None}]  BY <1>1, <1>3 DEF TypeOK
    <3>2. pc' \in [Tasks -> PC]  BY <1>1 DEF TypeOK, PC
    <3>3. completed' \in [Descs -> BOOLEAN]  BY <1>1 DEF TypeOK
    <3> QED  BY <1>1, <1>3, <3>1, <3>2, <3>3 DEF TypeOK
  <2> QED  BY <1>2, <2>1, <2>2 DEF TypeOK
<1>13. Drains' /\ Told'  BY <1>2, <1>4 DEF Drains, Told, Ahead
<1>14. irq # "wake" /\ irq' # "wake"  BY <1>2 DEF LockFree
<1>15. ASSUME NEW d \in Descs PROVE Stage(d)'
  <2>1. /\ On(avail, d)' <=> On(avail, d) \/ d = a
        /\ On(used, d)' <=> On(used, d)
        /\ ~Current(d) /\ ~Current(d)'
    BY <1>2, <1>10, <1>14 DEF On, Current
  <2>2. Stage(d)  OBVIOUS
  <2>3. CASE d = a
    <3>1. d \notin serving /\ ~On(used, d) /\ owner'[d] # None /\ completed'[d] = FALSE
      BY <1>3, <1>4, <2>2, <2>3 DEF Stage
    <3> QED  BY <1>2, <2>1, <2>3, <3>1 DEF Stage
  <2>4. CASE d # a
    <3>1. owner'[d] = owner[d] /\ completed'[d] = completed[d]  BY <1>4, <2>4
    <3> QED  BY <1>2, <2>1, <2>2, <2>4, <3>1 DEF Stage
  <2> QED  BY <2>3, <2>4
<1>16. ASSUME NEW u \in Tasks PROVE OpWaits(u)' /\ DescWaits(u)'
  <2>1. CASE u = t  BY <1>4, <2>1 DEF OpWaits, DescWaits
  <2>2. CASE u # t
    <3>1. pc'[u] = pc[u] /\ head'[u] = head[u]  BY <1>4, <2>2
    <3>2. pc[u] \in {"bchk", "bparked"} => head[u] \in Descs \ {a}
      BY <1>7, HeadsDiffer DEF Heads, Busy
    <3>3. pc[u] \in {"bchk", "bparked"} => completed'[head[u]] = completed[head[u]]
      BY <1>4, <3>2
    <3>4. OpWaits(u)'  BY <1>2, <1>14, <3>1, <3>3 DEF OpWaits, Current
    <3>5. Cardinality(free) \in Nat /\ Cardinality(free') = Cardinality(free) - 3
      BY <1>0, <1>1, FreeIsFinite
    <3>6. Cardinality(free) < 3 => Cardinality(free') < 3  BY SMT, <3>5
    <3>7. \A w \in Tasks : pc[w] = "fwake" => pc'[w] = "fwake"  BY <1>1, <1>4
    <3>8. DescWaits(u)'  BY <1>2, <3>1, <3>6, <3>7 DEF DescWaits
    <3> QED  BY <3>4, <3>8
  <2> QED  BY <2>1, <2>2
<1> QED  BY <1>6, <1>8, <1>11, <1>12, <1>13, <1>15, <1>16

\* free_chain gives a whole chain back and leaves the others as they are.
LEMMA ChainGiven ==
  ASSUME VirtioInvariant, NEW t \in InFlight,
         free' = free \cup Chain(head[t]),
         next' = [d \in Descs |-> IF d \in Chain(head[t]) THEN None ELSE next[d]],
         head' = [head EXCEPT ![t] = None]
  PROVE  Threes' /\ Apart' /\ Counted' /\ Cardinality(free') = Cardinality(free) + 3
<1> USE DEF VirtioInvariant
<1>1. /\ t \in Tasks /\ head'[t] = None
      /\ \A u \in Tasks \ {t} : head'[u] = head[u]
  BY DEF TypeOK, InFlight
<1>2. InFlight' = InFlight \ {t}  BY <1>1 DEF InFlight
<1>3. ASSUME NEW u \in InFlight'
      PROVE  /\ u \in InFlight /\ u # t /\ head'[u] = head[u]
             /\ next'[head[u]] = next[head[u]]
             /\ next'[next[head[u]]] = next[next[head[u]]]
             /\ Chain(head[u])' = Chain(head[u])
             /\ Chain(head[u]) \cap Chain(head[t]) = {}
  <2>1. u \in InFlight /\ u # t /\ u \in Tasks  BY <1>2 DEF InFlight
  <2>2. head'[u] = head[u]  BY <1>1, <2>1
  <2>3. Chain(head[u]) \cap Chain(head[t]) = {}  BY <2>1 DEF Apart
  <2>4. head[u] \in Descs /\ next[head[u]] \in Descs
    BY <2>1, HeadsDiffer DEF InFlight, Threes
  <2>5. head[u] \notin Chain(head[t]) /\ next[head[u]] \notin Chain(head[t])
    <3>1. head[u] \in Chain(head[u]) /\ next[head[u]] \in Chain(head[u])  BY DEF Chain
    <3> QED  BY <2>3, <3>1
  <2>6. next'[head[u]] = next[head[u]] /\ next'[next[head[u]]] = next[next[head[u]]]
    BY <2>4, <2>5
  <2>7. Chain(head[u])' = Chain(head[u])  BY <2>2, <2>6 DEF Chain
  <2> QED  BY <2>1, <2>2, <2>3, <2>6, <2>7
<1>4. Threes'
  <2>1. ASSUME NEW u \in InFlight'
        PROVE  /\ next'[head'[u]] \in Descs \ {head'[u]}
               /\ next'[next'[head'[u]]] \in Descs \ {head'[u], next'[head'[u]]}
               /\ Chain(head[u])' \cap free' = {}
    <3>1. /\ u \in InFlight /\ head'[u] = head[u] /\ Chain(head[u])' = Chain(head[u])
          /\ next'[head[u]] = next[head[u]]
          /\ next'[next[head[u]]] = next[next[head[u]]]
          /\ Chain(head[u]) \cap Chain(head[t]) = {}
      BY <1>3
    <3>2. /\ next[head[u]] \in Descs \ {head[u]}
          /\ next[next[head[u]]] \in Descs \ {head[u], next[head[u]]}
          /\ Chain(head[u]) \cap free = {}
      BY <3>1 DEF Threes
    <3>3. next'[head'[u]] = next[head[u]] /\ next'[next'[head'[u]]] = next[next[head[u]]]
      BY ONLY <3>1
    <3>4. Chain(head[u])' \cap free' = {}  BY <3>1, <3>2
    <3> QED  BY ONLY <3>1, <3>2, <3>3, <3>4
  <2> QED  BY <2>1 DEF Threes
<1>5. ASSUME NEW u \in InFlight', NEW w \in InFlight', u # w
      PROVE  Chain(head[u])' \cap Chain(head[w])' = {}
  <2>1. Chain(head[u]) \cap Chain(head[w]) = {}  BY <1>3, <1>5 DEF Apart
  <2> QED  BY <1>3, <2>1
<1>6. ASSUME NEW d \in Descs, d \notin free'
      PROVE  \E u \in InFlight' : d \in Chain(head[u])'
  <2>1. d \in Descs \ free /\ d \notin Chain(head[t])  BY <1>6
  <2>2. PICK u \in InFlight : d \in Chain(head[u])  BY <2>1 DEF Apart
  <2>3. u \in InFlight'  BY <1>2, <2>1, <2>2
  <2>4. Chain(head[u])' = Chain(head[u])  BY <1>3, <2>3
  <2> QED  BY <2>2, <2>3, <2>4
<1>7. Apart'  BY <1>5, <1>6 DEF Apart
<1>8. Cardinality(free') = Cardinality(free) + 3  BY ChainFreed
<1>9. Counted'
  <2>1. /\ Cardinality(free) \in Nat /\ IsFiniteSet(InFlight) /\ Cardinality(InFlight) \in Nat
    BY FreeIsFinite
  <2>2. Cardinality(InFlight') = Cardinality(InFlight) - 1  BY <1>2, <2>1, FS_RemoveElement
  <2>3. Cardinality(free) + 3 * Cardinality(InFlight) = NUM  BY DEF Counted
  <2>4. Cardinality(free') + 3 * Cardinality(InFlight') = NUM
    BY ONLY SMT, <1>8, <2>1, <2>2, <2>3, VirtioAssumption
  <2> QED  BY <2>4 DEF Counted
<1> QED  BY <1>4, <1>7, <1>8, <1>9

LEMMA FinishInv ==
  ASSUME VirtioInvariant, NEW t \in Tasks, LockFree, Finish(t), UNCHANGED calls
  PROVE  VirtioInvariant'
<1> USE DEF VirtioInvariant
<1>0. PICK h : h = head[t]  OBVIOUS
<1>1. /\ pc[t] = "finish" /\ pc' = [pc EXCEPT ![t] = "fwake"]
      /\ free' = free \cup Chain(head[t])
      /\ next' = [d \in Descs |-> IF d \in Chain(head[t]) THEN None ELSE next[d]]
      /\ owner' = [owner EXCEPT ![h] = None]
      /\ head' = [head EXCEPT ![t] = None]
      /\ served' = served \ {t}
      /\ UNCHANGED <<completed, waker, descWaiters, avail, availIdx, used, usedIdx, seenAvail,
                     serving, kicked, intr, irq, usedNow, seenUsed, woken, calls>>
  BY <1>0 DEF Finish, Goto, rings, handler
<1>2. h # None /\ owner[h] = t /\ completed[h]  BY <1>0, <1>1 DEF Heads, Busy
<1>3. h \in Descs /\ t \in InFlight /\ t # None /\ \A u \in Tasks \ {t} : head[u] # h
  BY <1>0, <1>2, HeadsDiffer, VirtioAssumption DEF InFlight
<1>4. /\ pc'[t] = "fwake" /\ \A u \in Tasks \ {t} : pc'[u] = pc[u]
      /\ head'[t] = None /\ \A u \in Tasks \ {t} : head'[u] = head[u]
      /\ owner'[h] = None /\ \A d \in Descs \ {h} : owner'[d] = owner[d]
  BY <1>1, <1>3 DEF TypeOK
<1>5. Threes' /\ Apart' /\ Counted' /\ Cardinality(free') = Cardinality(free) + 3
  BY <1>1, <1>3, ChainGiven
<1>6. \A d \in Descs \ {h} : owner[d] # t
  BY <1>0, <1>3 DEF Heads
<1>7. Heads'
  <2>1. ASSUME NEW u \in Tasks
        PROVE  /\ head'[u] # None <=> pc'[u] \in Busy
               /\ head'[u] # None => owner'[head'[u]] = u
               /\ pc'[u] = "finish" => completed'[head'[u]]
    <3>1. CASE u = t
      <4>1. "fwake" \notin Busy  BY DEF Busy
      <4> QED  BY <1>4, <3>1, <4>1
    <3>2. CASE u # t
      <4>1. head'[u] = head[u] /\ pc'[u] = pc[u] /\ head[u] # h /\ completed' = completed
        BY <1>1, <1>3, <1>4, <3>2
      <4>2. head[u] # None => head[u] \in Descs  BY HeadsDiffer
      <4>3. /\ head[u] # None <=> pc[u] \in Busy
            /\ head[u] # None => owner[head[u]] = u
            /\ pc[u] = "finish" => completed[head[u]]
        BY DEF Heads
      <4>4. head[u] # None => owner'[head[u]] = owner[head[u]]  BY <1>4, <4>1, <4>2
      <4> QED  BY ONLY <4>1, <4>3, <4>4
    <3> QED  BY <3>1, <3>2
  <2>2. ASSUME NEW d \in Descs, owner'[d] # None
        PROVE  head'[owner'[d]] = d
    <3>1. d # h  BY <1>4, <2>2
    <3>2. owner'[d] = owner[d] /\ owner[d] \in Tasks \cup {None} /\ owner[d] # t
      BY <1>4, <1>6, <3>1 DEF TypeOK
    <3>3. head[owner[d]] = d  BY <2>2, <3>2 DEF Heads
    <3> QED  BY <1>4, <2>2, <3>2, <3>3
  <2> QED  BY <2>1, <2>2 DEF Heads
<1>8. TypeOK'
  <2>1. Chain(head[t]) \subseteq Descs  BY <1>3, ChainFreed
  <2>2. free' \in SUBSET Descs  BY <1>1, <2>1 DEF TypeOK
  <2>3. next' \in [Descs -> Descs \cup {None}]
    <3>1. \A d \in Descs : next[d] \in Descs \cup {None}  BY DEF TypeOK
    <3> QED  BY <1>1, <3>1
  <2>4. owner' \in [Descs -> Tasks \cup {None}] /\ head' \in [Tasks -> Descs \cup {None}]
    BY <1>1 DEF TypeOK
  <2>5. pc' \in [Tasks -> PC]  BY <1>1 DEF TypeOK, PC
  <2>6. served' \in SUBSET Tasks  BY <1>1 DEF TypeOK
  <2> QED  BY <1>1, <2>2, <2>3, <2>4, <2>5, <2>6 DEF TypeOK
<1>9. Rings' /\ Drains'  BY <1>1 DEF Rings, Drains, Ring, Ahead
<1>10. Told'
  <2>1. \A u \in Tasks : pc[u] = "notify" => pc'[u] = "notify"  BY <1>1, <1>4
  <2> QED  BY <1>1, <2>1 DEF Told
<1>11. irq # "wake" /\ irq' # "wake"  BY <1>1 DEF LockFree
<1>12. ASSUME NEW d \in Descs PROVE Stage(d)'
  <2>1. /\ On(avail, d)' <=> On(avail, d)
        /\ On(used, d)' <=> On(used, d)
        /\ ~Current(d) /\ ~Current(d)'
    BY <1>1, <1>11 DEF On, Current
  <2>2. Stage(d)  OBVIOUS
  <2>3. CASE d = h
    <3>1. ~On(avail, d) /\ d \notin serving /\ ~On(used, d)
      BY <1>2, <1>3, <2>1, <2>2, <2>3 DEF Stage
    <3> QED  BY <1>1, <1>4, <2>1, <2>3, <3>1 DEF Stage
  <2>4. CASE d # h
    <3>1. owner'[d] = owner[d] /\ (owner[d] \in served => owner[d] \in served')
      BY <1>1, <1>4, <1>6, <2>4
    <3> QED  BY <1>1, <2>1, <2>2, <3>1 DEF Stage
  <2> QED  BY <2>3, <2>4
<1>13. ASSUME NEW u \in Tasks PROVE OpWaits(u)' /\ DescWaits(u)'
  <2>1. CASE u = t  BY <1>4, <2>1 DEF OpWaits, DescWaits
  <2>2. CASE u # t
    <3>1. pc'[u] = pc[u] /\ head'[u] = head[u]  BY <1>4, <2>2
    <3>2. OpWaits(u)'  BY <1>1, <1>11, <3>1 DEF OpWaits, Current
    <3>3. DescWaits(u)'  BY <1>1, <1>4, <3>1 DEF DescWaits
    <3> QED  BY <3>2, <3>3
  <2> QED  BY <2>1, <2>2
<1> QED  BY <1>5, <1>7, <1>8, <1>9, <1>10, <1>12, <1>13

-----------------------------------------------------------------------------
(* The theorems.                                                           *)

LEMMA NextInv ==
  ASSUME VirtioInvariant, [Next]_vars
  PROVE  VirtioInvariant'
<1>1. CASE UNCHANGED vars
  <2>1. UNCHANGED <<free, next, completed, owner, waker, descWaiters, avail, availIdx, used,
                    usedIdx, seenAvail, serving, served, kicked, intr, irq, usedNow,
                    seenUsed, pc, head, woken, calls>>
    BY <1>1 DEF vars, driver, rings, device, handler
  <2> USE DEF VirtioInvariant
  <2>2. TypeOK'  BY <2>1 DEF TypeOK
  <2>3. Rings' /\ Drains' /\ Told'  BY <2>1 DEF Rings, Ring, Drains, Told, Ahead
  <2>4. \A d \in Descs : Stage(d)'  BY <2>1 DEF Stage, On, Current
  <2>5. \A t \in Tasks : OpWaits(t)'  BY <2>1 DEF OpWaits, Current
  <2> QED  BY <2>1, <2>2, <2>3, <2>4, <2>5, DeviceStepInv
<1>2. CASE \E t \in Tasks : Call(t)  BY <1>2, TaskInv
<1>3. ASSUME NEW t \in Tasks, Step(t), UNCHANGED calls
      PROVE  VirtioInvariant'
  <2>1. CASE LockFree /\ Submit(t)
    <3>1. CASE Cardinality(free) < 3  BY <1>3, <2>1, <3>1, TaskInv
    <3>2. CASE ~(Cardinality(free) < 3)  BY <1>3, <2>1, <3>2, SubmitInv
    <3> QED  BY <3>1, <3>2
  <2>2. CASE LockFree /\ Finish(t)  BY <1>3, <2>2, FinishInv
  <2>3. CASE \/ DescCheck(t) \/ Notify(t) \/ DescRegister(t) \/ OpRegister(t) \/ OpCheck(t)
             \/ Repoll(t) \/ FinishWake(t)
    BY <1>3, <2>3, TaskInv
  <2> QED  BY <1>3, <2>1, <2>2, <2>3 DEF Step
<1>4. ASSUME DeviceTake \/ DeviceIdle \/ Serve \/ Irq, UNCHANGED calls
      PROVE  VirtioInvariant'
  <2>1. CASE DeviceTake  BY <1>4, <2>1, DeviceTakeInv
  <2>2. CASE Serve  BY <1>4, <2>2, DeviceServeInv DEF Serve
  <2>3. CASE IrqComplete  BY <1>4, <2>3, IrqCompleteInv
  <2>4. CASE IrqWake  BY <1>4, <2>4, IrqWakeInv
  <2>5. CASE DeviceIdle \/ IrqAck \/ IrqRead \/ IrqDone  BY <1>4, <2>5, SignalInv
  <2> QED  BY <1>4, <2>1, <2>2, <2>3, <2>4, <2>5 DEF Irq
<1> QED  BY <1>1, <1>2, <1>3, <1>4 DEF Next

\* The disk driver keeps its books: for any number of tasks, any ring size of at
\* least three and any index width it divides, the descriptor table, the two
\* rings, the flags and the wakers agree after every step of a task, of the
\* device and of the handler (virtio_blk.rs).
THEOREM VirtioIsInvariant == Spec => []VirtioInvariant
<1>1. VirtioInvariant /\ [Next]_vars => VirtioInvariant'  BY NextInv
<1> QED  BY InitInv, <1>1, PTL DEF Spec

\* A task that reaches finish has had its own request served, although flags
\* and wakers are never cleared when a descriptor is freed.
THEOREM FinishedWasServed == Spec => []FinishedIsServed
<1>1. VirtioInvariant => FinishedIsServed
  <2> SUFFICES ASSUME VirtioInvariant, NEW t \in Tasks, pc[t] = "finish"
               PROVE  t \in served
    BY DEF FinishedIsServed
  <2>1. head[t] # None /\ owner[head[t]] = t /\ completed[head[t]]
    BY DEF VirtioInvariant, Heads, Busy
  <2>2. head[t] \in Descs /\ t # None  BY <2>1, HeadsDiffer, VirtioAssumption
  <2> QED  BY <2>1, <2>2 DEF VirtioInvariant, Stage
<1> QED  BY <1>1, VirtioIsInvariant, PTL

\* alloc_three and free_chain share out the table: every descriptor is free or
\* in exactly one chain, and every chain has three.
THEOREM TableIsShared == Spec => []ChainsPartition
<1>1. VirtioInvariant => ChainsPartition
  <2> SUFFICES ASSUME VirtioInvariant PROVE ChainsPartition  OBVIOUS
  <2> USE DEF VirtioInvariant
  <2>1. ASSUME NEW d, NEW t \in InFlight, d \in Chain(head[t])
        PROVE  d \in Descs \ free
    <3>1. Chain(head[t]) \subseteq Descs  BY ChainFreed
    <3> QED  BY <2>1, <3>1 DEF Threes
  <2>2. ASSUME NEW d \in Descs \ free
        PROVE  d \in UNION {Chain(head[t]) : t \in InFlight}
    BY DEF Apart
  <2>3. UNION {Chain(head[t]) : t \in InFlight} = Descs \ free  BY <2>1, <2>2
  <2> QED  BY <2>3 DEF ChainsPartition, Apart, Counted
<1> QED  BY <1>1, VirtioIsInvariant, PTL

\* A ring whose two indices agree is empty.
LEMMA RingIsEmpty ==
  ASSUME NEW ring \in [Descs -> Descs \cup {None}], NEW i \in 0..(WRAP - 1),
         Ring(ring, i, i), NEW d \in Descs
  PROVE  ~On(ring, d)
<1>1. RingPos(i) \in Descs /\ None \notin Descs  BY RingPosSucc, VirtioAssumption
<1>2. \A k \in Descs : ~Between(RingPos(i), RingPos(i), k)
  BY SMT, <1>1, VirtioAssumption DEF Between, Descs
<1> QED  BY <1>1, <1>2 DEF Ring, On

\* No wake-up of the driver is lost: when the device and the handler have nothing
\* to do and every task is out of the driver or parked and not woken, no task is
\* parked (BlockOp::poll and DescWait::poll against on_irq and finish).
THEOREM NobodyForgotten == Spec => []NothingForgotten
<1>1. VirtioInvariant => NothingForgotten
  <2> SUFFICES ASSUME VirtioInvariant, Quiet, NEW t \in Tasks, pc[t] # "out"
               PROVE  FALSE
    BY DEF NothingForgotten
  <2> USE DEF VirtioInvariant
  <2>1. /\ irq = "idle" /\ ~intr /\ serving = {} /\ ~(kicked /\ seenAvail # availIdx)
        /\ \A u \in Tasks : \/ pc[u] = "out"
                            \/ pc[u] \in {"dparked", "bparked"} /\ u \notin woken
    BY DEF Quiet
  <2>2. ASSUME NEW d \in Descs PROVE ~On(avail, d) /\ ~On(used, d)
    <3>1. seenAvail = availIdx /\ seenUsed = usedIdx
      <4>1. \A u \in Tasks : pc[u] # "notify"  BY <2>1
      <4> QED  BY <2>1, <4>1 DEF Told
    <3>2. /\ avail \in [Descs -> Descs \cup {None}] /\ used \in [Descs -> Descs \cup {None}]
          /\ seenAvail \in 0..(WRAP - 1) /\ seenUsed \in 0..(WRAP - 1)
      BY DEF TypeOK
    <3>3. Ring(avail, seenAvail, seenAvail) /\ Ring(used, seenUsed, seenUsed)
      BY <3>1 DEF Rings
    <3> QED  BY <3>2, <3>3, RingIsEmpty
  <2>3. ASSUME NEW u \in Tasks PROVE pc[u] # "bparked"
    <3>1. SUFFICES ASSUME pc[u] = "bparked" PROVE FALSE  OBVIOUS
    <3>2. head[u] # None /\ owner[head[u]] = u  BY <3>1 DEF Heads, Busy
    <3>3. head[u] \in Descs /\ u # None  BY <3>2, HeadsDiffer, VirtioAssumption
    <3>4. ~completed[head[u]]
      <4>1. u \notin woken  BY <2>1, <3>1
      <4>2. ~Current(head[u])  BY <2>1 DEF Current
      <4> QED  BY <3>1, <4>1, <4>2 DEF OpWaits
    <3> QED  BY <2>1, <2>2, <3>2, <3>3, <3>4 DEF Stage
  <2>4. InFlight = {}
    <3>1. \A u \in Tasks : pc[u] \notin Busy  BY <2>1, <2>3 DEF Busy
    <3> QED  BY <3>1 DEF Heads, InFlight
  <2>5. Cardinality(InFlight) = 0  BY <2>4, FS_EmptySet
  <2>6. Cardinality(free) + 3 * Cardinality(InFlight) = NUM /\ Cardinality(free) \in Nat
    BY FreeIsFinite DEF Counted
  <2>7. ~(Cardinality(free) < 3)  BY SMT, <2>5, <2>6, VirtioAssumption
  <2>8. pc[t] = "dparked" /\ t \notin woken  BY <2>1, <2>3
  <2>9. \A u \in Tasks : pc[u] # "fwake"  BY <2>1
  <2> QED  BY <2>7, <2>8, <2>9 DEF DescWaits
<1> QED  BY <1>1, VirtioIsInvariant, PTL
=============================================================================
