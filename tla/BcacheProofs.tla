----------------------------- MODULE BcacheProofs ---------------------------
(***************************************************************************)
(* Machine-checked proofs about the buffer cache on one hart, for every    *)
(* set of tasks and of blocks and every number of buffers.                 *)
(***************************************************************************)
EXTENDS Bcache, FiniteSetTheorems, TLAPS

\* Most steps are first-order; the others name the backend they need.
USE ZenonT(40)

\* All tasks are polled on the same hart, and so switch only where bread awaits.
OneHart == \A t, u \in Tasks : Home[t] = Home[u]

-----------------------------------------------------------------------------
(* The inductive invariant.                                                *)

\* One task at a time is between two awaits.
OnePoll ==
  \A t, u \in Tasks : pc[t] \in MidPoll /\ pc[u] \in MidPoll => t = u

Loader == {"io", "setvalid", "clrload", "wake"}
Waiter == {"wreg", "wcheck", "parked"}

\* bread has a block to look for, and as loader or waiter the clone of a buffer.
Locals ==
  \A t \in Tasks :
    /\ pc[t] # "out" <=> want[t] \in Blocks
    /\ pc[t] \in Loader \cup Waiter <=> buf[t] \in Bufs
    /\ pc[t] \in {"free", "free2"} => idx \in Bufs

\* A loader's buffer is its own, is for the block it wants, and shows how far the
\* load has come.
Loading ==
  \A t \in Tasks : pc[t] \in Loader =>
    /\ blk[buf[t]] = want[t]
    /\ loading[buf[t]] <=> pc[t] # "wake"
    /\ valid[buf[t]] <=> pc[t] \in {"clrload", "wake"}
    /\ pc[t] # "io" => data[buf[t]] = want[t]
    /\ \A u \in Tasks : pc[u] \in Loader /\ buf[u] = buf[t] => u = t

\* A buffer is marked as loading by a task that will clear the mark.
LoaderComes ==
  \A i \in Bufs : loading[i] => \E t \in Tasks : pc[t] \in Loader /\ buf[t] = i

\* What the scans have found is still so when the slot is claimed.
ScanStands ==
  \A t \in Tasks :
    /\ pc[t] \in {"loading", "free", "free2", "idle?"} => Hits(t) = {}
    /\ pc[t] \in {"free", "free2", "idle?"} => Loads(t) = {}
    /\ pc[t] = "free2" => ~valid[idx]

\* A valid buffer has the contents of its block.
Contents == \A i \in Bufs : valid[i] => blk[i] \in Blocks /\ data[i] = blk[i]

\* A task parked for a load is queued, or is on the list that the loader, which is
\* still at work, will wake.
WaiterWoken ==
  \A t \in Tasks :
    /\ pc[t] = "wcheck" => t \in ioWaker[buf[t]]
    /\ pc[t] = "parked" /\ t \notin woken =>
         /\ t \in ioWaker[buf[t]]
         /\ \E u \in Tasks : pc[u] \in Loader /\ buf[u] = buf[t]

BcacheInv ==
  /\ TypeOK /\ OnePoll /\ Locals /\ Loading /\ LoaderComes /\ ScanStands /\ Contents
  /\ OneBufferPerBlock /\ HeldIsStable /\ WaiterWoken

-----------------------------------------------------------------------------
(* What the other tasks do while one is polled: nothing.                   *)

Scanning == {"lock", "hit", "loading", "free", "free2", "idle?", "yield"}

\* The other tasks of t's hart are not in mid-poll, and t's step is not theirs.
Others(t) ==
  \A u \in Tasks \ {t} :
    /\ pc[u] \notin MidPoll /\ pc'[u] = pc[u]
    /\ want'[u] = want[u] /\ buf'[u] = buf[u] /\ held'[u] = held[u]

LEMMA OthersPoll ==
  ASSUME NEW t \in Tasks, Others(t)
  PROVE  OnePoll'
  BY DEF Others, OnePoll

\* A step of a task that neither is nor becomes a loader leaves the loads alone.
LEMMA LoadsStand ==
  ASSUME Loading, LoaderComes, NEW t \in Tasks, Others(t),
         pc[t] \notin Loader, pc'[t] \notin Loader,
         UNCHANGED <<blk, valid, loading, data>>
  PROVE  Loading' /\ LoaderComes'
<1>1. \A u \in Tasks : pc'[u] \in Loader \/ pc[u] \in Loader =>
        u # t /\ pc'[u] = pc[u] /\ buf'[u] = buf[u] /\ want'[u] = want[u]
  BY DEF Others
<1>2. Loading'  BY SMT, <1>1 DEF Loading
<1>3. LoaderComes'  BY SMT, <1>1 DEF LoaderComes
<1> QED  BY <1>2, <1>3

\* Nobody refers to a buffer whose strong count is one.
LEMMA NobodyRefers ==
  ASSUME NEW i, StrongCount(i) = 1
  PROVE  /\ \A u \in Tasks : buf[u] # i
         /\ \A u \in Tasks : \A b \in Blocks : <<i, b>> \notin held[u]
<1> DEFINE A == {u \in Tasks : buf[u] = i}
           B == {u \in Tasks : \E b \in Blocks : <<i, b>> \in held[u]}
<1>1. IsFiniteSet(A) /\ IsFiniteSet(B)  BY BcacheAssumption, FS_Subset
<1>2. Cardinality(A) \in Nat /\ Cardinality(B) \in Nat  BY <1>1, FS_CardinalityType
<1>3. Cardinality(A) = 0 /\ Cardinality(B) = 0
  <2>1. 1 + Cardinality(A) + Cardinality(B) = 1  BY DEF StrongCount
  <2> HIDE DEF A, B
  <2> QED  BY ONLY SMT, <1>2, <2>1
<1>4. A = {} /\ B = {}  BY <1>1, <1>3, FS_EmptySet
<1> QED  BY <1>4

\* Two buffers in use for the same block are the same, so the first one that a
\* scan finds is the only one.
LEMMA FirstIsIt ==
  ASSUME BcacheInv, NEW t \in Tasks, NEW S, S \in {Hits(t), Loads(t)}, S # {}
  PROVE  First(S) \in S
<1>1. PICK i \in S : TRUE  OBVIOUS
<1>2. \A j \in S : j = i
  BY <1>1 DEF BcacheInv, OneBufferPerBlock, Hits, Loads, IsHit, IsLoading
<1>3. S = {i} /\ i \in Int  BY SMT, <1>1, <1>2 DEF Hits, Loads, Bufs
<1>4. \A j \in S : i <= j  BY SMT, <1>3
<1> QED  BY <1>1, <1>4 DEF First

-----------------------------------------------------------------------------
(* The steps.                                                              *)

LEMMA InitInv == Init => BcacheInv
<1> SUFFICES ASSUME Init  PROVE BcacheInv
  OBVIOUS
<1> USE BcacheAssumption DEF Init
<1>1. TypeOK  BY SMT DEF TypeOK, Bufs, PC
<1>2. OnePoll /\ Locals /\ Loading
  BY SMT DEF OnePoll, Locals, Loading, Loader, Waiter, MidPoll, Bufs
<1>3. LoaderComes /\ ScanStands /\ Contents
  BY DEF LoaderComes, ScanStands, Contents
<1>4. OneBufferPerBlock /\ HeldIsStable /\ WaiterWoken
  BY DEF OneBufferPerBlock, HeldIsStable, WaiterWoken
<1> QED  BY <1>1, <1>2, <1>3, <1>4 DEF BcacheInv

\* A step from one place of the scans to another.
LEMMA MoveInv ==
  ASSUME BcacheInv, TypeOK', NEW t \in Tasks, Others(t),
         pc[t] \in Scanning \cup {"out"}, pc'[t] \in Scanning,
         want'[t] \in Blocks, buf'[t] = buf[t], held'[t] = held[t],
         pc'[t] \in {"free", "free2"} => idx' \in Bufs,
         pc'[t] \in {"loading", "free", "free2", "idle?"} => Hits(t)' = {},
         pc'[t] \in {"free", "free2", "idle?"} => Loads(t)' = {},
         pc'[t] = "free2" => ~valid[idx'],
         UNCHANGED <<blk, valid, loading, data, ioWaker, woken>>
  PROVE  BcacheInv'
<1> USE DEF BcacheInv
<1>1. OnePoll'  BY OthersPoll
<1>2. Locals'  BY SMT DEF Locals, Others, Scanning, Loader, Waiter, MidPoll
<1>3. pc[t] \notin Loader /\ pc'[t] \notin Loader  BY DEF Scanning, Loader
<1>4. Loading' /\ LoaderComes'  BY <1>3, LoadsStand
<1>5. ScanStands'
  BY SMT DEF ScanStands, Others, MidPoll
<1>6. Contents' /\ OneBufferPerBlock'  BY DEF Contents, OneBufferPerBlock
<1>7. HeldIsStable'  BY SMT DEF HeldIsStable, Others
<1>8. WaiterWoken'
  BY SMT DEF WaiterWoken, Others, Scanning, Loader, MidPoll
<1> QED  BY <1>1, <1>2, <1>3, <1>4, <1>5, <1>6, <1>7, <1>8

\* The claim of a slot that is neither loading nor held.
LEMMA ClaimInv ==
  ASSUME BcacheInv, TypeOK', NEW t \in Tasks, Others(t), NEW i \in Bufs, Claim(t, i),
         pc[t] \in {"free2", "idle?"}, ~loading[i],
         \A u \in Tasks : \A h \in held[u] : h[1] # i,
         held' = held, want' = want, UNCHANGED <<data, ioWaker, woken>>
  PROVE  BcacheInv'
<1> USE DEF BcacheInv
<1>0. /\ pc'[t] = "io" /\ buf'[t] = i
      /\ valid' = [valid EXCEPT ![i] = FALSE]
      /\ blk' = [blk EXCEPT ![i] = want[t]]
      /\ loading' = [loading EXCEPT ![i] = TRUE]
      /\ want[t] \in Blocks
  BY DEF Claim, Goto, TypeOK, Locals
<1>1. /\ ~valid'[i] /\ blk'[i] = want[t] /\ loading'[i]
      /\ \A j \in Bufs \ {i} : valid'[j] = valid[j] /\ blk'[j] = blk[j] /\ loading'[j] = loading[j]
  BY <1>0 DEF TypeOK
<1>2. \A u \in Tasks \ {t} : pc[u] \in Loader => buf[u] # i /\ buf[u] \in Bufs
  BY SMT DEF Loading, Others, Loader, MidPoll, Locals
<1>3. OnePoll'  BY OthersPoll
<1>4. Locals'  BY SMT, <1>0 DEF Locals, Others, Loader, Waiter, MidPoll
<1>5. Loading'
  BY SMT, <1>0, <1>1, <1>2 DEF Loading, Others, Loader
<1>6. LoaderComes'
  BY SMT, <1>0, <1>1 DEF LoaderComes, Others, Loader
<1>7. ScanStands'  BY SMT, <1>0 DEF ScanStands, Others, MidPoll
<1>8. Contents'  BY <1>1 DEF Contents
<1>9. OneBufferPerBlock'
  <2>1. \A j \in Bufs : valid[j] \/ loading[j] => blk[j] # want[t]
    BY DEF ScanStands, Hits, Loads, IsHit, IsLoading
  <2> QED  BY SMT, <1>1, <2>1 DEF OneBufferPerBlock
<1>10. HeldIsStable'
  <2>1. \A u \in Tasks : \A h \in held[u] : h[1] \in Bufs \ {i}  BY SMT DEF TypeOK
  <2> QED  BY SMT, <1>1, <2>1 DEF HeldIsStable
<1>11. WaiterWoken'
  <2> SUFFICES ASSUME NEW u \in Tasks, pc'[u] = "parked", u \notin woken
               PROVE  /\ u \in ioWaker[buf'[u]]
                      /\ \E v \in Tasks : pc'[v] \in Loader /\ buf'[v] = buf'[u]
    BY <1>0 DEF WaiterWoken, Others, MidPoll
  <2>1. u # t /\ pc[u] = "parked" /\ buf'[u] = buf[u]  BY <1>0 DEF Others
  <2>2. PICK v \in Tasks : pc[v] \in Loader /\ buf[v] = buf[u]
    BY <2>1 DEF WaiterWoken
  <2>3. v # t  BY <2>2 DEF Loader
  <2> QED  BY <2>1, <2>2, <2>3 DEF Others, WaiterWoken
<1> QED  BY <1>3, <1>4, <1>5, <1>6, <1>7, <1>8, <1>9, <1>10, <1>11

\* The task that takes a step is alone in mid-poll.
LEMMA Alone ==
  ASSUME OneHart, NEW t \in Tasks, Runs(t)
  PROVE  \A u \in Tasks \ {t} : pc[u] \notin MidPoll
  BY DEF OneHart, Runs

LEMMA CallInv ==
  ASSUME BcacheInv, OneHart, NEW t \in Tasks, NEW b \in Blocks, Call(t, b)
  PROVE  BcacheInv'
<1> USE DEF BcacheInv
<1>0. /\ pc[t] = "out" /\ pc' = [pc EXCEPT ![t] = "lock"]
      /\ want' = [want EXCEPT ![t] = b]
      /\ UNCHANGED <<blk, valid, loading, data, ioWaker, woken, lock, buf, idx, held>>
  BY DEF Call, Goto, fields
<1>1. TypeOK'  BY <1>0 DEF TypeOK, PC, MidPoll
<1>2. pc'[t] = "lock" /\ want'[t] = b  BY <1>0 DEF TypeOK
<1>3. Others(t)  BY <1>0, Alone DEF Call, Others, TypeOK
<1> QED  BY <1>0, <1>1, <1>2, <1>3, MoveInv DEF Scanning

\* The steps of the scans that find nothing.
LEMMA ScanInv ==
  ASSUME BcacheInv, OneHart, NEW t \in Tasks,
         \/ Acquire(t) \/ FreeValid(t) \/ Retry(t)
         \/ HitScan(t) /\ Hits(t) = {}
         \/ LoadingScan(t) /\ Loads(t) = {}
         \/ FreeLoading(t) /\ loading[idx]
         \/ EvictIdle(t) /\ \A i \in Bufs : ~Idle(i)
  PROVE  BcacheInv'
<1> USE DEF BcacheInv
<1>1. PICK l \in Scanning :
        /\ Runs(t) /\ pc[t] \in Scanning /\ pc' = [pc EXCEPT ![t] = l]
        /\ lock' \in Tasks \cup {0} /\ idx' \in 0..(NBUF + 1)
        /\ l \in {"free", "free2"} => idx' \in Bufs
        /\ l \in {"loading", "free", "free2", "idle?"} => Hits(t) = {}
        /\ l \in {"free", "free2", "idle?"} => Loads(t) = {}
        /\ l = "free2" => ~valid[idx']
        /\ UNCHANGED <<blk, valid, loading, data, ioWaker, woken, want, buf, held>>
  <2> USE BcacheAssumption DEF Scanning
  <2>0. lock \in Tasks \cup {0} /\ idx \in 0..(NBUF + 1)  BY DEF TypeOK
  <2>1. CASE Acquire(t)  BY <2>0, <2>1 DEF Acquire, Goto, fields
  <2>2. CASE Retry(t)  BY <2>0, <2>2 DEF Retry, Goto, fields
  <2>3. CASE HitScan(t) /\ Hits(t) = {}
    BY <2>0, <2>3 DEF HitScan, Goto, fields
  <2>4. CASE LoadingScan(t) /\ Loads(t) = {}
    BY SMT, <2>0, <2>4 DEF LoadingScan, Goto, fields, ScanStands, Bufs
  <2>5. CASE FreeValid(t)
    BY SMT, <2>0, <2>5 DEF FreeValid, NextSlot, Goto, fields, ScanStands, Bufs, Locals
  <2>6. CASE FreeLoading(t) /\ loading[idx]
    BY SMT, <2>0, <2>6 DEF FreeLoading, NextSlot, Goto, fields, ScanStands, Bufs, Locals
  <2>7. CASE EvictIdle(t) /\ \A i \in Bufs : ~Idle(i)
    BY <2>0, <2>7 DEF EvictIdle, Goto, fields
  <2> QED  BY <2>1, <2>2, <2>3, <2>4, <2>5, <2>6, <2>7
<1>2. TypeOK'  BY <1>1 DEF TypeOK, PC, MidPoll, Scanning
<1>3. pc'[t] = l /\ want'[t] \in Blocks
  BY <1>1 DEF TypeOK, Locals, Scanning
<1>4. Others(t)  BY <1>1, Alone DEF Others, TypeOK
<1>5. Hits(t)' = Hits(t) /\ Loads(t)' = Loads(t)
  BY <1>1 DEF Hits, Loads, IsHit, IsLoading
<1> QED  BY <1>1, <1>2, <1>3, <1>4, <1>5, MoveInv

\* A slot found free, or found idle, is claimed.
LEMMA EvictInv ==
  ASSUME BcacheInv, OneHart, NEW t \in Tasks,
         \/ FreeLoading(t) /\ ~loading[idx]
         \/ EvictIdle(t) /\ ~\A i \in Bufs : ~Idle(i)
  PROVE  BcacheInv'
<1> USE DEF BcacheInv
<1>1. PICK i \in Bufs :
        /\ Runs(t) /\ pc[t] \in {"free2", "idle?"} /\ ~loading[i] /\ Claim(t, i)
        /\ \A u \in Tasks : \A h \in held[u] : h[1] # i
        /\ UNCHANGED <<data, ioWaker, woken, want, idx, held>>
  <2>1. CASE FreeLoading(t) /\ ~loading[idx]
    <3>1. idx \in Bufs /\ ~valid[idx]
      BY <2>1 DEF FreeLoading, Locals, ScanStands
    <3>2. \A u \in Tasks : \A h \in held[u] : h[1] # idx
      BY <3>1 DEF HeldIsStable
    <3> QED  BY <2>1, <3>1, <3>2 DEF FreeLoading
  <2>2. CASE EvictIdle(t) /\ ~\A i \in Bufs : ~Idle(i)
    <3>1. PICK i \in Bufs : Idle(i) /\ Claim(t, i)  BY <2>2 DEF EvictIdle
    <3>2. \A u \in Tasks : \A b \in Blocks : <<i, b>> \notin held[u]
      BY <3>1, NobodyRefers DEF Idle
    <3>3. \A u \in Tasks : \A h \in held[u] : h \in Bufs \X Blocks  BY DEF TypeOK
    <3>4. \A u \in Tasks : \A h \in held[u] : h[1] # i
      <4> SUFFICES ASSUME NEW u \in Tasks, NEW h \in held[u], h[1] = i  PROVE FALSE
        OBVIOUS
      <4>1. h \in Bufs \X Blocks  BY <3>3
      <4>2. h = <<i, h[2]>> /\ h[2] \in Blocks  BY SMT, <4>1
      <4> QED  BY <3>2, <4>2
    <3> QED  BY <2>2, <3>1, <3>4 DEF EvictIdle, Idle
  <2> QED  BY <2>1, <2>2
<1>2. /\ pc' = [pc EXCEPT ![t] = "io"] /\ buf' = [buf EXCEPT ![t] = i]
      /\ valid' = [valid EXCEPT ![i] = FALSE]
      /\ blk' = [blk EXCEPT ![i] = want[t]]
      /\ loading' = [loading EXCEPT ![i] = TRUE] /\ lock' = 0
  BY <1>1 DEF Claim, Goto
<1>3. i \in 0..NBUF  BY SMT, BcacheAssumption DEF Bufs
<1>4. TypeOK'  BY <1>1, <1>2, <1>3 DEF TypeOK, PC
<1>5. Others(t)  BY <1>1, <1>2, Alone DEF Others, TypeOK
<1> QED  BY <1>1, <1>4, <1>5, ClaimInv

\* The first scan finds the block: bread returns.
LEMMA HitInv ==
  ASSUME BcacheInv, OneHart, NEW t \in Tasks, HitScan(t), Hits(t) # {}
  PROVE  BcacheInv'
<1> USE DEF BcacheInv
<1>1. PICK i \in Bufs : i = First(Hits(t)) /\ i \in Hits(t)
  BY FirstIsIt DEF Hits
<1>2. /\ Runs(t) /\ pc[t] = "hit" /\ pc' = [pc EXCEPT ![t] = "out"]
      /\ held' = [held EXCEPT ![t] = @ \cup {<<i, want[t]>>}]
      /\ want' = [want EXCEPT ![t] = NoBlock]
      /\ lock' = 0
      /\ UNCHANGED <<blk, valid, loading, data, ioWaker, woken, buf, idx>>
  BY <1>1 DEF HitScan, Return, Goto, fields
<1>3. want[t] \in Blocks /\ blk[i] = want[t] /\ valid[i]
  BY <1>1, <1>2 DEF Locals, Hits, IsHit
<1>4. TypeOK'  BY SMT, <1>2, <1>3 DEF TypeOK, PC
<1>5. Others(t)  BY <1>2, Alone DEF Others, TypeOK
<1>6. /\ pc'[t] = "out" /\ want'[t] = NoBlock /\ buf'[t] = buf[t]
      /\ held'[t] = held[t] \cup {<<i, want[t]>>}
  BY <1>2 DEF TypeOK
<1>7. OnePoll'  BY <1>5, OthersPoll
<1>8. Locals'  BY <1>2, <1>5, <1>6, BcacheAssumption DEF Locals, Others, Loader, Waiter, MidPoll
<1>9. Loading' /\ LoaderComes'  BY <1>2, <1>5, <1>6, LoadsStand DEF Loader
<1>10. ScanStands'  BY SMT, <1>5, <1>6 DEF ScanStands, Others, MidPoll
<1>11. Contents' /\ OneBufferPerBlock'  BY <1>2 DEF Contents, OneBufferPerBlock
<1>12. HeldIsStable'
  BY SMT, <1>2, <1>3, <1>5, <1>6 DEF HeldIsStable, Others, Contents
<1>13. WaiterWoken'
  BY SMT, <1>2, <1>5, <1>6 DEF WaiterWoken, Others, Loader, MidPoll
<1> QED  BY <1>4, <1>7, <1>8, <1>9, <1>10, <1>11, <1>12, <1>13

\* The second scan finds a load in progress: bread becomes a waiter.
LEMMA JoinInv ==
  ASSUME BcacheInv, OneHart, NEW t \in Tasks, LoadingScan(t), Loads(t) # {}
  PROVE  BcacheInv'
<1> USE DEF BcacheInv
<1>1. PICK i \in Bufs : i = First(Loads(t)) /\ i \in Loads(t)
  BY FirstIsIt DEF Loads
<1>2. /\ Runs(t) /\ pc[t] = "loading" /\ pc' = [pc EXCEPT ![t] = "wreg"]
      /\ buf' = [buf EXCEPT ![t] = i] /\ lock' = 0
      /\ UNCHANGED <<blk, valid, loading, data, ioWaker, woken, want, idx, held>>
  BY <1>1 DEF LoadingScan, Goto, fields
<1>3. i \in 0..NBUF  BY SMT, BcacheAssumption DEF Bufs
<1>4. TypeOK'  BY <1>2, <1>3 DEF TypeOK, PC, MidPoll
<1>5. Others(t)  BY <1>2, Alone DEF Others, TypeOK
<1>6. pc'[t] = "wreg" /\ buf'[t] = i  BY <1>2 DEF TypeOK
<1>7. OnePoll'  BY <1>5, OthersPoll
<1>8. Locals'  BY <1>2, <1>5, <1>6 DEF Locals, Others, Loader, Waiter, MidPoll
<1>9. Loading' /\ LoaderComes'  BY <1>2, <1>5, <1>6, LoadsStand DEF Loader
<1>10. ScanStands'  BY <1>5, <1>6 DEF ScanStands, Others, MidPoll
<1>11. Contents' /\ OneBufferPerBlock' /\ HeldIsStable'
  BY <1>2 DEF Contents, OneBufferPerBlock, HeldIsStable
<1>12. WaiterWoken'
  BY SMT, <1>2, <1>5, <1>6 DEF WaiterWoken, Others, Loader, MidPoll
<1> QED  BY <1>4, <1>7, <1>8, <1>9, <1>10, <1>11, <1>12

\* The buffer is filled, then valid, then no longer loading.
LEMMA LoadInv ==
  ASSUME BcacheInv, OneHart, NEW t \in Tasks,
         IoDone(t) \/ SetValid(t) \/ ClearLoading(t)
  PROVE  BcacheInv'
<1> USE DEF BcacheInv
<1>0. PICK l \in {"setvalid", "clrload", "wake"} :
        /\ Runs(t) /\ pc[t] \in Loader \ {"wake"} /\ pc' = [pc EXCEPT ![t] = l]
        /\ l = "setvalid" <=> pc[t] = "io"
        /\ l = "clrload" <=> pc[t] = "setvalid"
        /\ data' = IF l = "setvalid" THEN [data EXCEPT ![buf[t]] = want[t]] ELSE data
        /\ valid' = IF l = "clrload" THEN [valid EXCEPT ![buf[t]] = TRUE] ELSE valid
        /\ loading' = IF l = "wake" THEN [loading EXCEPT ![buf[t]] = FALSE] ELSE loading
        /\ UNCHANGED <<blk, ioWaker, woken, lock, want, buf, idx, held>>
  BY DEF IoDone, SetValid, ClearLoading, Goto, fields, Loader
<1>1. PICK i \in Bufs : i = buf[t] /\ blk[i] = want[t] /\ want[t] \in Blocks
  BY <1>0 DEF Locals, Loading, Loader
<1>2. TypeOK'  BY <1>0, <1>1 DEF TypeOK, PC, MidPoll
<1>3. Others(t)  BY <1>0, Alone DEF Others, TypeOK
<1>4. /\ pc'[t] = l
      /\ data'[i] = (IF l = "setvalid" THEN want[t] ELSE data[i])
      /\ valid'[i] <=> l = "clrload" \/ valid[i]
      /\ loading'[i] <=> l # "wake" /\ loading[i]
      /\ \A j \in Bufs \ {i} : data'[j] = data[j] /\ valid'[j] = valid[j] /\ loading'[j] = loading[j]
  BY <1>0, <1>1 DEF TypeOK
<1>5. /\ loading[i] /\ (valid[i] <=> pc[t] = "clrload")
      /\ pc[t] # "io" => data[i] = want[t]
      /\ \A u \in Tasks \ {t} : pc[u] \in Loader => buf[u] \in Bufs \ {i}
  BY <1>0, <1>1 DEF Loading, Locals, Loader
<1>6. OnePoll'  BY <1>3, OthersPoll
<1>7. Locals'  BY SMTT(30), <1>0, <1>3, <1>4 DEF Locals, Others, Loader, Waiter, MidPoll
<1>8. Loading'
  <2>1. ASSUME NEW u \in Tasks \ {t}, pc'[u] \in Loader
        PROVE  /\ pc'[u] = pc[u] /\ buf'[u] = buf[u] /\ want'[u] = want[u]
               /\ pc[u] \in Loader /\ buf[u] \in Bufs \ {i}
    BY <1>3, <1>5, <2>1 DEF Others
  <2>2. pc'[t] \in Loader /\ buf'[t] = i /\ want'[t] = want[t]  BY <1>0, <1>1, <1>4 DEF Loader
  <2>3. /\ blk'[i] = want[t] /\ (loading'[i] <=> l # "wake")
        /\ valid'[i] <=> l \in {"clrload", "wake"}
        /\ data'[i] = want[t]
    BY <1>0, <1>1, <1>4, <1>5 DEF Loader
  <2> QED  BY SMTT(30), <1>0, <1>4, <2>1, <2>2, <2>3 DEF Loading
<1>9. LoaderComes'
  BY SMTT(30), <1>0, <1>1, <1>3, <1>4 DEF LoaderComes, Others, Loader
<1>10. ScanStands'  BY SMTT(30), <1>0, <1>3, <1>4 DEF ScanStands, Others, MidPoll
<1>11. Contents'  BY <1>0, <1>1, <1>4, <1>5 DEF Contents, Loader
<1>12. OneBufferPerBlock'
  <2>1. \A j \in Bufs : valid'[j] \/ loading'[j] => valid[j] \/ loading[j]
    BY <1>4, <1>5
  <2> QED  BY <1>0, <2>1 DEF OneBufferPerBlock
<1>13. HeldIsStable'
  <2>1. \A u \in Tasks : \A h \in held[u] : h[1] \in Bufs  BY SMT DEF TypeOK
  <2>2. \A j \in Bufs : valid[j] => valid'[j] /\ data'[j] = data[j]
    BY <1>0, <1>4, <1>5
  <2> QED  BY SMTT(30), <1>0, <2>1, <2>2 DEF HeldIsStable
<1>14. WaiterWoken'
  BY SMT, <1>0, <1>3, <1>4 DEF WaiterWoken, Others, Loader, MidPoll
<1> QED  BY <1>2, <1>6, <1>7, <1>8, <1>9, <1>10, <1>11, <1>12, <1>13, <1>14

\* The loader wakes the waiters and returns its buffer.
LEMMA LoadReturnInv ==
  ASSUME BcacheInv, OneHart, NEW t \in Tasks, LoadReturn(t)
  PROVE  BcacheInv'
<1> USE DEF BcacheInv
<1>0. /\ Runs(t) /\ pc[t] = "wake" /\ pc' = [pc EXCEPT ![t] = "out"]
      /\ woken' = woken \cup ioWaker[buf[t]]
      /\ ioWaker' = [ioWaker EXCEPT ![buf[t]] = {}]
      /\ held' = [held EXCEPT ![t] = @ \cup {<<buf[t], want[t]>>}]
      /\ want' = [want EXCEPT ![t] = NoBlock]
      /\ buf' = [buf EXCEPT ![t] = 0]
      /\ UNCHANGED <<blk, valid, loading, data, lock, idx>>
  BY DEF LoadReturn, WakeAll, Return, Goto, fields
<1>1. PICK i \in Bufs :
        /\ i = buf[t] /\ blk[i] = want[t] /\ want[t] \in Blocks
        /\ ~loading[i] /\ valid[i] /\ data[i] = want[t]
        /\ \A u \in Tasks \ {t} : pc[u] \in Loader => buf[u] # i
  BY SMT, <1>0 DEF Locals, Loading, Loader
<1>2. 0 \notin Bufs /\ 0 \in 0..NBUF  BY SMT, BcacheAssumption DEF Bufs
<1>3. TypeOK'  BY SMT, <1>0, <1>1, <1>2 DEF TypeOK, PC
<1>4. Others(t)  BY <1>0, Alone DEF Others, TypeOK
<1>5. /\ pc'[t] = "out" /\ want'[t] = NoBlock /\ buf'[t] = 0
      /\ held'[t] = held[t] \cup {<<i, want[t]>>}
      /\ woken' = woken \cup ioWaker[i]
      /\ \A j \in Bufs \ {i} : ioWaker'[j] = ioWaker[j]
  BY <1>0, <1>1 DEF TypeOK
<1>6. OnePoll'  BY <1>4, OthersPoll
<1>7. Locals'
  BY SMTT(30), <1>0, <1>2, <1>4, <1>5, BcacheAssumption DEF Locals, Others, Loader, Waiter, MidPoll
<1>8. Loading'  BY SMTT(30), <1>0, <1>4, <1>5 DEF Loading, Others, Loader
<1>9. LoaderComes'  BY SMTT(30), <1>0, <1>1, <1>4, <1>5 DEF LoaderComes, Others, Loader
<1>10. ScanStands'  BY SMT, <1>4, <1>5 DEF ScanStands, Others, MidPoll
<1>11. Contents' /\ OneBufferPerBlock'  BY <1>0 DEF Contents, OneBufferPerBlock
<1>12. HeldIsStable'  BY SMTT(30), <1>0, <1>1, <1>4, <1>5 DEF HeldIsStable, Others
<1>13. WaiterWoken'
  <2> SUFFICES ASSUME NEW u \in Tasks, pc'[u] = "parked", u \notin woken'
               PROVE  /\ u \in ioWaker'[buf'[u]]
                      /\ \E v \in Tasks : pc'[v] \in Loader /\ buf'[v] = buf'[u]
    BY SMT, <1>4, <1>5 DEF WaiterWoken, Others, MidPoll
  <2>1. /\ u # t /\ pc[u] = "parked" /\ buf'[u] = buf[u] /\ u \notin woken
        /\ u \notin ioWaker[i]
    BY <1>4, <1>5 DEF Others
  <2>2. u \in ioWaker[buf[u]] /\ buf[u] # i /\ buf[u] \in Bufs
    BY <2>1 DEF WaiterWoken, Locals, Waiter
  <2>3. PICK v \in Tasks : pc[v] \in Loader /\ buf[v] = buf[u]
    BY <2>1 DEF WaiterWoken
  <2>4. v # t  BY <1>1, <2>2, <2>3
  <2> QED  BY SMT, <1>4, <1>5, <2>1, <2>2, <2>3, <2>4 DEF Others
<1> QED  BY <1>3, <1>6, <1>7, <1>8, <1>9, <1>10, <1>11, <1>12, <1>13

\* A waiter registers, looks, parks, is polled again.
LEMMA WaitInv ==
  ASSUME BcacheInv, OneHart, NEW t \in Tasks,
         WaitRegister(t) \/ Repoll(t) \/ WaitCheck(t)
  PROVE  BcacheInv'
<1> USE DEF BcacheInv
<1>0. PICK l \in {"wreg", "wcheck", "parked", "lock"} :
        /\ Runs(t) /\ pc[t] \in Waiter /\ pc' = [pc EXCEPT ![t] = l]
        /\ l = "wcheck" <=> pc[t] = "wreg"
        /\ l = "parked" => loading[buf[t]] /\ pc[t] = "wcheck"
        /\ ioWaker' = IF l = "wcheck" THEN [ioWaker EXCEPT ![buf[t]] = @ \cup {t}]
                                      ELSE ioWaker
        /\ woken' \in {woken, woken \ {t}}
        /\ buf' = IF l = "lock" THEN [buf EXCEPT ![t] = 0] ELSE buf
        /\ UNCHANGED <<blk, valid, loading, data, lock, want, idx, held>>
  BY DEF WaitRegister, Repoll, WaitCheck, Goto, fields, Waiter
<1>1. PICK i \in Bufs : i = buf[t]  BY <1>0 DEF Locals
<1>2. 0 \notin Bufs /\ 0 \in 0..NBUF  BY SMT, BcacheAssumption DEF Bufs
<1>3. TypeOK'  BY <1>0, <1>1, <1>2 DEF TypeOK, PC, MidPoll
<1>4. Others(t)  BY <1>0, Alone DEF Others, TypeOK
<1>5. /\ pc'[t] = l /\ buf'[t] = (IF l = "lock" THEN 0 ELSE i)
      /\ \A j \in Bufs : ioWaker[j] \subseteq ioWaker'[j]
      /\ l = "wcheck" => t \in ioWaker'[i]
      /\ \A u \in Tasks \ {t} : u \in woken' <=> u \in woken
  BY <1>0, <1>1 DEF TypeOK
<1>6. OnePoll'  BY <1>4, OthersPoll
<1>7. Locals'
  BY <1>0, <1>1, <1>2, <1>4, <1>5 DEF Locals, Others, Loader, Waiter, MidPoll
<1>8. Loading' /\ LoaderComes'  BY <1>0, <1>4, <1>5, LoadsStand DEF Loader, Waiter
<1>9. ScanStands'  BY <1>4, <1>5 DEF ScanStands, Others, MidPoll
<1>10. Contents' /\ OneBufferPerBlock' /\ HeldIsStable'
  BY <1>0 DEF Contents, OneBufferPerBlock, HeldIsStable
<1>11. WaiterWoken'
  <2>1. \A v \in Tasks : pc[v] \in Loader => pc'[v] = pc[v] /\ buf'[v] = buf[v]
    BY <1>0, <1>4 DEF Others, Loader, Waiter
  <2>2. /\ pc'[t] = "wcheck" => t \in ioWaker'[buf'[t]]
        /\ pc'[t] = "parked" /\ t \notin woken' =>
             /\ t \in ioWaker'[buf'[t]]
             /\ \E v \in Tasks : pc'[v] \in Loader /\ buf'[v] = buf'[t]
    BY <1>0, <1>1, <1>5, <2>1 DEF WaiterWoken, LoaderComes
  <2>3. ASSUME NEW u \in Tasks \ {t}
        PROVE  /\ pc'[u] = "wcheck" => u \in ioWaker'[buf'[u]]
               /\ pc'[u] = "parked" /\ u \notin woken' =>
                    /\ u \in ioWaker'[buf'[u]]
                    /\ \E v \in Tasks : pc'[v] \in Loader /\ buf'[v] = buf'[u]
    <3>1. pc'[u] = pc[u] /\ buf'[u] = buf[u] /\ pc[u] # "wcheck"
      BY <1>4, <2>3 DEF Others, MidPoll
    <3>2. ASSUME pc[u] = "parked", u \notin woken'
          PROVE  /\ u \in ioWaker'[buf[u]]
                 /\ \E v \in Tasks : pc'[v] \in Loader /\ buf'[v] = buf[u]
      <4>1. u \notin woken /\ buf[u] \in Bufs  BY <1>5, <2>3, <3>2 DEF Locals, Waiter
      <4>2. /\ u \in ioWaker[buf[u]]
            /\ \E v \in Tasks : pc[v] \in Loader /\ buf[v] = buf[u]
        BY <2>3, <3>2, <4>1 DEF WaiterWoken
      <4> QED  BY <1>5, <2>1, <4>1, <4>2
    <3> QED  BY <3>1, <3>2
  <2> QED  BY <2>2, <2>3 DEF WaiterWoken
<1> QED  BY <1>3, <1>6, <1>7, <1>8, <1>9, <1>10, <1>11

\* A caller drops a buffer.
LEMMA ReleaseInv ==
  ASSUME BcacheInv, OneHart, NEW t \in Tasks, Release(t)
  PROVE  BcacheInv'
<1> USE DEF BcacheInv
<1>0. PICK h \in held[t] :
        /\ pc[t] = "out" /\ held' = [held EXCEPT ![t] = @ \ {h}]
        /\ UNCHANGED <<blk, valid, loading, data, ioWaker, woken, lock, pc, want, buf, idx>>
  BY DEF Release, fields
<1>1. TypeOK' /\ \A u \in Tasks : held'[u] \subseteq held[u]  BY <1>0 DEF TypeOK
<1>2. OnePoll' /\ Locals' /\ Loading' /\ LoaderComes' /\ Contents'
  BY <1>0 DEF OnePoll, Locals, Loading, LoaderComes, Contents
<1>3. ScanStands'  BY <1>0 DEF ScanStands, Hits, Loads, IsHit, IsLoading
<1>4. OneBufferPerBlock' /\ WaiterWoken'  BY <1>0 DEF OneBufferPerBlock, WaiterWoken
<1>5. HeldIsStable'  BY <1>0, <1>1 DEF HeldIsStable
<1> QED  BY <1>1, <1>2, <1>3, <1>4, <1>5

LEMMA NextInv == OneHart /\ BcacheInv /\ [Next]_vars => BcacheInv'
<1> SUFFICES ASSUME OneHart, BcacheInv, [Next]_vars  PROVE BcacheInv'
  OBVIOUS
<1>1. CASE UNCHANGED vars
  <2>1. UNCHANGED <<blk, valid, loading, data, ioWaker, woken, lock, pc, want, buf, idx, held>>
    BY <1>1 DEF vars, fields
  <2>2. TypeOK' /\ OnePoll' /\ Locals' /\ Loading' /\ LoaderComes' /\ Contents'
    BY <2>1 DEF BcacheInv, TypeOK, OnePoll, Locals, Loading, LoaderComes, Contents
  <2>3. ScanStands'  BY <2>1 DEF BcacheInv, ScanStands, Hits, Loads, IsHit, IsLoading
  <2>4. OneBufferPerBlock' /\ HeldIsStable' /\ WaiterWoken'
    BY <2>1 DEF BcacheInv, OneBufferPerBlock, HeldIsStable, WaiterWoken
  <2> QED  BY <2>2, <2>3, <2>4 DEF BcacheInv
<1>2. ASSUME NEW t \in Tasks, NEW b \in Blocks, Call(t, b)  PROVE BcacheInv'
  BY <1>2, CallInv
<1>3. ASSUME NEW t \in Tasks, Scan(t)  PROVE BcacheInv'
  BY <1>3, ScanInv, EvictInv, HitInv, JoinInv DEF Scan
<1>4. ASSUME NEW t \in Tasks, Load(t)  PROVE BcacheInv'
  BY <1>4, LoadInv, LoadReturnInv DEF Load
<1>5. ASSUME NEW t \in Tasks, Retry(t) \/ Wait(t) \/ Release(t)  PROVE BcacheInv'
  BY <1>5, ScanInv, WaitInv, ReleaseInv DEF Wait
<1> QED  BY <1>1, <1>2, <1>3, <1>4, <1>5 DEF Next

-----------------------------------------------------------------------------
(* The theorems.                                                           *)

\* On one hart the facts above hold in every state.
THEOREM BcacheInvariant ==
  ASSUME OneHart
  PROVE  Spec => []BcacheInv
<1>1. BcacheInv /\ [Next]_vars => BcacheInv'  BY NextInv
<1> QED  BY <1>1, InitInv, PTL DEF Spec

\* On one hart a block has at most one buffer, however many tasks bread it and
\* however few buffers there are: what the scans saw under the CACHE lock is still
\* so at the claim (bio.rs).
THEOREM OneBufferHolds ==
  ASSUME OneHart
  PROVE  Spec => []OneBufferPerBlock
<1>1. BcacheInv => OneBufferPerBlock  BY DEF BcacheInv
<1> QED  BY <1>1, BcacheInvariant, PTL

\* On one hart a buffer that bread returned keeps its block and its contents until
\* its caller drops it: the strong count keeps it from eviction, and no loader
\* writes to it.
THEOREM HeldStaysStable ==
  ASSUME OneHart
  PROVE  Spec => []HeldIsStable
<1>1. BcacheInv => HeldIsStable  BY DEF BcacheInv
<1> QED  BY <1>1, BcacheInvariant, PTL

\* On one hart no waiter is left parked behind a finished load: it is queued, or on
\* the list of a loader still at work (LoadWait registers before it looks).
THEOREM WaitersAreWoken ==
  ASSUME OneHart
  PROVE  Spec => []WaiterWoken
<1>1. BcacheInv => WaiterWoken  BY DEF BcacheInv
<1> QED  BY <1>1, BcacheInvariant, PTL

=============================================================================
