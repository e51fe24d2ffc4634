------------------------------ MODULE LogProofs -----------------------------
(***************************************************************************)
(* Machine-checked proofs about the log, for every number of tasks, blocks *)
(* and log slots: the inductive invariant LogInv, the safety properties it *)
(* implies, and that Log implements TxDisk.                                *)
(***************************************************************************)
EXTENDS Log, FiniteSetTheorems, TLAPS

\* Most steps are first-order; the others name the backend they need.
USE ZenonT(40)

USE DEF Enter, Recorded, MoreBlocks

-----------------------------------------------------------------------------
(* Counting tasks and reserved slots.                                      *)

\* The tasks inside a transaction are finitely many.
LEMMA ActiveFinite == IsFiniteSet(Active)
  BY LogAssumption, FS_Subset DEF Active

\* The set of blocks an operation has logged is finite.
LEMMA WrFinite ==
  ASSUME TypeOK, NEW t \in Tasks
  PROVE  IsFiniteSet(wr[t]) /\ Cardinality(wr[t]) \in Nat
<1>1. wr[t] \in SUBSET Blocks  BY DEF TypeOK
<1> QED  BY <1>1, LogAssumption, FS_Subset, FS_CardinalityType

\* At most MAXOPBLOCKS slots are reserved for each running operation.
LEMMA BudgetBound ==
  /\ IsFiniteSet(Budget)
  /\ Cardinality(Budget) \in Nat
  /\ Cardinality(Budget) <= Cardinality(Active) * MAXOPBLOCKS
<1> DEFINE All == Active \X (1..MAXOPBLOCKS)
<1>1. IsFiniteSet(1..MAXOPBLOCKS) /\ Cardinality(1..MAXOPBLOCKS) = MAXOPBLOCKS
  BY SMT, FS_Interval, LogAssumption
<1>2. IsFiniteSet(All) /\ Cardinality(All) = Cardinality(Active) * MAXOPBLOCKS
  BY <1>1, ActiveFinite, FS_Product
<1>3. Budget \in SUBSET All  BY DEF Budget
<1> QED  BY <1>2, <1>3, FS_Subset, FS_CardinalityType

\* The same bound after a step (ActiveFinite and BudgetBound are about any
\* state; this is their primed form).
LEMMA BudgetBoundNext ==
  /\ IsFiniteSet(Active')
  /\ IsFiniteSet(Budget')
  /\ Cardinality(Budget') \in Nat
  /\ Cardinality(Budget') <= Cardinality(Active') * MAXOPBLOCKS
<1> DEFINE All == Active' \X (1..MAXOPBLOCKS)
<1>0. IsFiniteSet(Active')  BY LogAssumption, FS_Subset DEF Active
<1>1. IsFiniteSet(1..MAXOPBLOCKS) /\ Cardinality(1..MAXOPBLOCKS) = MAXOPBLOCKS
  BY SMT, FS_Interval, LogAssumption
<1>2. IsFiniteSet(All) /\ Cardinality(All) = Cardinality(Active') * MAXOPBLOCKS
  BY <1>0, <1>1, FS_Product
<1>3. Budget' \in SUBSET All  BY DEF Budget
<1> QED  BY <1>0, <1>2, <1>3, FS_Subset, FS_CardinalityType

\* A running operation that has not used its reservation holds a token.
LEMMA TokenLeft ==
  ASSUME TypeOK, NEW t \in Active, Cardinality(wr[t]) < MAXOPBLOCKS
  PROVE  Cardinality(Budget) >= 1
<1>1. t \in Tasks /\ Cardinality(wr[t]) \in Nat  BY WrFinite DEF Active
<1>2. <<t, MAXOPBLOCKS>> \in Budget
  BY SMT, <1>1, LogAssumption DEF Budget
<1>3. Cardinality(Budget) # 0  BY <1>2, BudgetBound, FS_EmptySet
<1> QED  BY SMT, <1>3, BudgetBound

-----------------------------------------------------------------------------
(* The initial states.                                                     *)

LEMMA InitInv == Init => LogInv
<1> SUFFICES ASSUME Init PROVE LogInv  OBVIOUS
<1>1. TypeOK
  <2>1. <<>> \in Seq(Blocks)  BY SMT
  <2>2. pc \in [Tasks -> PC] /\ wr \in [Tasks -> SUBSET Blocks]
    BY DEF Init, PC
  <2>3. /\ committing \in BOOLEAN /\ panicked \in BOOLEAN
        /\ woken \in SUBSET Tasks /\ waiters \in SUBSET Tasks
    BY Zenon DEF Init
  <2> QED  BY SMT, <2>1, <2>2, <2>3 DEF Init, TypeOK
<1>2. Active = {} /\ Committers = {}  BY DEF Init, Active, Committers
<1>3. Budget = {}  BY <1>2 DEF Budget
<1>4. CountsAgree  BY <1>2, FS_EmptySet DEF CountsAgree, Init
<1>5. SpaceReserved
  BY SMT, <1>3, FS_EmptySet, LogAssumption DEF SpaceReserved, Init
<1>6. UnpinnedIsClean  BY DEF Init, UnpinnedIsClean
<1>7. CommitProgress  BY <1>2 DEF CommitProgress
<1>8. HeaderOwned  BY DEF Init, HeaderOwned
<1>9. RecoveryProgress  BY SMT, LogAssumption DEF Init, RecoveryProgress
<1> QED  BY <1>1, <1>4, <1>5, <1>6, <1>7, <1>8, <1>9 DEF LogInv

-----------------------------------------------------------------------------
(* Each action preserves LogInv.                                           *)

LEMMA BeginOpInv ==
  ASSUME LogInv, NEW t \in Tasks, BeginOp(t)
  PROVE  LogInv'
<1>0. boot = "up"  BY DEF BeginOp, Runs
<1>1. TypeOK'
  BY SMT DEF LogInv, TypeOK, BeginOp, PC, disk, locals
<1>2. CASE Admissible
  <2>1. /\ pc' = [pc EXCEPT ![t] = "op"]
        /\ outstanding' = outstanding + 1
        /\ ~committing /\ ~committing'
        /\ Len(lh) + (outstanding + 1) * MAXOPBLOCKS <= LOGSIZE
    BY <1>2 DEF BeginOp, Admissible
  <2>2. /\ Active' = Active \cup {t} /\ t \notin Active
        /\ Committers' = Committers
    BY <2>1 DEF Active, Committers, BeginOp, LogInv, TypeOK
  <2>3. Cardinality(Active') = outstanding'
    BY <2>1, <2>2, ActiveFinite, FS_AddElement DEF LogInv, CountsAgree, TypeOK
  <2>4. CountsAgree'
    BY <2>1, <2>2, <2>3 DEF CountsAgree, LogInv
  <2>5. Len(lh') + Cardinality(Budget') <= LOGSIZE
    BY SMT, <2>1, <2>3, BudgetBoundNext, LogAssumption
    DEF BeginOp, LogInv, TypeOK
  <2>6. SpaceReserved'
    BY <2>5, <2>1 DEF SpaceReserved, LogInv, TypeOK, BeginOp
  <2> QED
    BY SMT, <1>0, <1>1, <2>1, <2>2, <2>4, <2>6
    DEF LogInv, BeginOp, disk, locals, UnpinnedIsClean, CommitProgress,
        SlotsFilled, HeaderOwned, RecoveryProgress, Committers, TypeOK
<1>3. CASE ~Admissible
  <2>1. pc' = [pc EXCEPT ![t] = "reg"] /\ outstanding' = outstanding
    BY <1>3 DEF BeginOp
  <2>2. Active' = Active /\ Committers' = Committers
    BY <2>1 DEF Active, Committers, BeginOp, LogInv, TypeOK
  <2>3. Budget' = Budget  BY <2>2 DEF Budget, BeginOp
  <2> QED
    BY SMTT(30), <1>0, <1>1, <2>1, <2>2, <2>3
    DEF LogInv, BeginOp, disk, locals, UnpinnedIsClean, CommitProgress,
        SlotsFilled, HeaderOwned, RecoveryProgress, CountsAgree, SpaceReserved,
        Committers, TypeOK
<1> QED  BY <1>2, <1>3

\* The steps of WaitCommit move a task between states that are neither inside
\* a transaction nor inside a commit.
LEMMA WaitInv ==
  ASSUME LogInv, NEW t \in Tasks, WaitRegister(t) \/ WaitCheck(t) \/ Repoll(t)
  PROVE  LogInv'
<1>0. /\ boot = "up"
      /\ pc[t] \in {"reg", "check", "parked"}
      /\ \E s \in {"reg", "check", "begin", "parked"} : pc' = [pc EXCEPT ![t] = s]
      /\ UNCHANGED <<logState, wr, cache, disk, locals, boot, panicked>>
  BY DEF WaitRegister, WaitCheck, Repoll, Runs
<1>1. TypeOK'
  <2>1. woken' \in SUBSET Tasks /\ waiters' \in SUBSET Tasks
    BY DEF WaitRegister, WaitCheck, Repoll, LogInv, TypeOK
  <2> QED  BY <1>0, <2>1 DEF LogInv, TypeOK, PC, logState, disk, locals
<1>2. Active' = Active /\ Committers' = Committers
  BY <1>0 DEF Active, Committers, LogInv, TypeOK
<1>3. Budget' = Budget  BY <1>0, <1>2 DEF Budget
<1> QED
  BY SMTT(30), <1>0, <1>1, <1>2, <1>3
  DEF LogInv, logState, disk, locals, UnpinnedIsClean, CommitProgress,
      SlotsFilled, HeaderOwned, RecoveryProgress, CountsAgree, SpaceReserved,
      Committers, TypeOK

\* Appending to the header adds one block to its range.
LEMMA RangeAppend ==
  ASSUME NEW s \in Seq(Blocks), NEW b \in Blocks
  PROVE  /\ Append(s, b) \in Seq(Blocks)
         /\ Len(Append(s, b)) = Len(s) + 1
         /\ DOMAIN Append(s, b) = 1..(Len(s) + 1)
         /\ \A i \in 1..Len(s) : Append(s, b)[i] = s[i]
         /\ Append(s, b)[Len(s) + 1] = b
         /\ Range(Append(s, b)) = Range(s) \cup {b}
  BY SMT DEF Range

LEMMA LogWriteInv ==
  ASSUME LogInv, NEW t \in Tasks, NEW b \in Blocks, NEW v \in Vals,
         LogWrite(t, b, v), Asserts
  PROVE  LogInv'
<1>0. boot = "up" /\ pc' = pc /\ pc[t] = "op"  BY DEF LogWrite, Asserts, Runs
<1>a. /\ lh' = IF Recorded(b) THEN lh ELSE Append(lh, b)
      /\ cache' = [cache EXCEPT ![b] = v]
      /\ wr' = [wr EXCEPT ![t] = @ \cup {b}]
      /\ UNCHANGED <<pc, woken, waiters, outstanding, committing, disk, locals,
                     boot, panicked>>
  BY DEF LogWrite
<1>b. lh \in Seq(Blocks)  BY DEF LogInv, TypeOK
<1>1. TypeOK'
  <2>1. lh' \in Seq(Blocks)  BY SMT, <1>a, <1>b
  <2> QED  BY <1>a, <2>1 DEF LogInv, TypeOK, disk, locals
<1>2. Active' = Active /\ Committers' = Committers /\ t \in Active
  BY <1>0 DEF Active, Committers
<1>3. CountsAgree'
  BY <1>2 DEF LogInv, CountsAgree, LogWrite, Asserts
<1>4. Committers = {}  BY <1>2 DEF LogInv, CountsAgree
<1>5. Range(lh') = Range(lh) \cup {b}
  <2>1. CASE Recorded(b)  BY <1>a, <2>1 DEF Recorded
  <2>2. CASE ~Recorded(b)  BY <1>a, <1>b, <2>2, RangeAppend
  <2> QED  BY <2>1, <2>2
<1>6. \A i, j \in DOMAIN lh' : lh'[i] = lh'[j] => i = j
  <2>1. CASE b \in Range(lh)
    BY <2>1 DEF LogWrite, Asserts, LogInv, SpaceReserved
  <2>2. CASE b \notin Range(lh)
    <3>1. lh' = Append(lh, b)  BY <2>2 DEF LogWrite, Asserts
    <3>2. \A i \in 1..Len(lh) : lh[i] # b
      BY SMT, <2>2 DEF Range, LogInv, TypeOK
    <3> QED  BY SMT, <3>1, <3>2, RangeAppend DEF LogInv, TypeOK, SpaceReserved
  <2> QED  BY <2>1, <2>2
<1>7. /\ wr'[t] = wr[t] \cup {b}
      /\ \A u \in Tasks \ {t} : wr'[u] = wr[u]
      /\ Cardinality(wr'[t]) <= OpBlocks
  BY DEF LogWrite, Asserts, LogInv, TypeOK
<1>8. Cardinality(wr'[t]) \in Nat /\ Cardinality(wr[t]) <= Cardinality(wr'[t])
  <2>1. IsFiniteSet(wr[t]) /\ Cardinality(wr[t]) \in Nat
    BY WrFinite DEF LogInv
  <2>2. Cardinality(wr[t] \cup {b})
          = IF b \in wr[t] THEN Cardinality(wr[t]) ELSE Cardinality(wr[t]) + 1
    BY <2>1, FS_AddElement
  <2> QED  BY SMT, <1>7, <2>1, <2>2
<1>9. Budget' \subseteq Budget
  <2>1. \A u \in Tasks : /\ Cardinality(wr[u]) \in Nat
                          /\ Cardinality(wr[u]) <= Cardinality(wr'[u])
                          /\ Cardinality(wr'[u]) \in Nat
    BY SMT, <1>7, <1>8, WrFinite DEF LogInv
  <2> QED  BY SMT, <1>2, <2>1 DEF Budget, Active
<1>10. Len(lh') + Cardinality(Budget') <= LOGSIZE
  <2>1. Cardinality(Budget') <= Cardinality(Budget)
    BY <1>9, BudgetBound, FS_Subset
  <2>2. CASE b \in Range(lh)
    <3>1. lh' = lh  BY <2>2 DEF LogWrite, Asserts
    <3> QED  BY SMT, <2>1, <3>1, BudgetBound, BudgetBoundNext, LogAssumption
             DEF LogInv, TypeOK, SpaceReserved
  <2>3. CASE b \notin Range(lh)
    <3>1. Len(lh') = Len(lh) + 1
      BY SMT, <2>3, RangeAppend DEF LogWrite, Asserts, LogInv, TypeOK
    <3>2. b \notin wr[t]  BY <2>3 DEF LogInv, SpaceReserved
    <3>3. Cardinality(wr'[t]) = Cardinality(wr[t]) + 1
      <4>1. IsFiniteSet(wr[t])  BY WrFinite DEF LogInv
      <4>2. Cardinality(wr[t] \cup {b}) = Cardinality(wr[t]) + 1
        BY <3>2, <4>1, FS_AddElement
      <4> QED  BY <1>7, <4>2
    <3> DEFINE tok == <<t, Cardinality(wr'[t])>>
    <3>4. tok \in Budget /\ tok \notin Budget'
      <4>1. Cardinality(wr[t]) \in Nat  BY WrFinite DEF LogInv
      <4>2. tok \in Active \X (1..MAXOPBLOCKS)
        BY SMT, <1>2, <1>7, <1>8, <3>3, <4>1, LogAssumption
      <4>3. tok[1] = t /\ tok[2] = Cardinality(wr'[t])  OBVIOUS
      <4> QED  BY SMT, <4>1, <4>2, <4>3, <3>3, <1>8 DEF Budget
    <3>5. Budget' \subseteq Budget \ {tok}  BY <1>9, <3>4
    <3>6. Cardinality(Budget') <= Cardinality(Budget) - 1
      <4>1. /\ IsFiniteSet(Budget \ {tok})
            /\ Cardinality(Budget \ {tok}) = Cardinality(Budget) - 1
        BY <3>4, BudgetBound, FS_RemoveElement
      <4>2. Cardinality(Budget') <= Cardinality(Budget \ {tok})
        BY <3>5, <4>1, FS_Subset
      <4> QED  BY <4>1, <4>2
    <3> QED  BY SMT, <3>1, <3>6, BudgetBound, BudgetBoundNext, LogAssumption
             DEF LogInv, TypeOK, SpaceReserved
  <2> QED  BY <2>2, <2>3
<1>11. SpaceReserved'
  BY <1>0, <1>5, <1>6, <1>7, <1>10 DEF SpaceReserved, LogInv
<1>12. UnpinnedIsClean'
  BY <1>0, <1>5 DEF UnpinnedIsClean, LogInv, LogWrite, Asserts, TypeOK, disk
<1>13. CommitProgress'  BY <1>2, <1>4 DEF CommitProgress
<1> QED
  BY <1>0, <1>1, <1>3, <1>11, <1>12, <1>13
  DEF LogInv, HeaderOwned, RecoveryProgress, LogWrite, Asserts, disk

\* LogInv does not mention `panicked' except for its type.
LEMMA FrameInv ==
  ASSUME LogInv, panicked' \in BOOLEAN,
         UNCHANGED <<pc, woken, waiters, logState, wr, cache, disk, locals, boot>>
  PROVE  LogInv'
<1>1. TypeOK'  BY DEF LogInv, TypeOK, logState, disk, locals
<1>2. Active' = Active /\ Committers' = Committers  BY DEF Active, Committers
<1>3. Budget' = Budget  BY <1>2 DEF Budget
<1>4. CountsAgree'  BY <1>2 DEF LogInv, CountsAgree, logState
<1>5. SpaceReserved'  BY <1>3 DEF LogInv, SpaceReserved, logState
<1>6. UnpinnedIsClean'  BY DEF LogInv, UnpinnedIsClean, logState, disk
<1>7. CommitProgress'
  BY <1>2 DEF LogInv, CommitProgress, SlotsFilled, logState, disk, locals
<1>8. HeaderOwned'  BY DEF LogInv, HeaderOwned, disk
<1>9. RecoveryProgress'  BY DEF LogInv, RecoveryProgress, disk, locals
<1> QED  BY <1>1, <1>4, <1>5, <1>6, <1>7, <1>8, <1>9 DEF LogInv

LEMMA LogWritePanicInv ==
  ASSUME LogInv, NEW t \in Tasks, NEW b \in Blocks, NEW v \in Vals,
         LogWrite(t, b, v), ~Asserts
  PROVE  LogInv'
<1>1. panicked' \in BOOLEAN  BY DEF LogWrite
<1> QED  BY <1>1, FrameInv DEF LogWrite, logState

LEMMA EndOpInv ==
  ASSUME LogInv, NEW t \in Tasks, EndOp(t)
  PROVE  LogInv'
<1>0. boot = "up" /\ pc[t] = "op" /\ t \in Active  BY DEF EndOp, Runs, Active
<1>1. outstanding = Cardinality(Active) /\ outstanding >= 1
  BY SMT, <1>0, ActiveFinite, FS_EmptySet DEF LogInv, CountsAgree, TypeOK
<1>2. ~committing /\ Committers = {}  BY <1>0 DEF LogInv, CountsAgree
<1>3. TypeOK'
  <2>1. outstanding' \in Nat /\ wr' \in [Tasks -> SUBSET Blocks]
    BY SMT, <1>1 DEF LogInv, TypeOK, EndOp
  <2>2. pc' \in [Tasks -> PC]  BY DEF LogInv, TypeOK, EndOp, PC
  <2>3. woken' \in SUBSET Tasks /\ waiters' \in SUBSET Tasks
    BY DEF LogInv, TypeOK, EndOp, WakeAll
  <2>4. committing' \in BOOLEAN /\ panicked' \in BOOLEAN
    BY DEF LogInv, TypeOK, EndOp
  <2> QED
    BY <2>1, <2>2, <2>3, <2>4 DEF LogInv, TypeOK, EndOp, disk, locals
<1>4. Active' = Active \ {t}
  BY DEF EndOp, Active, LogInv, TypeOK
<1>5. Cardinality(Active') = outstanding'
  BY <1>0, <1>1, <1>4, ActiveFinite, FS_RemoveElement DEF EndOp
<1>6. Committers' = IF outstanding = 1 THEN {t} ELSE {}
  BY <1>0, <1>2 DEF EndOp, Committers, LogInv, TypeOK
<1>7. /\ wr'[t] = {} /\ Cardinality(wr'[t]) = 0
      /\ \A u \in Tasks \ {t} : wr'[u] = wr[u]
  BY FS_EmptySet DEF EndOp, LogInv, TypeOK
<1>8. CountsAgree'
  <2>1. CASE outstanding = 1
    <3>1. Active' = {}
      BY SMT, <2>1, <1>4, <1>5, BudgetBoundNext, FS_EmptySet DEF EndOp
    <3> QED  BY <2>1, <3>1, <1>5, <1>6 DEF CountsAgree, EndOp
  <2>2. CASE outstanding # 1
    <3>1. Active' # {}
      <4>1. outstanding' # 0  BY SMT, <2>2, <1>1 DEF EndOp, LogInv, TypeOK
      <4> QED  BY <4>1, <1>5, FS_EmptySet
    <3> QED  BY <2>2, <3>1, <1>2, <1>5, <1>6 DEF CountsAgree, EndOp
  <2> QED  BY <2>1, <2>2
<1>9. SpaceReserved'
  <2>1. Budget' \subseteq Budget  BY <1>4, <1>7 DEF Budget, Active
  <2>2. Cardinality(Budget') <= Cardinality(Budget)
    BY <2>1, BudgetBound, FS_Subset
  <2>3. Len(lh') + Cardinality(Budget') <= LOGSIZE
    BY SMT, <2>2, BudgetBound, BudgetBoundNext, LogAssumption
    DEF EndOp, LogInv, SpaceReserved, TypeOK
  <2> QED
    BY SMT, <2>3, <1>7, LogAssumption DEF SpaceReserved, EndOp, LogInv, TypeOK
<1>10. CommitProgress'
  BY <1>6 DEF CommitProgress, EndOp, LogInv, TypeOK, Committers
<1>11. HeaderOwned'
  BY <1>0, <1>2 DEF HeaderOwned, Committers, EndOp, LogInv, disk
<1> QED
  BY <1>0, <1>3, <1>8, <1>9, <1>10, <1>11
  DEF LogInv, EndOp, UnpinnedIsClean, RecoveryProgress, disk

\* What every commit step leaves alone: who is committing, who is inside a
\* transaction, and hence the counts and the reservations.
LEMMA CommitFrame ==
  ASSUME LogInv, NEW t \in Committers, t \in Committers',
         \A u \in Tasks \ {t} : pc'[u] = pc[u],
         UNCHANGED <<outstanding, committing, wr>>,
         lh' = lh
  PROVE  /\ committing /\ Active = {} /\ Active' = {}
         /\ Committers = {t} /\ Committers' = {t}
         /\ CountsAgree' /\ SpaceReserved'
<1>1. committing /\ Active = {} /\ Committers = {t}
  BY DEF LogInv, CountsAgree
<1>2. Committers' = {t}
  BY <1>1 DEF Committers
<1>3. Active' = {}  BY <1>1 DEF Active, Committers
<1>4. Budget' = {} /\ Budget = {}  BY <1>1, <1>3 DEF Budget
<1>5. \A u \in Tasks : wr[u] = {}
  BY <1>1 DEF LogInv, SpaceReserved, Active
<1>6. SpaceReserved'
  BY <1>4, <1>5 DEF LogInv, SpaceReserved
<1> QED  BY <1>1, <1>2, <1>3, <1>6 DEF LogInv, CountsAgree

LEMMA CommitInv ==
  ASSUME LogInv, NEW t \in Tasks, Commit(t)
  PROVE  LogInv'
<1>0. boot = "up" /\ boot' = boot
  BY DEF Commit, CommitStart, CommitCopy, CommitHeader, CommitInstall,
         CommitClear, CommitReset, CommitRelease, CommitWake, Runs
<1>a. /\ lh \in Seq(Blocks) /\ DOMAIN lh = 1..Len(lh)
      /\ Len(lh) \in Nat /\ Len(lh) <= LOGSIZE
  BY SMT, BudgetBound, LogAssumption DEF LogInv, TypeOK, SpaceReserved
<1>b. RecoveryProgress'  BY <1>0 DEF RecoveryProgress
<1>1. CASE CommitStart(t)
  <2>1. t \in Committers /\ t \in Committers'
    BY <1>1 DEF CommitStart, Committers, LogInv, TypeOK
  <2>2. TypeOK'
    BY SMT, <1>1 DEF CommitStart, LogInv, TypeOK, PC, logState, disk
  <2>3. /\ Committers' = {t} /\ Committers = {t}
        /\ CountsAgree' /\ SpaceReserved'
    BY <1>1, <2>1, CommitFrame DEF CommitStart, logState, LogInv, TypeOK
  <2>5. UnpinnedIsClean'
    BY <1>1 DEF UnpinnedIsClean, CommitStart, LogInv, logState, disk
  <2>6. lh = <<>> => home = cache
    BY SMT, <1>0 DEF LogInv, UnpinnedIsClean, Range, TypeOK
  <2>7. CommitProgress'
    BY SMT, <1>1, <1>a, <2>3, <2>6
    DEF CommitProgress, CommitStart, LogInv, TypeOK, logState, disk
  <2>8. HeaderOwned'
    BY <1>1, <2>3 DEF HeaderOwned, Committers, CommitStart, LogInv, TypeOK, disk
  <2> QED  BY <1>b, <2>2, <2>3, <2>5, <2>7, <2>8 DEF LogInv
<1>2. CASE CommitCopy(t)
  <2>1. t \in Committers /\ t \in Committers'
    BY <1>2 DEF CommitCopy, Committers, LogInv, TypeOK
  <2>2. txn = lh /\ ci \in DOMAIN lh /\ lh # <<>>
        /\ \A i \in 1..(ci - 1) : slot[i] = cache[lh[i]]
    BY <1>2, <2>1 DEF CommitCopy, LogInv, CommitProgress
  <2>3. /\ slot' = [slot EXCEPT ![ci] = cache[lh[ci]]]
        /\ lh[ci] \in Blocks /\ cache[lh[ci]] \in Vals
        /\ ci \in 1..LOGSIZE /\ slot \in [1..LOGSIZE -> Vals]
    BY SMT, <1>2, <2>2, <1>a, LogAssumption DEF CommitCopy, LogInv, TypeOK
  <2>4. TypeOK'
    <3>1. slot' \in [1..LOGSIZE -> Vals]  BY <2>3
    <3>2. ci' \in Nat \ {0} /\ pc' \in [Tasks -> PC]
      BY SMT, <1>2 DEF CommitCopy, LogInv, TypeOK, PC
    <3> QED
      BY <1>2, <3>1, <3>2 DEF CommitCopy, LogInv, TypeOK, logState
  <2>5. /\ Committers' = {t} /\ Committers = {t}
        /\ CountsAgree' /\ SpaceReserved'
    BY <1>2, <2>1, CommitFrame DEF CommitCopy, logState, LogInv, TypeOK
  <2>7. UnpinnedIsClean'
    BY <1>2 DEF UnpinnedIsClean, CommitCopy, LogInv, logState
  <2>8. \A i \in 1..ci : slot'[i] = cache[lh[i]]
    BY SMT, <2>2, <2>3, <1>a DEF LogInv, TypeOK
  <2>9. CommitProgress'
    <3>1. lh' = lh /\ txn' = lh /\ cache' = cache /\ pc[t] = "copy"
      BY <1>2, <2>2 DEF CommitCopy, logState
    <3>2. CASE ci < Len(lh)
      <4>1. ci' = ci + 1 /\ pc' = pc  BY <1>2, <2>2, <3>2 DEF CommitCopy, MoreBlocks
      <4>2. ci' \in DOMAIN lh /\ ci' - 1 = ci
        BY SMT, <4>1, <3>2, <2>2, <1>a
      <4> QED
        BY <2>2, <2>5, <2>8, <3>1, <4>1, <4>2 DEF CommitProgress
    <3>3. CASE ~(ci < Len(lh))
      <4>1. ci' = 1 /\ pc' = [pc EXCEPT ![t] = "header"]
        BY <1>2, <2>2, <3>3 DEF CommitCopy, MoreBlocks
      <4>2. pc'[t] = "header"  BY <4>1 DEF LogInv, TypeOK
      <4>3. ci = Len(lh) /\ 1 \in DOMAIN lh  BY SMT, <2>2, <3>3, <1>a
      <4>4. SlotsFilled(lh)'
        BY <1>a, <2>8, <3>1, <4>3 DEF SlotsFilled
      <4> QED
        BY <2>2, <2>5, <3>1, <4>1, <4>2, <4>3, <4>4 DEF CommitProgress
    <3> QED  BY <3>2, <3>3
  <2>10. HeaderOwned'
    BY <1>2, <2>5 DEF HeaderOwned, Committers, CommitCopy, LogInv, TypeOK
  <2> QED  BY <1>b, <2>4, <2>5, <2>7, <2>9, <2>10 DEF LogInv
<1>3. CASE CommitHeader(t)
  <2>1. t \in Committers /\ t \in Committers'
    BY <1>3 DEF CommitHeader, Committers, LogInv, TypeOK
  <2>2. txn = lh /\ ci = 1 /\ lh # <<>> /\ SlotsFilled(lh)
    BY <1>3, <2>1 DEF CommitHeader, LogInv, CommitProgress
  <2>3. TypeOK'
    BY <1>3 DEF CommitHeader, LogInv, TypeOK, PC, logState, locals
  <2>4. /\ Committers' = {t} /\ Committers = {t}
        /\ CountsAgree' /\ SpaceReserved'
    BY <1>3, <2>1, CommitFrame DEF CommitHeader, logState, LogInv, TypeOK
  <2>5. UnpinnedIsClean'
    BY <1>3 DEF UnpinnedIsClean, CommitHeader, LogInv, logState
  <2>6. CommitProgress'
    BY SMT, <1>3, <1>a, <2>2, <2>4
    DEF CommitProgress, SlotsFilled, CommitHeader, LogInv, TypeOK, logState,
        locals
  <2>7. HeaderOwned'
    BY <1>3 DEF HeaderOwned, CommitHeader, LogInv, TypeOK
  <2> QED  BY <1>b, <2>3, <2>4, <2>5, <2>6, <2>7 DEF LogInv
<1>4. CASE CommitInstall(t)
  <2>1. t \in Committers /\ t \in Committers'
    BY <1>4 DEF CommitInstall, Committers, LogInv, TypeOK
  <2>2. /\ txn = lh /\ ci \in DOMAIN lh /\ lh # <<>> /\ hdr = lh
        /\ SlotsFilled(lh)
        /\ \A i \in 1..(ci - 1) : home[lh[i]] = cache[lh[i]]
    BY <1>4, <2>1 DEF CommitInstall, LogInv, CommitProgress
  <2>3. /\ home' = [home EXCEPT ![lh[ci]] = cache[lh[ci]]]
        /\ lh[ci] \in Blocks /\ cache[lh[ci]] \in Vals
        /\ home \in [Blocks -> Vals] /\ cache \in [Blocks -> Vals]
    BY SMT, <1>4, <2>2, <1>a DEF CommitInstall, LogInv, TypeOK
  <2>4. TypeOK'
    <3>1. home' \in [Blocks -> Vals]  BY <2>3
    <3>2. ci' \in Nat \ {0} /\ pc' \in [Tasks -> PC]
      BY SMT, <1>4 DEF CommitInstall, LogInv, TypeOK, PC
    <3> QED
      BY <1>4, <3>1, <3>2 DEF CommitInstall, LogInv, TypeOK, logState
  <2>5. /\ Committers' = {t} /\ Committers = {t}
        /\ CountsAgree' /\ SpaceReserved'
    BY <1>4, <2>1, CommitFrame DEF CommitInstall, logState, LogInv, TypeOK
  <2>6. UnpinnedIsClean'
    BY SMT, <1>0, <1>4, <2>3 DEF UnpinnedIsClean, CommitInstall, LogInv, logState
  <2>7. \A i \in 1..ci : home'[lh[i]] = cache[lh[i]]
    BY SMT, <1>a, <2>2, <2>3
  <2>8. ci = Len(lh) => home' = cache
    <3> SUFFICES ASSUME ci = Len(lh), NEW b \in Blocks
                 PROVE  home'[b] = cache[b]
      BY <2>3
    <3>1. CASE b \in Range(lh)
      BY <3>1, <1>a, <2>7 DEF Range
    <3>2. CASE b \notin Range(lh)
      BY <1>0, <1>4, <3>2, <2>6 DEF UnpinnedIsClean, CommitInstall, logState
    <3> QED  BY <3>1, <3>2
  <2>9. CommitProgress'
    <3>1. /\ lh' = lh /\ txn' = lh /\ hdr' = lh /\ slot' = slot
          /\ cache' = cache
      BY <1>4, <2>2 DEF CommitInstall, logState
    <3>2. CASE ci < Len(lh)
      <4>1. ci' = ci + 1 /\ pc' = pc  BY <1>4, <2>2, <3>2 DEF CommitInstall
      <4>2. ci' \in DOMAIN lh /\ ci' - 1 = ci
        BY SMT, <4>1, <3>2, <2>2, <1>a
      <4> QED
        BY <1>4, <2>2, <2>5, <2>7, <3>1, <4>1, <4>2
        DEF CommitProgress, SlotsFilled, CommitInstall
    <3>3. CASE ~(ci < Len(lh))
      <4>1. ci' = 1 /\ pc' = [pc EXCEPT ![t] = "clear"]
        BY <1>4, <2>2, <3>3 DEF CommitInstall
      <4>2. pc'[t] = "clear"  BY <4>1 DEF LogInv, TypeOK
      <4>3. home' = cache /\ 1 \in DOMAIN lh  BY SMT, <2>2, <2>8, <3>3, <1>a
      <4> QED
        BY <2>2, <2>5, <3>1, <4>1, <4>2, <4>3 DEF CommitProgress, SlotsFilled
    <3> QED  BY <3>2, <3>3
  <2>10. HeaderOwned'
    BY <1>4 DEF HeaderOwned, CommitInstall, LogInv, TypeOK
  <2> QED  BY <1>b, <2>4, <2>5, <2>6, <2>9, <2>10 DEF LogInv
<1>5. CASE CommitClear(t)
  <2>1. t \in Committers /\ t \in Committers'
    BY <1>5 DEF CommitClear, Committers, LogInv, TypeOK
  <2>2. home = cache
    BY <1>5, <2>1 DEF CommitClear, LogInv, CommitProgress
  <2>3. TypeOK'
    BY SMT, <1>5 DEF CommitClear, LogInv, TypeOK, PC, logState, locals
  <2>4. /\ Committers' = {t} /\ Committers = {t}
        /\ CountsAgree' /\ SpaceReserved'
    BY <1>5, <2>1, CommitFrame DEF CommitClear, logState, LogInv, TypeOK
  <2>5. UnpinnedIsClean'
    BY <1>5 DEF UnpinnedIsClean, CommitClear, LogInv, logState
  <2>6. CommitProgress'
    BY <1>5, <2>2, <2>4
    DEF CommitProgress, CommitClear, LogInv, TypeOK, logState, locals
  <2>7. HeaderOwned'
    BY <1>5 DEF HeaderOwned, CommitClear
  <2> QED  BY <1>b, <2>3, <2>4, <2>5, <2>6, <2>7 DEF LogInv
<1>6. CASE CommitReset(t)
  <2>1. t \in Committers /\ t \in Committers'
    BY <1>6 DEF CommitReset, Committers, LogInv, TypeOK
  <2>2. home = cache
    BY <1>6, <2>1 DEF CommitReset, LogInv, CommitProgress
  <2>3. TypeOK'
    <3>1. lh' \in Seq(Blocks)  BY SMT, <1>6 DEF CommitReset
    <3> QED
      BY <1>6, <3>1 DEF CommitReset, LogInv, TypeOK, PC, disk, locals
  <2>4. /\ committing /\ Committers = {t} /\ Active = {}
        /\ Committers' = {t} /\ Active' = {} /\ Budget' = {}
    BY SMT, <1>6, <2>1
    DEF LogInv, CountsAgree, Committers, CommitReset, Active, Budget, TypeOK
  <2>5. CountsAgree'
    BY <1>6, <2>4 DEF LogInv, CountsAgree, CommitReset
  <2>6. SpaceReserved'
    <3>1. \A u \in Tasks : wr[u] = {}
      BY <2>4 DEF LogInv, SpaceReserved, Active
    <3>2. Len(lh') = 0 /\ DOMAIN lh' = {} /\ Cardinality(Budget') = 0
      BY SMT, <1>6, <2>4, FS_EmptySet DEF CommitReset
    <3>3. \A u \in Tasks : wr'[u] = {} /\ Cardinality(wr'[u]) = 0
      BY <1>6, <3>1, FS_EmptySet DEF CommitReset
    <3>4. Len(lh') + Cardinality(Budget') <= LOGSIZE
      BY SMT, <3>2, LogAssumption
    <3>5. \A u \in Tasks : Cardinality(wr'[u]) <= OpBlocks
      BY SMT, <3>3, LogAssumption
    <3> QED  BY <3>2, <3>3, <3>4, <3>5 DEF SpaceReserved
  <2>7. UnpinnedIsClean'
    BY <1>6, <2>2 DEF UnpinnedIsClean, CommitReset, disk
  <2>8. CommitProgress'
    BY <1>6, <2>2, <2>4
    DEF CommitProgress, CommitReset, LogInv, TypeOK, disk
  <2>9. HeaderOwned'
    BY <1>6, <1>0, <2>4
    DEF HeaderOwned, CommitReset, LogInv, TypeOK, disk, Committers
  <2> QED  BY <1>b, <2>3, <2>5, <2>6, <2>7, <2>8, <2>9 DEF LogInv
<1>7. CASE CommitRelease(t) \/ CommitWake(t)
  <2>1. /\ pc[t] \in {"release", "wake"}
        /\ \E s \in {"wake", "idle"} : pc' = [pc EXCEPT ![t] = s]
        /\ UNCHANGED <<outstanding, lh, wr, cache, disk, locals, panicked>>
    BY <1>7 DEF CommitRelease, CommitWake, logState
  <2>2. TypeOK'
    <3>1. woken' \in SUBSET Tasks /\ waiters' \in SUBSET Tasks
      BY <1>7 DEF CommitRelease, CommitWake, WakeAll, LogInv, TypeOK
    <3>2. committing' \in BOOLEAN
      BY <1>7 DEF CommitRelease, CommitWake, logState, LogInv, TypeOK
    <3> QED
      BY <1>0, <2>1, <3>1, <3>2 DEF LogInv, TypeOK, PC, disk, locals
  <2>3. Active' = Active /\ Committers' = Committers \ {t}
    BY <2>1 DEF Active, Committers, LogInv, TypeOK
  <2>4. Budget' = Budget  BY <2>1, <2>3 DEF Budget
  <2>5. CountsAgree'
    <3>1. CASE pc[t] = "release"
      <4>1. t \in Committers  BY <3>1 DEF Committers
      <4>2. Committers = {t} /\ lh = <<>>
        BY <4>1, <3>1 DEF LogInv, CountsAgree, CommitProgress
      <4>3. committing' = FALSE
        BY <1>7, <3>1 DEF CommitRelease, CommitWake
      <4> QED
        BY <2>1, <2>3, <4>2, <4>3 DEF LogInv, CountsAgree
    <3>2. CASE pc[t] = "wake"
      <4>1. t \notin Committers  BY <3>2 DEF Committers
      <4>2. committing' = committing
        BY <1>7, <3>2 DEF CommitRelease, CommitWake, logState
      <4> QED
        BY <2>1, <2>3, <4>1, <4>2 DEF LogInv, CountsAgree
    <3> QED  BY <2>1, <3>1, <3>2
  <2>6. SpaceReserved'
    BY <2>1, <2>4 DEF LogInv, SpaceReserved, TypeOK
  <2>7. CommitProgress'
    BY SMT, <2>1, <2>3
    DEF LogInv, CommitProgress, SlotsFilled, Committers, TypeOK, disk, locals
  <2>8. UnpinnedIsClean' /\ HeaderOwned'
    BY <1>0, <2>1 DEF LogInv, UnpinnedIsClean, HeaderOwned, TypeOK, disk
  <2> QED  BY <1>b, <2>2, <2>5, <2>6, <2>7, <2>8 DEF LogInv
<1> QED
  BY <1>1, <1>2, <1>3, <1>4, <1>5, <1>6, <1>7 DEF Commit

LEMMA CrashInv == LogInv /\ Crash => LogInv'
<1> SUFFICES ASSUME LogInv, Crash PROVE LogInv'  OBVIOUS
<1>1. TypeOK'
  <2>1. <<>> \in Seq(Blocks)  BY SMT
  <2>2. pc' \in [Tasks -> PC] /\ wr' \in [Tasks -> SUBSET Blocks]
    BY DEF Crash, PC
  <2>3. /\ committing' \in BOOLEAN /\ panicked' \in BOOLEAN
        /\ woken' \in SUBSET Tasks /\ waiters' \in SUBSET Tasks
    BY Zenon DEF Crash
  <2> QED  BY SMT, <2>1, <2>2, <2>3 DEF Crash, LogInv, TypeOK, disk
<1>2. Active' = {} /\ Committers' = {}  BY DEF Crash, Active, Committers
<1>3. Budget' = {}  BY <1>2 DEF Budget
<1>4. CountsAgree'  BY <1>2, FS_EmptySet DEF CountsAgree, Crash
<1>5. SpaceReserved'
  <2>1. Len(lh') = 0 /\ DOMAIN lh' = {} /\ Cardinality(Budget') = 0
    BY SMT, <1>3, FS_EmptySet DEF Crash
  <2>2. \A u \in Tasks : wr'[u] = {} /\ Cardinality(wr'[u]) = 0
    BY FS_EmptySet DEF Crash
  <2> QED  BY SMT, <2>1, <2>2, LogAssumption DEF SpaceReserved
<1>6. UnpinnedIsClean' /\ HeaderOwned'  BY DEF Crash, UnpinnedIsClean, HeaderOwned
<1>7. CommitProgress'  BY <1>2 DEF CommitProgress
<1>8. Len(hdr) <= LOGSIZE /\ \A i, j \in DOMAIN hdr : hdr[i] = hdr[j] => i = j
  <2>1. CASE boot # "up"  BY <2>1 DEF LogInv, RecoveryProgress
  <2>2. CASE hdr = <<>>  BY SMT, <2>2, LogAssumption
  <2>3. CASE boot = "up" /\ hdr # <<>>
    <3>1. PICK t \in Tasks : pc[t] \in {"install", "clear"}
      BY <2>3 DEF LogInv, HeaderOwned
    <3>2. hdr = lh
      BY <3>1 DEF LogInv, CommitProgress, Committers
    <3> QED
      BY SMT, <3>2, BudgetBound, LogAssumption DEF LogInv, SpaceReserved, TypeOK
  <2> QED  BY <2>1, <2>2, <2>3
<1>9. RecoveryProgress'
  BY <1>8 DEF RecoveryProgress, Crash, disk
<1> QED  BY <1>1, <1>4, <1>5, <1>6, <1>7, <1>9 DEF LogInv

LEMMA RecoverInv == LogInv /\ Recover => LogInv'
<1> SUFFICES ASSUME LogInv, Recover PROVE LogInv'  OBVIOUS
<1>1. /\ boot # "up"
      /\ UNCHANGED <<pc, woken, waiters, logState, wr, slot, panicked>>
  BY DEF Recover, RecoverRead, RecoverInstall, RecoverClear, disk
<1>2. /\ Active' = Active /\ Committers' = Committers /\ Committers = {}
      /\ Budget' = Budget /\ Active = {}
  BY <1>1 DEF Active, Committers, Budget, LogInv, RecoveryProgress
<1>3. CountsAgree' /\ SpaceReserved' /\ CommitProgress'
  BY <1>1, <1>2
  DEF LogInv, CountsAgree, SpaceReserved, CommitProgress, logState
<1>4. /\ hdr \in Seq(Blocks) /\ DOMAIN hdr = 1..Len(hdr) /\ Len(hdr) \in Nat
      /\ Len(hdr) <= LOGSIZE /\ cache = home
  BY SMT, <1>1 DEF LogInv, TypeOK, RecoveryProgress
<1>5. CASE RecoverRead
  <2>1. TypeOK'
    BY SMT, <1>1, <1>5 DEF RecoverRead, LogInv, TypeOK, logState, disk
  <2>2. UnpinnedIsClean' /\ HeaderOwned'
    BY <1>4, <1>5 DEF RecoverRead, UnpinnedIsClean, HeaderOwned, disk
  <2>3. RecoveryProgress'
    <3>1. /\ hdr' = hdr /\ home' = home /\ slot' = slot /\ cache' = cache
          /\ pc' = pc /\ txn' = hdr /\ ci' = 1
      BY <1>1, <1>5 DEF RecoverRead, disk
    <3>2. boot' = IF hdr = <<>> THEN "up" ELSE "replay"
      BY <1>5 DEF RecoverRead
    <3>3. hdr # <<>> => 1 \in DOMAIN hdr  BY SMT, <1>4
    <3> QED  BY SMT, <1>1, <3>1, <3>2, <3>3 DEF LogInv, RecoveryProgress
  <2> QED  BY <1>3, <2>1, <2>2, <2>3 DEF LogInv
<1>6. CASE RecoverInstall
  <2>1. /\ txn = hdr /\ ci \in DOMAIN hdr
        /\ \A i \in 1..(ci - 1) : home[hdr[i]] = slot[i]
    BY <1>1, <1>6 DEF RecoverInstall, LogInv, RecoveryProgress
  <2>2. hdr[ci] \in Blocks /\ ci \in 1..LOGSIZE /\ slot[ci] \in Vals
    BY SMT, <1>4, <2>1, LogAssumption DEF LogInv, TypeOK
  <2>3. /\ home' = [home EXCEPT ![hdr[ci]] = slot[ci]]
        /\ cache' = home' /\ home \in [Blocks -> Vals]
        /\ home' \in [Blocks -> Vals]
    BY <1>4, <1>6, <2>1, <2>2 DEF RecoverInstall, LogInv, TypeOK
  <2>4. TypeOK'
    <3>1. ci' \in Nat \ {0} /\ boot' \in {"recover", "replay", "clear", "up"}
      BY SMT, <1>6 DEF RecoverInstall, LogInv, TypeOK
    <3> QED
      BY <1>1, <1>6, <2>3, <3>1 DEF RecoverInstall, LogInv, TypeOK, logState
  <2>5. boot' # "up"  BY <1>6 DEF RecoverInstall
  <2>6. UnpinnedIsClean' /\ HeaderOwned'
    BY <2>5 DEF UnpinnedIsClean, HeaderOwned
  <2>7. \A i \in 1..ci : home'[hdr[i]] = slot[i]
    <3> SUFFICES ASSUME NEW i \in 1..ci PROVE home'[hdr[i]] = slot[i]
      OBVIOUS
    <3>1. CASE i = ci  BY <3>1, <2>2, <2>3
    <3>2. CASE i # ci
      <4>1. i \in DOMAIN hdr /\ hdr[i] # hdr[ci] /\ hdr[i] \in Blocks
        BY SMT, <1>1, <1>4, <2>1, <3>2 DEF LogInv, RecoveryProgress
      <4> QED  BY SMT, <4>1, <3>2, <2>1, <2>3, <1>4
    <3> QED  BY <3>1, <3>2
  <2>8. RecoveryProgress'
    <3>1. hdr' = hdr /\ txn' = hdr /\ slot' = slot
      BY <1>6, <2>1 DEF RecoverInstall
    <3>2. CASE ci < Len(hdr)
      <4>1. ci' = ci + 1 /\ boot' = "replay" /\ ci' \in DOMAIN hdr
            /\ ci' - 1 = ci
        BY SMT, <1>4, <1>6, <2>1, <3>2 DEF RecoverInstall
      <4> QED
        BY <1>1, <2>3, <2>7, <3>1, <4>1 DEF LogInv, RecoveryProgress
    <3>3. CASE ~(ci < Len(hdr))
      <4>1. ci = Len(hdr) /\ boot' = "clear"
        BY SMT, <1>4, <1>6, <2>1, <3>3 DEF RecoverInstall
      <4> QED
        BY <1>1, <1>4, <2>3, <2>7, <3>1, <4>1 DEF LogInv, RecoveryProgress
    <3> QED  BY <3>2, <3>3
  <2> QED  BY <1>3, <2>4, <2>6, <2>8 DEF LogInv
<1>7. CASE RecoverClear
  <2>1. TypeOK'
    BY SMT, <1>1, <1>7 DEF RecoverClear, LogInv, TypeOK, logState, locals
  <2>2. UnpinnedIsClean' /\ HeaderOwned' /\ RecoveryProgress'
    BY <1>4, <1>7
    DEF RecoverClear, UnpinnedIsClean, HeaderOwned, RecoveryProgress
  <2> QED  BY <1>3, <2>1, <2>2 DEF LogInv
<1> QED  BY <1>5, <1>6, <1>7 DEF Recover

LEMMA StutterInv == LogInv /\ UNCHANGED vars => LogInv'
<1>1. LogInv /\ UNCHANGED vars => panicked' \in BOOLEAN
  BY DEF vars, LogInv, TypeOK
<1> QED  BY <1>1, FrameInv DEF vars

LEMMA NextInv == LogInv /\ [Next]_vars => LogInv'
  BY BeginOpInv, WaitInv, LogWriteInv, LogWritePanicInv, EndOpInv, CommitInv,
     CrashInv, RecoverInv, StutterInv DEF Next

-----------------------------------------------------------------------------
(* Safety.                                                                 *)

\* LogInv, the type invariant included, holds in every reachable state.
THEOREM LogInvariant == Spec => []LogInv
  BY InitInv, NextInv, PTL DEF Spec

\* begin_op's reservation is exact: an operation below MAXOPBLOCKS always
\* finds a free header entry in log_write.
THEOREM RoomTheorem == Spec => []RoomForPromised
<1>1. LogInv => RoomForPromised
  <2> SUFFICES ASSUME LogInv, NEW t \in Active,
                      Cardinality(wr[t]) < MAXOPBLOCKS
               PROVE  Len(lh) < LOGSIZE
    BY DEF RoomForPromised
  <2>1. Cardinality(Budget) >= 1  BY TokenLeft DEF LogInv
  <2> QED
    BY SMT, <2>1, BudgetBound, LogAssumption DEF LogInv, TypeOK, SpaceReserved
<1> QED  BY <1>1, LogInvariant, PTL

\* When every operation leaves one block of its reservation unused, no assert
\* of log_write or end_op ever fires.
THEOREM NoPanicTheorem == OpBlocks < MAXOPBLOCKS => (Spec => []NoPanic)
<1> SUFFICES ASSUME OpBlocks < MAXOPBLOCKS PROVE Spec => []NoPanic  OBVIOUS
<1>1. Init => NoPanic  BY DEF Init, NoPanic
<1>2. LogInv /\ NoPanic /\ [Next]_vars => NoPanic'
  <2> SUFFICES ASSUME LogInv, NoPanic, [Next]_vars PROVE NoPanic'  OBVIOUS
  <2>1. ASSUME NEW t \in Tasks, NEW b \in Blocks, NEW v \in Vals,
               LogWrite(t, b, v)
        PROVE  NoPanic'
    <3>1. t \in Active  BY <2>1 DEF LogWrite, Active
    <3>2. outstanding > 0
      BY SMT, <3>1, ActiveFinite, FS_EmptySet, FS_CardinalityType
      DEF LogInv, CountsAgree, TypeOK
    <3>3. Cardinality(wr[t]) < MAXOPBLOCKS
      <4>1. Cardinality(wr[t]) <= OpBlocks  BY DEF LogInv, SpaceReserved
      <4>2. Cardinality(wr[t]) \in Nat  BY WrFinite DEF LogInv
      <4> QED  BY SMT, <4>1, <4>2, LogAssumption
    <3>4. Cardinality(Budget) >= 1  BY <3>1, <3>3, TokenLeft DEF LogInv
    <3>5. Len(lh) < LOGSIZE
      BY SMT, <3>4, BudgetBound, LogAssumption DEF LogInv, TypeOK, SpaceReserved
    <3> QED  BY <2>1, <3>2, <3>5 DEF LogWrite, Asserts, NoPanic
  <2>2. ASSUME NEW t \in Tasks, EndOp(t) PROVE ~panicked'
    BY <2>2 DEF EndOp, Active, LogInv, CountsAgree
  <2>3. CASE UNCHANGED vars  BY <2>3 DEF vars, NoPanic
  <2>4. CASE Crash \/ Recover
    BY <2>4 DEF Crash, Recover, RecoverRead, RecoverInstall, RecoverClear,
                NoPanic
  <2>5. ASSUME NEW t \in Tasks,
               \/ BeginOp(t) \/ WaitRegister(t) \/ WaitCheck(t) \/ Repoll(t)
               \/ Commit(t)
        PROVE  NoPanic'
    BY <2>5 DEF NoPanic, BeginOp, WaitRegister, WaitCheck, Repoll, Commit,
                CommitStart, CommitCopy, CommitHeader, CommitInstall,
                CommitClear, CommitReset, CommitRelease, CommitWake
  <2> QED  BY <2>1, <2>2, <2>3, <2>4, <2>5 DEF Next, NoPanic
<1> QED  BY <1>1, <1>2, LogInvariant, PTL DEF Spec

\* A buffer outside the log is clean: eviction never loses a write.
THEOREM UnpinnedTheorem == Spec => []UnpinnedIsClean
<1>1. LogInv => UnpinnedIsClean  BY DEF LogInv
<1> QED  BY <1>1, LogInvariant, PTL

\* When the committing end_op releases the log, the group is at home.
THEOREM CommittedTheorem == Spec => []CommittedIsHome
<1>1. LogInv => CommittedIsHome
  <2> SUFFICES ASSUME LogInv, NEW t \in Tasks, pc[t] = "release"
               PROVE  home = cache /\ hdr = <<>>
    BY DEF CommittedIsHome
  <2>1. t \in Committers  BY DEF Committers
  <2>2. home = cache  BY <2>1 DEF LogInv, CommitProgress
  <2>3. boot = "up"  BY DEF LogInv, RecoveryProgress
  <2>4. \A u \in Tasks : pc[u] \notin {"install", "clear"}
    BY <2>1 DEF LogInv, CountsAgree, Committers
  <2> QED  BY <2>2, <2>3, <2>4 DEF LogInv, HeaderOwned
<1> QED  BY <1>1, LogInvariant, PTL

-----------------------------------------------------------------------------
(* Refinement: Log implements TxDisk.                                      *)

\* When the slots of a header agree with f on its blocks, and the home blocks
\* agree with f elsewhere, a reboot recovers f.
LEMMA OverlayIs ==
  ASSUME NEW h \in Seq(Blocks), NEW s, NEW m, NEW f \in [Blocks -> Vals],
         \A i \in DOMAIN h : s[i] = f[h[i]],
         \A b \in Blocks \ Range(h) : m[b] = f[b]
  PROVE  Overlay(h, s, m) = f
<1> SUFFICES ASSUME NEW b \in Blocks PROVE Overlay(h, s, m)[b] = f[b]
  BY DEF Overlay
<1>1. CASE b \in Range(h)
  <2>1. \E i \in DOMAIN h : h[i] = b  BY <1>1 DEF Range
  <2> DEFINE j == CHOOSE i \in DOMAIN h : h[i] = b
  <2>2. j \in DOMAIN h /\ h[j] = b  BY <2>1
  <2>3. Overlay(h, s, m)[b] = s[j]  BY <1>1 DEF Overlay
  <2> QED  BY <2>2, <2>3
<1>2. CASE b \notin Range(h)  BY <1>2 DEF Overlay
<1> QED  BY <1>1, <1>2

\* With an empty header the home blocks are what a reboot recovers.
LEMMA OverlayEmpty ==
  ASSUME NEW s, NEW m \in [Blocks -> Vals]
  PROVE  Overlay(<<>>, s, m) = m
  BY SMT DEF Overlay, Range

\* Only the home blocks outside the header matter to what a reboot recovers.
LEMMA OverlaySame ==
  ASSUME NEW h, NEW s, NEW m, NEW m2,
         \A b \in Blocks \ Range(h) : m2[b] = m[b]
  PROVE  Overlay(h, s, m2) = Overlay(h, s, m)
  BY SMT DEF Overlay

\* With the group in the slots, the slots laid over the home blocks are the
\* cache.
LEMMA OverlayFilled ==
  ASSUME LogInv, boot = "up", SlotsFilled(lh)
  PROVE  Overlay(lh, slot, home) = cache
<1>1. cache \in [Blocks -> Vals]  BY DEF LogInv, TypeOK
<1> SUFFICES ASSUME NEW b \in Blocks
             PROVE  Overlay(lh, slot, home)[b] = cache[b]
  BY <1>1 DEF Overlay
<1>2. CASE b \in Range(lh)
  <2>1. \E i \in DOMAIN lh : lh[i] = b  BY <1>2 DEF Range
  <2> DEFINE j == CHOOSE i \in DOMAIN lh : lh[i] = b
  <2>2. j \in DOMAIN lh /\ lh[j] = b  BY <2>1
  <2>3. Overlay(lh, slot, home)[b] = slot[j]  BY <1>2 DEF Overlay
  <2> QED  BY <2>2, <2>3 DEF SlotsFilled
<1>3. CASE b \notin Range(lh)
  <2>1. home[b] = cache[b]  BY <1>3 DEF LogInv, UnpinnedIsClean
  <2> QED  BY <1>3, <2>1 DEF Overlay
<1> QED  BY <1>2, <1>3

\* From the commit point to the clearing of the header a reboot recovers
\* exactly the cache.
LEMMA DurableCommitted ==
  ASSUME LogInv, NEW t \in Tasks, pc[t] \in {"install", "clear"}
  PROVE  Durable = cache /\ hdr = lh
<1>1. t \in Committers  BY DEF Committers
<1>2. hdr = lh /\ SlotsFilled(lh)  BY <1>1 DEF LogInv, CommitProgress
<1>3. boot = "up"  BY DEF LogInv, RecoveryProgress
<1>4. Overlay(lh, slot, home) = cache  BY <1>2, <1>3, OverlayFilled
<1> QED  BY <1>2, <1>4 DEF Durable

\* While nobody is between the commit point and the clearing of the header, the
\* header on disk is empty.
LEMMA HeaderEmpty ==
  ASSUME LogInv, boot = "up", \A t \in Tasks : pc[t] \notin {"install", "clear"}
  PROVE  hdr = <<>> /\ Durable = home
<1>1. hdr = <<>>  BY DEF LogInv, HeaderOwned
<1> QED  BY <1>1, OverlayEmpty DEF Durable, LogInv, TypeOK

LEMMA InitRefines == Init => Tx!Init
<1> SUFFICES ASSUME Init PROVE Tx!Init  OBVIOUS
<1>1. Durable = home  BY OverlayEmpty DEF Durable, Init
<1>2. View = home  BY <1>1 DEF View, Init
<1>3. Active = {}  BY DEF Init, Active
<1> QED  BY <1>1, <1>2, <1>3 DEF Tx!Init, Init

\* The steps of an operation map to the steps of TxDisk of the same name.
LEMMA OpRefines ==
  ASSUME LogInv, NEW t \in Tasks,
         \/ BeginOp(t)
         \/ EndOp(t)
         \/ \E b \in Blocks, v \in Vals : LogWrite(t, b, v)
  PROVE  Tx!Next \/ UNCHANGED Tx!vars
<1>1. boot = "up" /\ boot' = "up" /\ Durable' = Durable
  BY DEF BeginOp, EndOp, LogWrite, Runs, Durable, disk
<1>2. View = cache /\ View' = cache'  BY <1>1 DEF View
<1>3. CASE BeginOp(t)
  <2>1. cache' = cache  BY <1>3 DEF BeginOp
  <2>2. CASE Admissible
    <3>1. t \notin Active /\ Active' = Active \cup {t}
      BY <1>3, <2>2 DEF BeginOp, Active, LogInv, TypeOK
    <3> QED  BY <1>1, <1>2, <2>1, <3>1 DEF Tx!Next, Tx!Begin
  <2>3. CASE ~Admissible
    <3>1. Active' = Active
      BY <1>3, <2>3 DEF BeginOp, Active, LogInv, TypeOK
    <3> QED  BY <1>1, <1>2, <2>1, <3>1 DEF Tx!vars
  <2> QED  BY <2>2, <2>3
<1>4. CASE EndOp(t)
  <2>1. t \in Active /\ Active' = Active \ {t} /\ cache' = cache
    BY <1>4 DEF EndOp, Active, LogInv, TypeOK
  <2> QED  BY <1>1, <1>2, <2>1 DEF Tx!Next, Tx!End
<1>5. ASSUME NEW b \in Blocks, NEW v \in Vals, LogWrite(t, b, v)
      PROVE  Tx!Next \/ UNCHANGED Tx!vars
  <2>1. t \in Active /\ Active' = Active  BY <1>5 DEF LogWrite, Active
  <2>2. CASE Asserts
    <3>1. cache' = [cache EXCEPT ![b] = v]  BY <1>5, <2>2 DEF LogWrite
    <3> QED  BY <1>1, <1>2, <2>1, <3>1 DEF Tx!Next, Tx!Write
  <2>3. CASE ~Asserts
    <3>1. cache' = cache  BY <1>5, <2>3 DEF LogWrite
    <3> QED  BY <1>1, <1>2, <2>1, <3>1 DEF Tx!vars
  <2> QED  BY <2>2, <2>3
<1> QED  BY <1>3, <1>4, <1>5

\* Of the commit's steps the header write is TxDisk's Commit; the others change
\* nothing TxDisk sees.
LEMMA CommitRefines ==
  ASSUME LogInv, NEW t \in Tasks, Commit(t)
  PROVE  Tx!Next \/ UNCHANGED Tx!vars
<1>1. boot = "up" /\ boot' = "up" /\ cache' = cache
  BY DEF Commit, CommitStart, CommitCopy, CommitHeader, CommitInstall,
         CommitClear, CommitReset, CommitRelease, CommitWake, Runs
<1>2. View = cache /\ View' = cache  BY <1>1 DEF View
<1>3. Active' = Active
  BY DEF Commit, CommitStart, CommitCopy, CommitHeader, CommitInstall,
         CommitClear, CommitReset, CommitRelease, CommitWake, Active, LogInv,
         TypeOK
<1>4. CASE CommitStart(t) \/ CommitReset(t) \/ CommitRelease(t) \/ CommitWake(t)
  <2>1. Durable' = Durable
    BY <1>4 DEF CommitStart, CommitReset, CommitRelease, CommitWake, Durable,
                disk
  <2> QED  BY <1>2, <1>3, <2>1 DEF Tx!vars
<1>5. CASE CommitCopy(t)
  <2>1. t \in Committers /\ pc[t] = "copy"  BY <1>5 DEF CommitCopy, Committers
  <2>2. \A u \in Tasks : pc[u] \notin {"install", "clear"}
    BY <2>1 DEF LogInv, CountsAgree, Committers
  <2>3. hdr = <<>> /\ Durable = home  BY <1>1, <2>2, HeaderEmpty
  <2>4. Durable' = home
    BY <1>5, <2>3, OverlayEmpty DEF CommitCopy, Durable, LogInv, TypeOK
  <2> QED  BY <1>2, <1>3, <2>3, <2>4 DEF Tx!vars
<1>6. CASE CommitHeader(t)
  <2>1. t \in Committers /\ pc[t] = "header"
    BY <1>6 DEF CommitHeader, Committers
  <2>2. Active = {}  BY <2>1 DEF LogInv, CountsAgree
  <2>3. txn = lh /\ SlotsFilled(lh)  BY <2>1 DEF LogInv, CommitProgress
  <2>5. Overlay(lh, slot, home) = cache  BY <1>1, <2>3, OverlayFilled
  <2>6. Durable' = cache
    BY <1>6, <2>3, <2>5 DEF CommitHeader, Durable
  <2> QED  BY <1>2, <1>3, <2>2, <2>6 DEF Tx!Next, Tx!Commit
<1>7. CASE CommitInstall(t)
  <2>1. t \in Committers /\ pc[t] = "install"
    BY <1>7 DEF CommitInstall, Committers
  <2>2. txn = lh /\ ci \in DOMAIN lh /\ hdr = lh
    BY <2>1 DEF LogInv, CommitProgress
  <2>3. Durable' = Durable
    <3>1. /\ hdr \in Seq(Blocks) /\ home \in [Blocks -> Vals]
          /\ ci \in DOMAIN hdr
      BY <2>2 DEF LogInv, TypeOK
    <3>2. \A b \in Blocks \ Range(hdr) : home'[b] = home[b]
      BY <1>7, <2>2, <3>1 DEF CommitInstall, Range
    <3>3. Overlay(hdr, slot, home') = Overlay(hdr, slot, home)
      BY SMT, <3>2, OverlaySame
    <3> QED  BY <1>7, <3>3 DEF CommitInstall, Durable
  <2> QED  BY <1>2, <1>3, <2>3 DEF Tx!vars
<1>8. CASE CommitClear(t)
  <2>1. t \in Committers /\ pc[t] = "clear"
    BY <1>8 DEF CommitClear, Committers
  <2>2. Durable = cache  BY <2>1, DurableCommitted
  <2>3. home = cache  BY <2>1 DEF LogInv, CommitProgress
  <2>4. Durable' = cache
    BY <1>8, <2>3, OverlayEmpty DEF CommitClear, Durable, LogInv, TypeOK
  <2> QED  BY <1>2, <1>3, <2>2, <2>4 DEF Tx!vars
<1> QED  BY <1>4, <1>5, <1>6, <1>7, <1>8 DEF Commit

\* Recovery is invisible: what a reboot would recover does not change.
LEMMA RecoverRefines ==
  ASSUME LogInv, Recover
  PROVE  UNCHANGED Tx!vars
<1>1. boot # "up" /\ pc' = pc /\ cache = home
  BY DEF Recover, RecoverRead, RecoverInstall, RecoverClear, LogInv,
         RecoveryProgress
<1>2. View = Durable /\ Active' = Active  BY <1>1 DEF View, Active
<1>3. CASE RecoverRead
  <2>1. Durable' = Durable  BY <1>3 DEF RecoverRead, Durable, disk
  <2>2. hdr = <<>> => Durable = cache
    BY <1>1, OverlayEmpty DEF Durable, LogInv, TypeOK
  <2>3. View' = Durable
    BY <1>3, <2>1, <2>2 DEF RecoverRead, View
  <2> QED  BY <1>2, <2>1, <2>3 DEF Tx!vars
<1>4. CASE RecoverInstall
  <2>1. txn = hdr /\ ci \in DOMAIN hdr
    BY <1>1, <1>4 DEF RecoverInstall, LogInv, RecoveryProgress
  <2>2. Durable' = Durable
    <3>1. hdr \in Seq(Blocks) /\ home \in [Blocks -> Vals]
      BY DEF LogInv, TypeOK
    <3>2. \A b \in Blocks \ Range(hdr) : home'[b] = home[b]
      BY <1>4, <2>1, <3>1 DEF RecoverInstall, Range
    <3>3. Overlay(hdr, slot, home') = Overlay(hdr, slot, home)
      BY SMT, <3>2, OverlaySame
    <3> QED  BY <1>4, <3>3 DEF RecoverInstall, Durable
  <2>3. boot' # "up"  BY <1>4 DEF RecoverInstall
  <2> QED  BY <1>2, <2>2, <2>3 DEF Tx!vars, View
<1>5. CASE RecoverClear
  <2>1. \A i \in DOMAIN hdr : slot[i] = home[hdr[i]]
    BY <1>1, <1>5 DEF RecoverClear, LogInv, RecoveryProgress
  <2>2. Durable = home
    <3>1. hdr \in Seq(Blocks) /\ home \in [Blocks -> Vals]
      BY DEF LogInv, TypeOK
    <3>2. Overlay(hdr, slot, home) = home  BY SMT, <2>1, <3>1, OverlayIs
    <3> QED  BY <3>2 DEF Durable
  <2>3. Durable' = home /\ View' = home
    BY <1>1, <1>5, OverlayEmpty DEF RecoverClear, Durable, View, LogInv, TypeOK
  <2> QED  BY <1>2, <2>2, <2>3 DEF Tx!vars
<1> QED  BY <1>3, <1>4, <1>5 DEF Recover

LEMMA NextRefines == LogInv /\ [Next]_vars => [Tx!Next]_(Tx!vars)
<1> SUFFICES ASSUME LogInv, [Next]_vars
             PROVE  Tx!Next \/ UNCHANGED Tx!vars
  OBVIOUS
<1>1. CASE Crash
  <2>1. Durable' = Durable /\ boot' # "up" /\ Active' = {}
    BY <1>1 DEF Crash, Durable, disk, Active
  <2> QED  BY <2>1 DEF Tx!Next, Tx!Crash, View
<1>2. CASE Recover  BY <1>2, RecoverRefines
<1>3. CASE UNCHANGED vars
  BY <1>3 DEF vars, disk, Tx!vars, View, Durable, Active
<1>4. ASSUME NEW t \in Tasks, WaitRegister(t) \/ WaitCheck(t) \/ Repoll(t)
      PROVE  UNCHANGED Tx!vars
  BY <1>4 DEF WaitRegister, WaitCheck, Repoll, Tx!vars, View, Durable, Active,
              disk, LogInv, TypeOK
<1> QED
  BY <1>1, <1>2, <1>3, <1>4, OpRefines, CommitRefines DEF Next

\* The log implements TxDisk: what an operation group wrote becomes durable
\* in one step, the header write, and a crash anywhere, in recovery included,
\* leaves either all of it or none.
THEOREM LogImplementsTxDisk == Spec => ImplementsTxDisk
  BY InitRefines, NextRefines, LogInvariant, PTL DEF Spec, Tx!Spec,
     ImplementsTxDisk
=============================================================================
