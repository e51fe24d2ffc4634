-------------------------------- MODULE Log ---------------------------------
(***************************************************************************)
(* The write-ahead log of the file system (fs/log.rs): group commit of the *)
(* operations bracketed by begin_op and end_op, the four commit steps, and *)
(* the recovery that runs at boot.                                         *)
(*                                                                         *)
(* A disk write is awaited before the next one is issued, so the disk sees *)
(* them in program order, and a sector is written whole: a crash between   *)
(* two steps of the model covers a crash before, during and after each     *)
(* write.  A task may be interrupted between any two steps by tasks of     *)
(* other harts; tasks that share a hart (Home) only switch where the code  *)
(* awaits.                                                                 *)
(***************************************************************************)
EXTENDS Integers, Sequences, FiniteSets, Functions

CONSTANTS
  Tasks,        \* kernel tasks that run file-system operations
  Home,         \* the hart each task is polled on
  Blocks,       \* home block numbers
  Vals,         \* block contents
  LOGSIZE,      \* slots of the on-disk log
  MAXOPBLOCKS,  \* log space reserved for one operation
  OpBlocks      \* distinct blocks an operation really logs, at most

ASSUME LogAssumption ==
  /\ IsFiniteSet(Tasks)
  /\ IsFiniteSet(Blocks)
  /\ LOGSIZE \in Nat
  /\ MAXOPBLOCKS \in Nat \ {0}
  /\ OpBlocks \in 0..MAXOPBLOCKS

VARIABLES
  pc,           \* where each task is in begin_op .. end_op
  woken,        \* tasks whose id is in a ready queue
  waiters,      \* COMMIT_WAKER
  outstanding, committing, lh,    \* LogState (pinned = the buffers of lh)
  wr,           \* the blocks each running operation has logged
  cache,        \* contents of a block as bread returns them
  home, slot, hdr,                \* the disk: home blocks, log slots, header
  txn, ci,      \* locals of commit and recover: the header copy, loop index
  boot,         \* progress of log::init
  panicked

logState == <<outstanding, committing, lh>>
disk == <<home, slot, hdr>>
locals == <<txn, ci>>
vars == <<pc, woken, waiters, logState, wr, cache, disk, locals, boot, panicked>>

PC == {"idle", "begin", "reg", "check", "parked", "op", "commit", "copy",
       "header", "install", "clear", "reset", "release", "wake"}

\* Program points a task passes without awaiting: while it is at one of them
\* no other task of its hart runs.
MidPoll == {"begin", "reg", "check", "commit", "reset", "release", "wake"}

\* Task t may take a step: the machine is up and t's hart is not inside the
\* poll of another task.
Runs(t) ==
  /\ ~panicked
  /\ boot = "up"
  /\ \A u \in Tasks \ {t} : Home[u] = Home[t] => pc[u] \notin MidPoll

Active == {t \in Tasks : pc[t] = "op"}

-----------------------------------------------------------------------------
(* The state after mkfs: an empty log; the machine has just been reset.    *)
Init ==
  /\ pc = [t \in Tasks |-> "idle"]
  /\ woken = {}
  /\ waiters = {}
  /\ outstanding = 0
  /\ committing = FALSE
  /\ lh = <<>>
  /\ wr = [t \in Tasks |-> {}]
  /\ home \in [Blocks -> Vals]
  /\ cache = home
  /\ slot \in [1..LOGSIZE -> Vals]
  /\ hdr = <<>>
  /\ txn = <<>>
  /\ ci = 1
  /\ boot = "recover"
  /\ panicked = FALSE

-----------------------------------------------------------------------------
(* begin_op and the future it waits on.                                    *)

\* Variant: blind to a running commit.
AdmissibleInCommit ==
  Len(lh) + (outstanding + 1) * MAXOPBLOCKS <= LOGSIZE

\* begin_op's admission test.
Admissible ==
  /\ ~committing
  /\ Len(lh) + (outstanding + 1) * MAXOPBLOCKS <= LOGSIZE

\* Variant: the optimistic test that ignores the running operations.
WaitReadyOptimistic ==
  ~committing /\ Len(lh) + MAXOPBLOCKS <= LOGSIZE

\* WaitCommit's test, written out a second time in the code.
WaitReady ==
  /\ ~committing
  /\ Len(lh) + (outstanding + 1) * MAXOPBLOCKS <= LOGSIZE

\* begin_op lets t into the transaction.
Enter(t) ==
  /\ outstanding' = outstanding + 1
  /\ pc' = [pc EXCEPT ![t] = "op"]

\* begin_op's test under the LOG lock: enter the transaction or go wait.
BeginOp(t) ==
  /\ Runs(t)
  /\ pc[t] \in {"idle", "begin"}
  /\ IF Admissible
       THEN Enter(t)
       ELSE /\ outstanding' = outstanding
            /\ pc' = [pc EXCEPT ![t] = "reg"]
  /\ UNCHANGED <<woken, waiters, committing, lh, wr, cache, disk, locals, boot,
                 panicked>>

\* WaitCommit::poll, first half: COMMIT_WAKER.register.
WaitRegister(t) ==
  /\ Runs(t)
  /\ pc[t] = "reg"
  /\ waiters' = waiters \cup {t}
  /\ pc' = [pc EXCEPT ![t] = "check"]
  /\ UNCHANGED <<woken, logState, wr, cache, disk, locals, boot, panicked>>

\* WaitCommit::poll, second half: the re-check under the LOG lock.
WaitCheck(t) ==
  /\ Runs(t)
  /\ pc[t] = "check"
  /\ pc' = [pc EXCEPT ![t] = IF WaitReady THEN "begin" ELSE "parked"]
  /\ UNCHANGED <<woken, waiters, logState, wr, cache, disk, locals, boot,
                 panicked>>

\* The executor polls a parked task whose waker has fired.
Repoll(t) ==
  /\ Runs(t)
  /\ pc[t] = "parked"
  /\ t \in woken
  /\ woken' = woken \ {t}
  /\ pc' = [pc EXCEPT ![t] = "reg"]
  /\ UNCHANGED <<waiters, logState, wr, cache, disk, locals, boot, panicked>>

\* COMMIT_WAKER.wake_all
WakeAll ==
  /\ woken' = woken \cup waiters
  /\ waiters' = {}

-----------------------------------------------------------------------------
(* The body of an operation: it modifies a buffer and calls log_write.     *)
(* `wr' holds an operation to what its caller promises, at most OpBlocks   *)
(* distinct blocks.                                                        *)

\* log_write's scan: the block is in the header already.
Recorded(b) == b \in Range(lh)

\* log_write's asserts: inside a transaction, and no log overflow.
Asserts == outstanding > 0 /\ Len(lh) < LOGSIZE

LogWrite(t, b, v) ==
  /\ Runs(t)
  /\ pc[t] = "op"
  /\ Cardinality(wr[t] \cup {b}) <= OpBlocks
  /\ IF Asserts
       THEN /\ cache' = [cache EXCEPT ![b] = v]
            /\ wr' = [wr EXCEPT ![t] = @ \cup {b}]
            /\ lh' = IF Recorded(b) THEN lh ELSE Append(lh, b)
            /\ UNCHANGED panicked
       ELSE panicked' = TRUE /\ UNCHANGED <<cache, wr, lh>>
  /\ UNCHANGED <<pc, woken, waiters, outstanding, committing, disk, locals, boot>>

-----------------------------------------------------------------------------
(* end_op and commit.                                                      *)

\* Variant: the loop ends one block early.
MoreBlocksShort == ci < Len(txn) - 1

\* `for i in 0..lh.n': the loops over the blocks of a header go on.
MoreBlocks == ci < Len(txn)

EndOp(t) ==
  /\ Runs(t)
  /\ pc[t] = "op"
  /\ outstanding' = outstanding - 1
  /\ wr' = [wr EXCEPT ![t] = {}]
  /\ panicked' = committing
  /\ IF outstanding = 1
       THEN /\ committing' = TRUE
            /\ pc' = [pc EXCEPT ![t] = "commit"]
            /\ UNCHANGED <<woken, waiters>>
       ELSE /\ WakeAll
            /\ pc' = [pc EXCEPT ![t] = "idle"]
            /\ UNCHANGED committing
  /\ UNCHANGED <<lh, cache, disk, locals, boot>>

\* commit: clone the header and the pinned buffers; nothing to do if empty.
CommitStart(t) ==
  /\ Runs(t)
  /\ pc[t] = "commit"
  /\ txn' = lh
  /\ ci' = 1
  /\ pc' = [pc EXCEPT ![t] = IF lh = <<>> THEN "release" ELSE "copy"]
  /\ UNCHANGED <<woken, waiters, logState, wr, cache, disk, boot, panicked>>

\* Step 1: one pinned buffer into its log slot.
CommitCopy(t) ==
  /\ Runs(t)
  /\ pc[t] = "copy"
  /\ slot' = [slot EXCEPT ![ci] = cache[txn[ci]]]
  /\ IF MoreBlocks
       THEN ci' = ci + 1 /\ UNCHANGED pc
       ELSE ci' = 1 /\ pc' = [pc EXCEPT ![t] = "header"]
  /\ UNCHANGED <<woken, waiters, logState, wr, cache, home, hdr, txn, boot,
                 panicked>>

\* Step 2: the header, the commit point.
CommitHeader(t) ==
  /\ Runs(t)
  /\ pc[t] = "header"
  /\ hdr' = txn
  /\ pc' = [pc EXCEPT ![t] = "install"]
  /\ UNCHANGED <<woken, waiters, logState, wr, cache, home, slot, locals, boot,
                 panicked>>

\* Step 3: one pinned buffer to its home block.
CommitInstall(t) ==
  /\ Runs(t)
  /\ pc[t] = "install"
  /\ home' = [home EXCEPT ![txn[ci]] = cache[txn[ci]]]
  /\ IF MoreBlocks
       THEN ci' = ci + 1 /\ UNCHANGED pc
       ELSE ci' = 1 /\ pc' = [pc EXCEPT ![t] = "clear"]
  /\ UNCHANGED <<woken, waiters, logState, wr, cache, slot, hdr, txn, boot,
                 panicked>>

\* Step 4: the empty header.
CommitClear(t) ==
  /\ Runs(t)
  /\ pc[t] = "clear"
  /\ hdr' = <<>>
  /\ pc' = [pc EXCEPT ![t] = "reset"]
  /\ UNCHANGED <<woken, waiters, logState, wr, cache, home, slot, locals, boot,
                 panicked>>

\* The in-memory header is zeroed and the buffers are unpinned.
CommitReset(t) ==
  /\ Runs(t)
  /\ pc[t] = "reset"
  /\ lh' = <<>>
  /\ pc' = [pc EXCEPT ![t] = "release"]
  /\ UNCHANGED <<woken, waiters, outstanding, committing, wr, cache, disk,
                 locals, boot, panicked>>

\* end_op, after commit: committing = false ...
CommitRelease(t) ==
  /\ Runs(t)
  /\ pc[t] = "release"
  /\ committing' = FALSE
  /\ pc' = [pc EXCEPT ![t] = "wake"]
  /\ UNCHANGED <<woken, waiters, outstanding, lh, wr, cache, disk, locals, boot,
                 panicked>>

\* ... and only then, outside the lock, wake_all.
CommitWake(t) ==
  /\ Runs(t)
  /\ pc[t] = "wake"
  /\ WakeAll
  /\ pc' = [pc EXCEPT ![t] = "idle"]
  /\ UNCHANGED <<logState, wr, cache, disk, locals, boot, panicked>>

-----------------------------------------------------------------------------
(* Crash and recovery.  The boot task runs log::init before any task that  *)
(* could start an operation exists.                                        *)

Crash ==
  /\ boot' = "recover"
  /\ panicked' = FALSE
  /\ pc' = [t \in Tasks |-> "idle"]
  /\ woken' = {}
  /\ waiters' = {}
  /\ outstanding' = 0
  /\ committing' = FALSE
  /\ lh' = <<>>
  /\ wr' = [t \in Tasks |-> {}]
  /\ cache' = home
  /\ txn' = <<>>
  /\ ci' = 1
  /\ UNCHANGED disk

\* recover: read the header; an empty one ends recovery.
RecoverRead ==
  /\ boot = "recover"
  /\ txn' = hdr
  /\ ci' = 1
  /\ boot' = IF hdr = <<>> THEN "up" ELSE "replay"
  /\ UNCHANGED <<pc, woken, waiters, logState, wr, cache, disk, panicked>>

\* install_log_to_home: one slot through the cache to its home block.
RecoverInstall ==
  /\ boot = "replay"
  /\ cache' = [cache EXCEPT ![txn[ci]] = slot[ci]]
  /\ home' = [home EXCEPT ![txn[ci]] = slot[ci]]
  /\ IF MoreBlocks
       THEN ci' = ci + 1 /\ UNCHANGED boot
       ELSE ci' = 1 /\ boot' = "clear"
  /\ UNCHANGED <<pc, woken, waiters, logState, wr, slot, hdr, txn, panicked>>

RecoverClear ==
  /\ boot = "clear"
  /\ hdr' = <<>>
  /\ boot' = "up"
  /\ UNCHANGED <<pc, woken, waiters, logState, wr, cache, home, slot, locals,
                 panicked>>

-----------------------------------------------------------------------------
Commit(t) ==
  \/ CommitStart(t)
  \/ CommitCopy(t)
  \/ CommitHeader(t)
  \/ CommitInstall(t)
  \/ CommitClear(t)
  \/ CommitReset(t)
  \/ CommitRelease(t)
  \/ CommitWake(t)

Recover == RecoverRead \/ RecoverInstall \/ RecoverClear

Next ==
  \/ \E t \in Tasks :
       \/ BeginOp(t)
       \/ WaitRegister(t)
       \/ WaitCheck(t)
       \/ Repoll(t)
       \/ EndOp(t)
       \/ Commit(t)
       \/ \E b \in Blocks, v \in Vals : LogWrite(t, b, v)
  \/ Recover
  \/ Crash

Spec == Init /\ [][Next]_vars

\* Every step the code has begun it carries on with.  The ready queue of a hart
\* is first in, first out, so a task that is ready again and again is polled
\* (strong fairness where other tasks of the hart can come in between); an
\* operation is finite and reaches end_op; the disk answers.  Nothing obliges a
\* task to start an operation, to log a block, or the machine to crash.
Fairness ==
  /\ \A t \in Tasks :
       SF_vars(\/ pc[t] = "begin" /\ BeginOp(t)
               \/ WaitRegister(t) \/ WaitCheck(t) \/ Repoll(t)
               \/ EndOp(t)
               \/ Commit(t))
  /\ WF_vars(Recover)

FairSpec == Spec /\ Fairness

-----------------------------------------------------------------------------
(* Properties                                                              *)

TypeOK ==
  /\ pc \in [Tasks -> PC]
  /\ woken \in SUBSET Tasks
  /\ waiters \in SUBSET Tasks
  /\ outstanding \in Nat
  /\ committing \in BOOLEAN
  /\ lh \in Seq(Blocks)
  /\ wr \in [Tasks -> SUBSET Blocks]
  /\ cache \in [Blocks -> Vals]
  /\ home \in [Blocks -> Vals]
  /\ slot \in [1..LOGSIZE -> Vals]
  /\ hdr \in Seq(Blocks)
  /\ txn \in Seq(Blocks)
  /\ ci \in Nat \ {0}
  /\ boot \in {"recover", "replay", "clear", "up"}
  /\ panicked \in BOOLEAN

\* The admission test of begin_op reserves enough: operations that stay within
\* OpBlocks blocks, however they overlap, never trip an assert of log_write
\* (l.178-179, "log overflow") or of end_op (l.196).
NoPanic == ~panicked

\* The reservation is exact: an operation that has not used up its MAXOPBLOCKS
\* finds a free entry in the header, whatever the other operations have logged
\* since begin_op let it in (l.134, l.187).
RoomForPromised ==
  \A t \in Active : Cardinality(wr[t]) < MAXOPBLOCKS => Len(lh) < LOGSIZE

\* A buffer the log does not pin is clean, so the cache may evict it and read
\* it back without losing a write (the purpose of `pinned', l.60-63).
UnpinnedIsClean ==
  boot = "up" => \A b \in Blocks \ Range(lh) : cache[b] = home[b]

\* When the end_op that committed goes on to release the log, everything any
\* finished operation wrote is at its home location and the log is empty.
CommittedIsHome ==
  \A t \in Tasks : pc[t] = "release" => home = cache /\ hdr = <<>>

\* The home blocks m, overlaid with the slots s of the blocks header h names.
Overlay(h, s, m) ==
  [b \in Blocks |->
     IF b \in Range(h) THEN s[CHOOSE i \in DOMAIN h : h[i] = b] ELSE m[b]]

\* What a reboot at this instant would recover.
Durable == Overlay(hdr, slot, home)

\* What the file system sees; until recovery is done it sees nothing and the
\* disk speaks for itself.
View == IF boot = "up" THEN cache ELSE Durable

Tx == INSTANCE TxDisk WITH mem <- View, stable <- Durable, active <- Active

\* The log implements atomic, durable group commit: a crash anywhere, during
\* recovery included, keeps all of a committed group and nothing of the rest.
ImplementsTxDisk == Tx!Spec

-----------------------------------------------------------------------------
(* The inductive invariant behind the properties above (see LogProofs).    *)

Committers ==
  {t \in Tasks : pc[t] \in {"commit", "copy", "header", "install", "clear",
                            "reset", "release"}}

\* The slots reserved and not yet used: one token per block an operation may
\* still log.
Budget == {r \in Active \X (1..MAXOPBLOCKS) : r[2] > Cardinality(wr[r[1]])}

\* `outstanding' and `committing' say what the tasks are doing.
CountsAgree ==
  /\ outstanding = Cardinality(Active)
  /\ committing <=> Committers # {}
  /\ \A t, u \in Committers : t = u
  /\ committing => Active = {}
  /\ Active = {} /\ ~committing => lh = <<>>

\* What has been logged and what may still be logged fit together.
SpaceReserved ==
  /\ Len(lh) + Cardinality(Budget) <= LOGSIZE
  /\ \A i, j \in DOMAIN lh : lh[i] = lh[j] => i = j
  /\ \A t \in Tasks : /\ Cardinality(wr[t]) <= OpBlocks
                      /\ wr[t] \subseteq Range(lh)
                      /\ pc[t] # "op" => wr[t] = {}

SlotsFilled(s) == \A i \in DOMAIN s : slot[i] = cache[s[i]]

\* Where the committing task is tells what is on the disk.
CommitProgress ==
  \A t \in Committers :
    /\ pc[t] \in {"copy", "header", "install", "clear"}
         => txn = lh /\ lh # <<>> /\ ci \in DOMAIN lh
    /\ pc[t] = "copy" => \A i \in 1..(ci - 1) : slot[i] = cache[lh[i]]
    /\ pc[t] \in {"header", "install", "clear"} => SlotsFilled(lh)
    /\ pc[t] = "header" => ci = 1
    /\ pc[t] \in {"install", "clear"} => hdr = lh
    /\ pc[t] = "install" => \A i \in 1..(ci - 1) : home[lh[i]] = cache[lh[i]]
    /\ pc[t] \in {"clear", "reset", "release"} => home = cache
    /\ pc[t] = "release" => lh = <<>>

\* A header on disk that is not empty belongs to the commit in progress.
HeaderOwned ==
  boot = "up" /\ hdr # <<>> =>
    \E t \in Tasks : pc[t] \in {"install", "clear"}

\* Recovery runs alone and repeats what the interrupted commit was doing.
RecoveryProgress ==
  boot # "up" =>
    /\ \A t \in Tasks : pc[t] = "idle"
    /\ cache = home
    /\ Len(hdr) <= LOGSIZE
    /\ \A i, j \in DOMAIN hdr : hdr[i] = hdr[j] => i = j
    /\ boot = "replay" => /\ txn = hdr /\ ci \in DOMAIN hdr
                          /\ \A i \in 1..(ci - 1) : home[hdr[i]] = slot[i]
    /\ boot = "clear" => \A i \in DOMAIN hdr : home[hdr[i]] = slot[i]

LogInv ==
  /\ TypeOK
  /\ CountsAgree
  /\ SpaceReserved
  /\ UnpinnedIsClean
  /\ CommitProgress
  /\ HeaderOwned
  /\ RecoveryProgress

-----------------------------------------------------------------------------
Waiting(t) == pc[t] \in {"begin", "reg", "check", "parked"}

\* No wake-up is lost in begin_op: a task that waits for ever is overtaken for
\* ever by others that come and go, it is never left parked while the log is
\* free, nor does its loop starve the operations it waits for (WaitCommit
\* registers before it re-checks, with begin_op's own test; end_op wakes after
\* it clears `committing').
OnlyOvertaken ==
  \A t \in Tasks :
    <>[]Waiting(t) =>
      \E u \in Tasks \ {t} : []<>(pc[u] = "op") /\ []<>(pc[u] # "op")
=============================================================================
