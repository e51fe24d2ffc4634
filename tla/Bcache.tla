------------------------------- MODULE Bcache -------------------------------
(***************************************************************************)
(* The buffer cache (driver/bio.rs): bread with its three outcomes (hit,   *)
(* wait for another loader, become the loader), eviction, and release.     *)
(*                                                                         *)
(* The CACHE lock covers the scans and the claim of a slot.  A loader that *)
(* finishes stores `valid' and `loading' without that lock, so the model   *)
(* takes one step per load and store wherever the two can interleave.      *)
(* Tasks that share a hart (Home) switch only where the code awaits.       *)
(*                                                                         *)
(* Among idle slots the code takes the least recently used one; time       *)
(* stamps can tie, and the model allows any of them.                       *)
(***************************************************************************)
EXTENDS Integers, FiniteSets

CONSTANTS
  Tasks,     \* callers of bread
  Home,      \* the hart each task is polled on
  Blocks,    \* block numbers
  NBUF,      \* buffers in the pool
  MaxHold,   \* buffers each task holds at a time
  NoBlock    \* BLOCK_INVALID

ASSUME BcacheAssumption ==
  /\ IsFiniteSet(Tasks) /\ NBUF \in Nat \ {0}
  /\ MaxHold \in [Tasks -> Nat] /\ NoBlock \notin Blocks

Bufs == 1..NBUF

VARIABLES
  blk, valid, loading,   \* the fields of each buffer
  data,                  \* the block whose contents each buffer has
  ioWaker,               \* tasks parked on each buffer
  woken,                 \* tasks whose id is in a ready queue
  lock,                  \* owner of CACHE, or 0
  pc, want, buf, idx,    \* bread's position, argument and locals
  held                   \* <<buffer, block>> pairs bread returned to each task

fields == <<blk, valid, loading>>
vars == <<fields, data, ioWaker, woken, lock, pc, want, buf, idx, held>>

MidPoll == {"lock", "hit", "loading", "free", "free2", "idle?", "setvalid",
            "clrload", "wake", "wreg", "wcheck"}
PC == MidPoll \cup {"out", "yield", "io", "parked"}

Runs(t) ==
  \A u \in Tasks \ {t} : Home[u] = Home[t] => pc[u] \notin MidPoll

Goto(t, l) == pc' = [pc EXCEPT ![t] = l]

\* Arc::strong_count: the pool's own reference, the locals of running breads
\* and the buffers their callers hold.
StrongCount(i) ==
  1 + Cardinality({t \in Tasks : buf[t] = i})
    + Cardinality({t \in Tasks : \E b \in Blocks : <<i, b>> \in held[t]})

Init ==
  /\ blk = [i \in Bufs |-> NoBlock]
  /\ valid = [i \in Bufs |-> FALSE]
  /\ loading = [i \in Bufs |-> FALSE]
  /\ data = [i \in Bufs |-> NoBlock]
  /\ ioWaker = [i \in Bufs |-> {}]
  /\ woken = {}
  /\ lock = 0
  /\ pc = [t \in Tasks |-> "out"]
  /\ want = [t \in Tasks |-> NoBlock]
  /\ buf = [t \in Tasks |-> 0]
  /\ idx = 0
  /\ held = [t \in Tasks |-> {}]

-----------------------------------------------------------------------------
(* bread: the part under the CACHE lock.                                   *)

Call(t, b) ==
  /\ Runs(t)
  /\ pc[t] = "out"
  /\ Cardinality(held[t]) < MaxHold[t]
  /\ \A h \in held[t] : h[2] # b
  /\ want' = [want EXCEPT ![t] = b]
  /\ Goto(t, "lock")
  /\ UNCHANGED <<fields, data, ioWaker, woken, lock, buf, idx, held>>

Acquire(t) ==
  /\ Runs(t)
  /\ pc[t] = "lock"
  /\ lock = 0
  /\ lock' = t
  /\ Goto(t, "hit")
  /\ UNCHANGED <<fields, data, ioWaker, woken, want, buf, idx, held>>

\* The test of the first scan.
IsHit(t, i) == blk[i] = want[t] /\ valid[i]

Hits(t) == {i \in Bufs : IsHit(t, i)}

\* bread returns buffer i to its caller.
Return(t, i) ==
  /\ held' = [held EXCEPT ![t] = @ \cup {<<i, want[t]>>}]
  /\ want' = [want EXCEPT ![t] = NoBlock]
  /\ Goto(t, "out")

First(S) == CHOOSE i \in S : \A j \in S : i <= j

\* 1) Hit: clone the first match, drop the lock, return the buffer.
HitScan(t) ==
  /\ Runs(t)
  /\ pc[t] = "hit"
  /\ IF Hits(t) # {}
       THEN Return(t, First(Hits(t))) /\ lock' = 0
       ELSE Goto(t, "loading") /\ UNCHANGED <<held, want, lock>>
  /\ UNCHANGED <<fields, data, ioWaker, woken, buf, idx>>

\* Variant: nobody looks for a load in progress.
IsLoadingNever(t, i) == FALSE

\* The test of the second scan.
IsLoading(t, i) == blk[i] = want[t] /\ loading[i]

Loads(t) == {i \in Bufs : IsLoading(t, i)}

\* 2) Another task is loading the block: become a waiter on its buffer.
LoadingScan(t) ==
  /\ Runs(t)
  /\ pc[t] = "loading"
  /\ IF Loads(t) # {}
       THEN /\ buf' = [buf EXCEPT ![t] = First(Loads(t))]
            /\ lock' = 0
            /\ Goto(t, "wreg")
            /\ UNCHANGED idx
       ELSE /\ idx' = 1
            /\ Goto(t, "free")
            /\ UNCHANGED <<buf, lock>>
  /\ UNCHANGED <<fields, data, ioWaker, woken, want, held>>

\* 3) Claim slot i: mark it, clone it, drop the lock, start the read.
Claim(t, i) ==
  /\ valid' = [valid EXCEPT ![i] = FALSE]
  /\ blk' = [blk EXCEPT ![i] = want[t]]
  /\ loading' = [loading EXCEPT ![i] = TRUE]
  /\ buf' = [buf EXCEPT ![t] = i]
  /\ lock' = 0
  /\ Goto(t, "io")

NextSlot(t) ==
  /\ idx' = idx + 1
  /\ Goto(t, IF idx < NBUF THEN "free" ELSE "idle?")

\* pick_evict_slot, first sweep, `!valid' of slot idx ...
FreeValid(t) ==
  /\ Runs(t)
  /\ pc[t] = "free"
  /\ IF valid[idx] THEN NextSlot(t) ELSE Goto(t, "free2") /\ UNCHANGED idx
  /\ UNCHANGED <<fields, data, ioWaker, woken, lock, want, buf, held>>

\* ... and, a load later, its `!loading'.
FreeLoading(t) ==
  /\ Runs(t)
  /\ pc[t] = "free2"
  /\ IF loading[idx]
       THEN NextSlot(t) /\ UNCHANGED <<fields, lock, buf>>
       ELSE Claim(t, idx) /\ UNCHANGED idx
  /\ UNCHANGED <<data, ioWaker, woken, want, held>>

\* Variant: buffers somebody holds are evicted too.
IdleHeld(i) == ~loading[i]

\* The test of the second sweep.
Idle(i) == ~loading[i] /\ StrongCount(i) = 1

\* pick_evict_slot, second sweep: an idle slot, or none and the caller yields.
EvictIdle(t) ==
  /\ Runs(t)
  /\ pc[t] = "idle?"
  /\ \/ \E i \in Bufs : Idle(i) /\ Claim(t, i)
     \/ /\ \A i \in Bufs : ~Idle(i)
        /\ lock' = 0
        /\ Goto(t, "yield")
        /\ UNCHANGED <<fields, buf>>
  /\ UNCHANGED <<data, ioWaker, woken, want, idx, held>>

\* yield_now: the task goes round the ready queue once and tries again.
Retry(t) ==
  /\ Runs(t)
  /\ pc[t] = "yield"
  /\ Goto(t, "lock")
  /\ UNCHANGED <<fields, data, ioWaker, woken, lock, want, buf, idx, held>>

-----------------------------------------------------------------------------
(* bread: the loader and the waiter.                                       *)

\* The device has filled the buffer and the loader is polled again.
IoDone(t) ==
  /\ Runs(t)
  /\ pc[t] = "io"
  /\ data' = [data EXCEPT ![buf[t]] = want[t]]
  /\ Goto(t, "setvalid")
  /\ UNCHANGED <<fields, ioWaker, woken, lock, want, buf, idx, held>>

SetValid(t) ==
  /\ Runs(t)
  /\ pc[t] = "setvalid"
  /\ valid' = [valid EXCEPT ![buf[t]] = TRUE]
  /\ Goto(t, "clrload")
  /\ UNCHANGED <<blk, loading, data, ioWaker, woken, lock, want, buf, idx, held>>

ClearLoading(t) ==
  /\ Runs(t)
  /\ pc[t] = "clrload"
  /\ loading' = [loading EXCEPT ![buf[t]] = FALSE]
  /\ Goto(t, "wake")
  /\ UNCHANGED <<blk, valid, data, ioWaker, woken, lock, want, buf, idx, held>>

\* Variant: the list is cleared and nobody is woken.
WakeNone(i) ==
  woken' = woken /\ ioWaker' = [ioWaker EXCEPT ![i] = {}]

\* io_waker.wake_all
WakeAll(i) ==
  /\ woken' = woken \cup ioWaker[i]
  /\ ioWaker' = [ioWaker EXCEPT ![i] = {}]

\* wake_all, then return the buffer.
LoadReturn(t) ==
  /\ Runs(t)
  /\ pc[t] = "wake"
  /\ WakeAll(buf[t])
  /\ Return(t, buf[t])
  /\ buf' = [buf EXCEPT ![t] = 0]
  /\ UNCHANGED <<fields, data, lock, idx>>

\* LoadWait::poll registers ...
WaitRegister(t) ==
  /\ Runs(t)
  /\ pc[t] = "wreg"
  /\ ioWaker' = [ioWaker EXCEPT ![buf[t]] = @ \cup {t}]
  /\ Goto(t, "wcheck")
  /\ UNCHANGED <<fields, data, woken, lock, want, buf, idx, held>>

\* ... and checks: done, drop the clone and look the block up again.
WaitCheck(t) ==
  /\ Runs(t)
  /\ pc[t] = "wcheck"
  /\ IF loading[buf[t]]
       THEN Goto(t, "parked") /\ UNCHANGED buf
       ELSE Goto(t, "lock") /\ buf' = [buf EXCEPT ![t] = 0]
  /\ UNCHANGED <<fields, data, ioWaker, woken, lock, want, idx, held>>

Repoll(t) ==
  /\ Runs(t)
  /\ pc[t] = "parked"
  /\ t \in woken
  /\ woken' = woken \ {t}
  /\ Goto(t, "wreg")
  /\ UNCHANGED <<fields, data, ioWaker, lock, want, buf, idx, held>>

\* The caller drops an Arc bread returned.
Release(t) ==
  /\ Runs(t)
  /\ pc[t] = "out"
  /\ \E h \in held[t] : held' = [held EXCEPT ![t] = @ \ {h}]
  /\ UNCHANGED <<fields, data, ioWaker, woken, lock, pc, want, buf, idx>>

-----------------------------------------------------------------------------
Scan(t) ==
  \/ Acquire(t)
  \/ HitScan(t)
  \/ LoadingScan(t)
  \/ FreeValid(t)
  \/ FreeLoading(t)
  \/ EvictIdle(t)

Load(t) == IoDone(t) \/ SetValid(t) \/ ClearLoading(t) \/ LoadReturn(t)

Wait(t) == WaitRegister(t) \/ WaitCheck(t) \/ Repoll(t)

Next ==
  \E t \in Tasks :
    \/ \E b \in Blocks : Call(t, b)
    \/ Scan(t)
    \/ Retry(t)
    \/ Load(t)
    \/ Wait(t)
    \/ Release(t)

Spec == Init /\ [][Next]_vars

\* A ready queue is first in, first out, so a task that is ready again and again
\* is polled; the lock is a spin lock, won again and again by some task; the
\* disk answers; callers drop their buffers.
Fairness ==
  \A t \in Tasks :
    /\ SF_vars(Scan(t) \/ Retry(t) \/ Load(t) \/ Wait(t))
    /\ SF_vars(Release(t))

FairSpec == Spec /\ Fairness

-----------------------------------------------------------------------------
(* Properties                                                              *)

TypeOK ==
  /\ blk \in [Bufs -> Blocks \cup {NoBlock}]
  /\ valid \in [Bufs -> BOOLEAN]
  /\ loading \in [Bufs -> BOOLEAN]
  /\ data \in [Bufs -> Blocks \cup {NoBlock}]
  /\ ioWaker \in [Bufs -> SUBSET Tasks]
  /\ woken \in SUBSET Tasks
  /\ lock \in Tasks \cup {0}
  /\ pc \in [Tasks -> PC]
  /\ want \in [Tasks -> Blocks \cup {NoBlock}]
  /\ buf \in [Tasks -> 0..NBUF]
  /\ idx \in 0..(NBUF + 1)
  /\ held \in [Tasks -> SUBSET (Bufs \X Blocks)]

\* A block has at most one buffer, so concurrent breads of it issue one read
\* (l.3-4) and a writer's changes are seen by every other holder.
OneBufferPerBlock ==
  \A i, j \in Bufs :
    /\ valid[i] \/ loading[i]
    /\ valid[j] \/ loading[j]
    /\ blk[i] = blk[j]
    => i = j

\* A buffer bread returned keeps its block and its contents for as long as the
\* caller holds it: only slots nobody holds are repurposed (l.118-120).
HeldIsStable ==
  \A t \in Tasks : \A h \in held[t] :
    valid[h[1]] /\ blk[h[1]] = h[2] /\ data[h[1]] = h[2]

InBread(t) == pc[t] # "out"

\* bread comes back unless other tasks overtake it for ever with calls of their
\* own: no waiter is left parked on a finished load, and a caller that finds
\* every buffer held makes progress after a trip round the ready queue
\* (l.172-174).
OnlyOvertaken ==
  \A t \in Tasks :
    <>[]InBread(t) =>
      \E u \in Tasks \ {t} : []<>InBread(u) /\ []<>~InBread(u)
=============================================================================
