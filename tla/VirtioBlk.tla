------------------------------ MODULE VirtioBlk ------------------------------
(***************************************************************************)
(* The virtio block driver (driver/virtio_blk.rs) and, from how the driver *)
(* uses it, the device: descriptor chains of three, the avail and used     *)
(* rings with their wrapping 16-bit indices, completion by interrupt, and  *)
(* the futures a request waits on.                                         *)
(*                                                                         *)
(* Everything under the DISK lock is one step; the device, the interrupt   *)
(* handler and the tasks, each on any hart, interleave between steps.  A   *)
(* ring entry that has been consumed is reset to None, so that states that *)
(* differ only in dead entries coincide and a stale entry shows if it is   *)
(* used.                                                                   *)
(***************************************************************************)
EXTENDS Integers, FiniteSets

CONSTANTS
  Tasks,   \* tasks that read or write blocks
  NUM,     \* descriptors, and entries of each ring
  WRAP,    \* ring indices count modulo WRAP (2^16 in the code)
  Start,   \* requests already done when the model starts
  MaxCalls,   \* bound: requests made after that
  None

Descs == 0..(NUM - 1)

ASSUME VirtioAssumption ==
  /\ IsFiniteSet(Tasks)
  /\ NUM \in Nat /\ NUM >= 3
  /\ WRAP \in Nat /\ WRAP % NUM = 0 /\ WRAP > 0
  /\ Start \in 0..(WRAP - 1) /\ MaxCalls \in Nat
  /\ None \notin Tasks \cup Descs

VARIABLES
  free,                   \* DiskState.free
  next,                   \* the next field of each descriptor in use
  completed, waker,       \* COMPLETED, WAKERS
  descWaiters,            \* DESC_WAITERS
  avail, availIdx,        \* AVAIL, written by the driver
  used, usedIdx,          \* USED, written by the device
  seenUsed,               \* DiskState.used_idx
  seenAvail, serving,     \* the device: entries taken, requests in service
  kicked, intr,           \* QUEUE_NOTIFY and INTERRUPT_STATUS
  irq, usedNow,           \* the interrupt handler and its local
  served,                 \* tasks whose current request the device has done
  owner,                  \* the task whose request a head descriptor carries
  pc, head, woken, calls

driver == <<free, next, completed, owner>>
rings == <<avail, availIdx, used, usedIdx>>
device == <<seenAvail, serving, served>>
handler == <<irq, usedNow, seenUsed>>
vars == <<driver, waker, descWaiters, rings, device, kicked, intr, handler,
          pc, head, woken, calls>>

PC == {"out", "submit", "dreg", "dchk", "dparked", "notify", "breg", "bchk",
       "bparked", "finish", "fwake"}

Goto(t, l) == pc' = [pc EXCEPT ![t] = l]

\* Start requests have come and gone; their flags are still up.
Init ==
  /\ free = Descs
  /\ next = [d \in Descs |-> None]
  /\ completed = [d \in Descs |-> Start > 0 /\ d % 3 = 0]
  /\ waker = [d \in Descs |-> None]
  /\ descWaiters = {}
  /\ avail = [d \in Descs |-> None] /\ availIdx = Start
  /\ used = [d \in Descs |-> None] /\ usedIdx = Start
  /\ seenUsed = Start /\ seenAvail = Start
  /\ serving = {} /\ served = {}
  /\ kicked = FALSE /\ intr = FALSE
  /\ irq = "idle" /\ usedNow = 0
  /\ owner = [d \in Descs |-> None]
  /\ pc = [t \in Tasks |-> "out"]
  /\ head = [t \in Tasks |-> None]
  /\ woken = {}
  /\ calls = 0

-----------------------------------------------------------------------------
(* read_block_async and write_block_async.                                 *)

Call(t) ==
  /\ pc[t] = "out"
  /\ calls < MaxCalls
  /\ calls' = calls + 1
  /\ Goto(t, "submit")
  /\ UNCHANGED <<driver, waker, descWaiters, rings, device, kicked, intr,
                 handler, head, woken>>

\* alloc_three takes the lowest free descriptors, one after the other.
Lowest(S) == CHOOSE i \in S : \A j \in S : i <= j
AllocThree ==
  LET i0 == Lowest(free)
      i1 == Lowest(free \ {i0})
      i2 == Lowest(free \ {i0, i1})
  IN  <<i0, i1, i2>>

\* submit_chain clears the flag before the device can see the request.
Reset(d) == completed' = [completed EXCEPT ![d] = FALSE]

RingPos(i) == i % NUM

\* wrapping_add(1)
Succ(i) == (i + 1) % WRAP

\* submit_chain under the DISK lock: fill a chain and publish its head, or
\* fail for want of descriptors.
Submit(t) ==
  /\ pc[t] = "submit"
  /\ IF Cardinality(free) < 3
       THEN Goto(t, "dreg") /\ UNCHANGED <<driver, avail, availIdx, head>>
       ELSE LET c == AllocThree IN
            /\ free' = free \ {c[1], c[2], c[3]}
            /\ next' = [next EXCEPT ![c[1]] = c[2], ![c[2]] = c[3],
                                    ![c[3]] = None]
            /\ owner' = [owner EXCEPT ![c[1]] = t]
            /\ Reset(c[1])
            /\ avail' = [avail EXCEPT ![RingPos(availIdx)] = c[1]]
            /\ availIdx' = Succ(availIdx)
            /\ head' = [head EXCEPT ![t] = c[1]]
            /\ Goto(t, "notify")
  /\ UNCHANGED <<waker, descWaiters, used, usedIdx, device, kicked, intr,
                 handler, woken>>

\* The write to QUEUE_NOTIFY, after the lock.
Notify(t) ==
  /\ pc[t] = "notify"
  /\ kicked' = TRUE
  /\ Goto(t, "breg")
  /\ UNCHANGED <<driver, waker, descWaiters, rings, device, intr, handler, head,
                 woken>>

\* DescWait::poll registers ...
DescRegister(t) ==
  /\ pc[t] = "dreg"
  /\ descWaiters' = descWaiters \cup {t}
  /\ Goto(t, "dchk")
  /\ UNCHANGED <<driver, waker, rings, device, kicked, intr, handler, head,
                 woken>>

\* ... then counts the free descriptors.
DescCheck(t) ==
  /\ pc[t] = "dchk"
  /\ Goto(t, IF Cardinality(free) >= 3 THEN "submit" ELSE "dparked")
  /\ UNCHANGED <<driver, waker, descWaiters, rings, device, kicked, intr,
                 handler, head, woken>>

\* BlockOp::poll registers in the head's cell ...
OpRegister(t) ==
  /\ pc[t] = "breg"
  /\ waker' = [waker EXCEPT ![head[t]] = t]
  /\ Goto(t, "bchk")
  /\ UNCHANGED <<driver, descWaiters, rings, device, kicked, intr, handler,
                 head, woken>>

\* Variant: to be polled is taken for being done.
DoneWhenPolled(d) == TRUE

Done(d) == completed[d]

\* ... then looks at the flag.
OpCheck(t) ==
  /\ pc[t] = "bchk"
  /\ Goto(t, IF Done(head[t]) THEN "finish" ELSE "bparked")
  /\ UNCHANGED <<driver, waker, descWaiters, rings, device, kicked, intr,
                 handler, head, woken>>

\* The executor polls a parked task again: because it was woken here or for a
\* reason of its own (kill wakes a task wherever it waits).
Repoll(t) ==
  /\ pc[t] \in {"dparked", "bparked"}
  /\ woken' = woken \ {t}
  /\ Goto(t, IF pc[t] = "dparked" THEN "dreg" ELSE "breg")
  /\ UNCHANGED <<driver, waker, descWaiters, rings, device, kicked, intr,
                 handler, head>>

\* Variant: only the head is freed.
ChainHead(h) == {h}

\* The descriptors free_chain visits from h.
Chain(h) == {h, next[h], next[next[h]]}

\* finish: free_chain under the DISK lock ...
Finish(t) ==
  /\ pc[t] = "finish"
  /\ free' = free \cup Chain(head[t])
  /\ next' = [d \in Descs |-> IF d \in Chain(head[t]) THEN None ELSE next[d]]
  /\ owner' = [owner EXCEPT ![head[t]] = None]
  /\ head' = [head EXCEPT ![t] = None]
  /\ served' = served \ {t}
  /\ Goto(t, "fwake")
  /\ UNCHANGED <<completed, waker, descWaiters, rings, seenAvail, serving,
                 kicked, intr, handler, woken>>

\* Variant: the waiters are dropped from the list and not woken.
WakeDescNone == descWaiters' = {} /\ woken' = woken

WakeDesc == descWaiters' = {} /\ woken' = woken \cup descWaiters

\* ... then wake everyone who waits for descriptors.
FinishWake(t) ==
  /\ pc[t] = "fwake"
  /\ WakeDesc
  /\ Goto(t, "out")
  /\ UNCHANGED <<driver, waker, rings, device, kicked, intr, handler, head>>

-----------------------------------------------------------------------------
(* The device: it may serve the requests it has taken in any order.        *)

DeviceTake ==
  /\ kicked
  /\ seenAvail # availIdx
  /\ serving' = serving \cup {avail[RingPos(seenAvail)]}
  /\ avail' = [avail EXCEPT ![RingPos(seenAvail)] = None]
  /\ seenAvail' = Succ(seenAvail)
  /\ UNCHANGED <<driver, waker, descWaiters, availIdx, used, usedIdx, served,
                 kicked, intr, handler, pc, head, woken>>

DeviceIdle ==
  /\ kicked
  /\ seenAvail = availIdx
  /\ kicked' = FALSE
  /\ UNCHANGED <<driver, waker, descWaiters, rings, device, intr, handler, pc,
                 head, woken>>

\* The device has moved the data and written the status byte.
DeviceServe(d) ==
  /\ d \in serving
  /\ serving' = serving \ {d}
  /\ served' = served \cup {owner[d]}
  /\ used' = [used EXCEPT ![usedIdx % NUM] = d]
  /\ usedIdx' = Succ(usedIdx)
  /\ intr' = TRUE
  /\ UNCHANGED <<driver, waker, descWaiters, avail, availIdx, seenAvail, kicked,
                 handler, pc, head, woken>>

-----------------------------------------------------------------------------
(* on_irq.                                                                 *)

\* Acknowledge the interrupt before looking at the ring.
IrqAck ==
  /\ irq = "idle"
  /\ intr
  /\ intr' = FALSE
  /\ irq' = "read"
  /\ UNCHANGED <<driver, waker, descWaiters, rings, device, kicked, usedNow,
                 seenUsed, pc, head, woken>>

\* Take the DISK lock and read the used index once.
IrqRead ==
  /\ irq = "read"
  /\ usedNow' = usedIdx
  /\ irq' = "drain"
  /\ UNCHANGED <<driver, waker, descWaiters, rings, device, kicked, intr,
                 seenUsed, pc, head, woken>>

\* One used entry: set the flag ...
IrqComplete ==
  /\ irq = "drain"
  /\ seenUsed # usedNow
  /\ completed' = [completed EXCEPT ![used[RingPos(seenUsed)]] = TRUE]
  /\ irq' = "wake"
  /\ UNCHANGED <<free, next, owner, waker, descWaiters, rings, device, kicked,
                 intr, usedNow, seenUsed, pc, head, woken>>

\* WakerCell::wake
WakeOp(d) ==
  /\ waker' = [waker EXCEPT ![d] = None]
  /\ woken' = woken \cup ({waker[d]} \ {None})

\* ... then wake the task, and go on to the next entry.
IrqWake ==
  /\ irq = "wake"
  /\ WakeOp(used[RingPos(seenUsed)])
  /\ used' = [used EXCEPT ![RingPos(seenUsed)] = None]
  /\ seenUsed' = Succ(seenUsed)
  /\ irq' = "drain"
  /\ UNCHANGED <<driver, descWaiters, avail, availIdx, usedIdx, device, kicked,
                 intr, usedNow, pc, head>>

IrqDone ==
  /\ irq = "drain"
  /\ seenUsed = usedNow
  /\ irq' = "idle"
  /\ usedNow' = 0
  /\ UNCHANGED <<driver, waker, descWaiters, rings, device, kicked, intr,
                 seenUsed, pc, head, woken>>

-----------------------------------------------------------------------------
\* What a task does once it has called.  The DISK lock is held by the handler
\* from IrqRead to IrqDone.
LockFree == irq \in {"idle", "read"}
Step(t) ==
  \/ LockFree /\ (Submit(t) \/ DescCheck(t) \/ Finish(t))
  \/ Notify(t)
  \/ DescRegister(t)
  \/ OpRegister(t)
  \/ OpCheck(t)
  \/ Repoll(t)
  \/ FinishWake(t)

Irq == IrqAck \/ IrqRead \/ IrqComplete \/ IrqWake \/ IrqDone

Serve == \E d \in Descs : DeviceServe(d)

Next ==
  \/ \E t \in Tasks : Call(t)
  \/ /\ (\E t \in Tasks : Step(t)) \/ DeviceTake \/ DeviceIdle \/ Serve \/ Irq
     /\ UNCHANGED calls

Spec == Init /\ [][Next]_vars

-----------------------------------------------------------------------------
(* Properties                                                              *)

TypeOK ==
  /\ free \in SUBSET Descs
  /\ next \in [Descs -> Descs \cup {None}]
  /\ completed \in [Descs -> BOOLEAN]
  /\ waker \in [Descs -> Tasks \cup {None}]
  /\ descWaiters \in SUBSET Tasks
  /\ avail \in [Descs -> Descs \cup {None}]
  /\ used \in [Descs -> Descs \cup {None}]
  /\ {availIdx, usedIdx, seenUsed, seenAvail, usedNow} \subseteq 0..(WRAP - 1)
  /\ serving \in SUBSET Descs
  /\ served \in SUBSET Tasks
  /\ kicked \in BOOLEAN /\ intr \in BOOLEAN
  /\ irq \in {"idle", "read", "drain", "wake"}
  /\ owner \in [Descs -> Tasks \cup {None}]
  /\ pc \in [Tasks -> PC]
  /\ head \in [Tasks -> Descs \cup {None}]
  /\ woken \in SUBSET Tasks
  /\ calls \in 0..MaxCalls

InFlight == {t \in Tasks : head[t] # None}

\* A task that finishes its request (l.482) has had that very request served:
\* a flag or a wake-up left over from an earlier use of the descriptor never
\* passes for a completion.
FinishedIsServed == \A t \in Tasks : pc[t] = "finish" => t \in served

\* Free descriptors and the chains in flight share out the table: none is
\* leaked by a full queue and none is in two chains (l.274-315).
ChainsPartition ==
  /\ \A t, u \in InFlight :
       t # u => Chain(head[t]) \cap Chain(head[u]) = {}
  /\ UNION {Chain(head[t]) : t \in InFlight} = Descs \ free
  /\ Cardinality(free) + 3 * Cardinality(InFlight) = NUM

Quiet ==
  /\ irq = "idle" /\ ~intr
  /\ serving = {} /\ ~(kicked /\ seenAvail # availIdx)
  /\ \A t \in Tasks : pc[t] = "out" \/ (pc[t] \in {"dparked", "bparked"}
                                         /\ t \notin woken)

\* When neither the device nor the handler nor any ready task has anything left
\* to do, no request is outstanding: no wake-up is lost between a future's
\* registration and its check, and the descriptors a finished request returns
\* reach those who wait for them.
NothingForgotten == Quiet => \A t \in Tasks : pc[t] = "out"
=============================================================================
