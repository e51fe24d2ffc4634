------------------------------- MODULE Inode -------------------------------
(***************************************************************************)
(* The inode cache, link counts and the freeing of inodes (fs/inode.rs,    *)
(* fs/dir.rs and the system calls on names in syscall.rs): open with and   *)
(* without O_CREATE, link, unlink, rename, close, and the reaper task that *)
(* frees an unlinked file after its last close.                            *)
(*                                                                         *)
(* Directories are fixed and hold files; every name is in the directory    *)
(* Dir[n].  The disk is what the buffer cache and the log show, so an      *)
(* iupdate is one write of the inode.  Each ilock is one step: LockWait    *)
(* parks and is woken as in the other modules.  Tasks that share a hart    *)
(* (Home) switch only where the code awaits, never in a pc of MidPoll.     *)
(***************************************************************************)
EXTENDS Integers, FiniteSets, SequencesExt

CONSTANTS
  Procs,      \* processes, with one open file each
  Reaper,     \* the inode_reaper task
  Home,       \* the hart each task is polled on
  Names, Dir, \* names and the directory of each
  NINODES,    \* inodes on disk
  NSLOTS,     \* NINODE_CACHE
  Calls,      \* the calls of each process
  MaxQueue,   \* bound on REAP_QUEUE
  None

ASSUME InodeAssumption ==
  /\ Reaper \notin Procs /\ None \notin Procs \cup {Reaper}
  /\ {NINODES, NSLOTS, MaxQueue} \subseteq Nat \ {0}
  /\ Calls \in [Procs -> SUBSET {"open", "create", "link", "unlink", "rename"}]

Tasks == Procs \cup {Reaper}
Inums == 1..NINODES
Slots == 1..NSLOTS
Free == [typ |-> 0, nlink |-> 0]

VARIABLES
  disk,             \* the inodes on disk
  entry,            \* the inum of every name, 0 if it has none
  dirLock,          \* owner of each directory's inode lock
  inum, valid, st,  \* the fields of each cache slot
  locked,           \* owner of each slot's lock
  fd,               \* the slot and inum of each process's open file
  queue,            \* REAP_QUEUE
  panicked,         \* an assert fired
  pc, call,         \* where each task is, and its call with its names
  ip, ex            \* the Arcs in its locals; 0: none

cache == <<inum, valid, st, locked>>
locals == <<call, ip, ex>>
vars == <<disk, entry, dirLock, cache, fd, queue, panicked, pc, locals>>

MidPoll == {"claim", "rcount", "rpeek", "drop"}
Runs(t) ==
  /\ ~panicked
  /\ \A u \in Tasks \ {t} : Home[u] = Home[t] => pc[u] \notin MidPoll
Goto(t, l) == pc' = [pc EXCEPT ![t] = l]

\* Arc::strong_count: the cache, the locals, the open files and the queue.
StrongCount(s) ==
  1 + Cardinality({t \in Tasks : ip[t] = s}) + Cardinality({t \in Tasks : ex[t] = s})
    + Cardinality({p \in Procs : fd[p] # None /\ fd[p].slot = s})
    + Cardinality({i \in DOMAIN queue : queue[i] = s})

Init ==
  /\ disk = [i \in Inums |-> Free]
  /\ entry = [n \in Names |-> 0]
  /\ dirLock = [d \in Range(Dir) |-> None]
  /\ inum = [s \in Slots |-> 0]
  /\ valid = [s \in Slots |-> FALSE]
  /\ st = [s \in Slots |-> Free]
  /\ locked = [s \in Slots |-> None]
  /\ fd = [p \in Procs |-> None]
  /\ queue = <<>>
  /\ panicked = FALSE
  /\ pc = [t \in Tasks |-> "out"]
  /\ call = [p \in Procs |-> None]
  /\ ip = [t \in Tasks |-> 0]
  /\ ex = [t \in Tasks |-> 0]

-----------------------------------------------------------------------------
(* The cache                                                               *)

\* Variant: a slot nobody holds is a match too.
LiveStale(i) == {s \in Slots : inum[s] = i}

Live(i) == {s \in Slots : inum[s] = i /\ StrongCount(s) > 1}
Idle == {s \in Slots : StrongCount(s) = 1}

\* try_iget: the first live slot of i, else the first idle one, which is
\* stamped anew; disabled, as iget_wait yields, when there is neither.
Iget(i, s) ==
  \/ /\ Live(i) # {} /\ s = Min(Live(i))
     /\ UNCHANGED <<inum, valid>>
  \/ /\ Live(i) = {} /\ Idle # {} /\ s = Min(Idle)
     /\ inum' = [inum EXCEPT ![s] = i]
     /\ valid' = [valid EXCEPT ![s] = FALSE]

\* What ilock finds: a slot that is not valid is loaded, and asserted in use.
Loaded(s) == IF valid[s] THEN st[s] ELSE disk[inum[s]]
Panics(s) == ~valid[s] /\ disk[inum[s]].typ = 0

Ilock(t, s) ==
  /\ locked[s] = None
  /\ locked' = [locked EXCEPT ![s] = t]
  /\ valid' = [valid EXCEPT ![s] = TRUE]
  /\ st' = [st EXCEPT ![s] = Loaded(s)]
  /\ panicked' = Panics(s)
  /\ inum' = inum

\* ilock, iupdate of the state changed to new, and unlock
Ichange(s, new) ==
  /\ locked[s] = None
  /\ valid' = [valid EXCEPT ![s] = TRUE]
  /\ st' = [st EXCEPT ![s] = new]
  /\ disk' = [disk EXCEPT ![inum[s]] = new]
  /\ panicked' = Panics(s)
  /\ UNCHANGED <<inum, locked>>

\* ilock for a look at the state, and unlock
Ipeek(s) ==
  /\ locked[s] = None
  /\ valid' = [valid EXCEPT ![s] = TRUE]
  /\ st' = [st EXCEPT ![s] = Loaded(s)]
  /\ panicked' = Panics(s)
  /\ UNCHANGED <<inum, locked, disk>>

Unlock(t) == locked' = [s \in Slots |-> IF locked[s] = t THEN None ELSE locked[s]]

Done(p) == pc' = [pc EXCEPT ![p] = "out"] /\ call' = [call EXCEPT ![p] = None]

\* The locals of the call, or of maybe_free, go.
Drop(t) ==
  /\ Runs(t) /\ pc[t] = "drop"
  /\ ip' = [ip EXCEPT ![t] = 0]
  /\ ex' = [ex EXCEPT ![t] = 0]
  /\ Goto(t, "out")
  /\ call' = IF t = Reaper THEN call ELSE [call EXCEPT ![t] = None]
  /\ UNCHANGED <<disk, entry, dirLock, cache, fd, queue, panicked>>

-----------------------------------------------------------------------------
(* open and close                                                          *)

Call(p, c, n, m) ==
  /\ Runs(p) /\ pc[p] = "out" /\ c \in Calls[p]
  /\ c \in {"open", "create"} => fd[p] = None
  /\ IF c \in {"link", "rename"} THEN m # n ELSE m = n
  /\ call' = [call EXCEPT ![p] = [op |-> c, n |-> n, m |-> m, i |-> 0]]
  /\ Goto(p, IF c \in {"create", "unlink"} THEN "dir" ELSE "walk")
  /\ UNCHANGED <<disk, entry, dirLock, cache, fd, queue, panicked, ip, ex>>

DirFree(n) == dirLock[Dir[n]] = None

\* namei: dirlookup under the directory's lock.
Walk(p) ==
  /\ Runs(p) /\ pc[p] = "walk" /\ DirFree(call[p].n)
  /\ LET i == entry[call[p].n]
     IN  IF i = 0
           THEN Done(p) /\ UNCHANGED <<inum, valid, ip>>
           ELSE /\ \E s \in Slots : Iget(i, s) /\ ip' = [ip EXCEPT ![p] = s]
                /\ Goto(p, call[p].op)
                /\ call' = call
  /\ UNCHANGED <<disk, entry, dirLock, st, locked, fd, queue, panicked, ex>>

\* The rest of sys_open.  A file may be refused for its mode, not one that
\* O_CREATE has returned.
Open(p) ==
  /\ Runs(p) /\ pc[p] = "open"
  /\ Ipeek(ip[p])
  /\ \/ Loaded(ip[p]).typ # 0
        /\ fd' = [fd EXCEPT ![p] = [slot |-> ip[p], inum |-> inum[ip[p]]]]
     \/ (call[p].op = "open" \/ Loaded(ip[p]).typ = 0) /\ fd' = fd
  /\ ip' = [ip EXCEPT ![p] = 0]
  /\ Done(p)
  /\ UNCHANGED <<entry, dirLock, queue, ex>>

\* Drop for File: iput_deferred.
Close(p) ==
  /\ Runs(p) /\ pc[p] = "out" /\ fd[p] # None
  /\ Len(queue) < MaxQueue
  /\ queue' = Append(queue, fd[p].slot)
  /\ fd' = [fd EXCEPT ![p] = None]
  /\ UNCHANGED <<disk, entry, dirLock, cache, panicked, pc, locals>>

-----------------------------------------------------------------------------
(* O_CREATE                                                                *)

LockDir(p) ==
  /\ Runs(p) /\ pc[p] = "dir" /\ DirFree(call[p].n)
  /\ dirLock' = [dirLock EXCEPT ![Dir[call[p].n]] = p]
  /\ Goto(p, call[p].op)
  /\ UNCHANGED <<disk, entry, cache, fd, queue, panicked, locals>>

UnlockDir(p) == dirLock' = [d \in DOMAIN dirLock |->
                              IF dirLock[d] = p THEN None ELSE dirLock[d]]

\* create_inside_op returns the file there is ...
CreateFound(p) ==
  /\ Runs(p) /\ pc[p] = "create" /\ entry[call[p].n] # 0
  /\ \E s \in Slots : Iget(entry[call[p].n], s) /\ ip' = [ip EXCEPT ![p] = s]
  /\ UnlockDir(p)
  /\ Goto(p, "open")
  /\ UNCHANGED <<disk, entry, st, locked, fd, queue, panicked, call, ex>>

\* ... or ialloc looks for an inode that is free ...
Ialloc(p) ==
  /\ Runs(p) /\ pc[p] = "create" /\ entry[call[p].n] = 0
  /\ IF \A i \in Inums : disk[i].typ # 0
       THEN Done(p) /\ UnlockDir(p)
       ELSE /\ \E i \in Inums : disk[i].typ = 0 /\ call' = [call EXCEPT ![p].i = i]
            /\ Goto(p, "claim")
            /\ dirLock' = dirLock
  /\ UNCHANGED <<disk, entry, cache, fd, queue, panicked, ip, ex>>

Fresh == [typ |-> 1, nlink |-> 1]

\* ... claims it, with no await in between, and gets a slot for it.
Claim(p) ==
  /\ Runs(p) /\ pc[p] = "claim"
  /\ disk' = [disk EXCEPT ![call[p].i] = Fresh]
  /\ \E s \in Slots : Iget(call[p].i, s) /\ ip' = [ip EXCEPT ![p] = s]
  /\ Goto(p, "fill")
  /\ UNCHANGED <<entry, dirLock, st, locked, fd, queue, panicked, call, ex>>

Fill(p) ==
  /\ Runs(p) /\ pc[p] = "fill"
  /\ Ichange(ip[p], [Loaded(ip[p]) EXCEPT !.nlink = 1])
  /\ Goto(p, "enter")
  /\ UNCHANGED <<entry, dirLock, fd, queue, locals>>

\* dirlink, in a directory that has room
Enter(p) ==
  /\ Runs(p) /\ pc[p] = "enter"
  /\ entry' = [entry EXCEPT ![call[p].n] = inum[ip[p]]]
  /\ UnlockDir(p)
  /\ Goto(p, "open")
  /\ UNCHANGED <<disk, cache, fd, queue, panicked, locals>>

-----------------------------------------------------------------------------
(* unlink                                                                  *)

UnlinkLook(p) ==
  /\ Runs(p) /\ pc[p] = "unlink"
  /\ LET i == entry[call[p].n]
     IN  IF i = 0
           THEN Done(p) /\ UnlockDir(p) /\ UNCHANGED <<inum, valid, ip>>
           ELSE /\ \E s \in Slots : Iget(i, s) /\ ip' = [ip EXCEPT ![p] = s]
                /\ Goto(p, "ulock")
                /\ UNCHANGED <<call, dirLock>>
  /\ UNCHANGED <<disk, entry, st, locked, fd, queue, panicked, ex>>

UnlinkLock(p) ==
  /\ Runs(p) /\ pc[p] = "ulock"
  /\ Ilock(p, ip[p])
  /\ Goto(p, "udec")
  /\ UNCHANGED <<disk, entry, dirLock, fd, queue, locals>>

\* Variant: an open file is not looked for.
NobodyElseUnchecked(s) == TRUE

\* Only the cache and this task have the inode.
NobodyElse(s) == StrongCount(s) <= 2

\* The entry is cleared, a link taken away, and the file freed if that was
\* the last link and nobody has it open; iupdate may have to read the block.
UnlinkEntry(p) ==
  /\ Runs(p) /\ pc[p] = "udec"
  /\ entry' = [entry EXCEPT ![call[p].n] = 0]
  /\ LET s == ip[p]
         n == st[s].nlink - 1
     IN  st' = [st EXCEPT ![s] = IF n = 0 /\ NobodyElse(s) THEN Free
                                 ELSE [typ |-> st[s].typ, nlink |-> n]]
  /\ Goto(p, "uupd")
  /\ UNCHANGED <<disk, dirLock, inum, valid, locked, fd, queue, panicked, locals>>

UnlinkUpdate(p) ==
  /\ Runs(p) /\ pc[p] = "uupd"
  /\ disk' = [disk EXCEPT ![inum[ip[p]]] = st[ip[p]]]
  /\ Unlock(p)
  /\ UnlockDir(p)
  /\ Goto(p, "drop")
  /\ UNCHANGED <<entry, inum, valid, st, fd, queue, panicked, locals>>

-----------------------------------------------------------------------------
(* link: the count first, then the entry, with an undo                     *)

\* Variant: the entry alone is made.
MoreLinksNot(d) == d

MoreLinks(d) == [d EXCEPT !.nlink = @ + 1]

Link(p) ==
  /\ Runs(p) /\ pc[p] = "link"
  /\ Ichange(ip[p], MoreLinks(Loaded(ip[p])))
  /\ Goto(p, "lentry")
  /\ UNCHANGED <<entry, dirLock, fd, queue, locals>>

LinkEntry(p) ==
  /\ Runs(p) /\ pc[p] = "lentry" /\ DirFree(call[p].m)
  /\ IF entry[call[p].m] = 0
       THEN /\ entry' = [entry EXCEPT ![call[p].m] = inum[ip[p]]]
            /\ Goto(p, "drop")
       ELSE Goto(p, "lundo") /\ entry' = entry
  /\ UNCHANGED <<disk, dirLock, cache, fd, queue, panicked, locals>>

LinkUndo(p) ==
  /\ Runs(p) /\ pc[p] = "lundo"
  /\ Ichange(ip[p], [Loaded(ip[p]) EXCEPT !.nlink = @ - 1])
  /\ Goto(p, "drop")
  /\ UNCHANGED <<entry, dirLock, fd, queue, locals>>

-----------------------------------------------------------------------------
(* rename: n is the old name, m the new one                                *)

RenameSource(p) ==
  /\ Runs(p) /\ pc[p] = "rename"
  /\ Ipeek(ip[p])
  /\ Goto(p, "rtarget")
  /\ UNCHANGED <<entry, dirLock, fd, queue, locals>>

RenameTarget(p) ==
  /\ Runs(p) /\ pc[p] = "rtarget" /\ DirFree(call[p].m)
  /\ LET i == entry[call[p].m]
     IN  IF i = 0
           THEN Goto(p, "rlink") /\ UNCHANGED <<inum, valid, ex>>
           ELSE /\ \E s \in Slots : Iget(i, s) /\ ex' = [ex EXCEPT ![p] = s]
                /\ Goto(p, "runlink")
  /\ UNCHANGED <<disk, entry, dirLock, st, locked, fd, queue, panicked, call, ip>>

RenameUnlink(p) ==
  /\ Runs(p) /\ pc[p] = "runlink" /\ DirFree(call[p].m)
  /\ Ipeek(ex[p])
  /\ entry' = [entry EXCEPT ![call[p].m] = 0]
  /\ Goto(p, IF entry[call[p].m] = 0 THEN "rend" ELSE "rdec")
  /\ UNCHANGED <<dirLock, fd, queue, locals>>

RenameDec(p) ==
  /\ Runs(p) /\ pc[p] = "rdec"
  /\ Ichange(ex[p], [Loaded(ex[p]) EXCEPT !.nlink = IF @ = 0 THEN 0 ELSE @ - 1])
  /\ ex' = [ex EXCEPT ![p] = 0]
  /\ Goto(p, "rlink")
  /\ UNCHANGED <<entry, dirLock, fd, queue, call, ip>>

RenameLink(p) ==
  /\ Runs(p) /\ pc[p] = "rlink" /\ DirFree(call[p].m)
  /\ IF entry[call[p].m] = 0
       THEN /\ entry' = [entry EXCEPT ![call[p].m] = inum[ip[p]]]
            /\ Goto(p, "rold")
       ELSE Goto(p, "rend") /\ entry' = entry
  /\ UNCHANGED <<disk, dirLock, cache, fd, queue, panicked, locals>>

RenameOld(p) ==
  /\ Runs(p) /\ pc[p] = "rold" /\ DirFree(call[p].n)
  /\ entry' = [entry EXCEPT ![call[p].n] = 0]
  /\ Goto(p, "rend")
  /\ UNCHANGED <<disk, dirLock, cache, fd, queue, panicked, locals>>

\* end_op may wait for the disk.
RenameEnd(p) ==
  /\ Runs(p) /\ pc[p] = "rend"
  /\ Goto(p, "drop")
  /\ UNCHANGED <<disk, entry, dirLock, cache, fd, queue, panicked, locals>>

-----------------------------------------------------------------------------
(* inode_reaper and maybe_free                                             *)

Pop ==
  /\ Runs(Reaper) /\ pc[Reaper] = "out" /\ queue # <<>>
  /\ ip' = [ip EXCEPT ![Reaper] = Last(queue)]
  /\ queue' = Front(queue)
  /\ Goto(Reaper, "rcount")
  /\ UNCHANGED <<disk, entry, dirLock, cache, fd, panicked, call, ex>>

ReapCount ==
  /\ Runs(Reaper) /\ pc[Reaper] = "rcount"
  /\ Goto(Reaper, IF NobodyElse(ip[Reaper]) THEN "rpeek" ELSE "drop")
  /\ UNCHANGED <<disk, entry, dirLock, cache, fd, queue, panicked, locals>>

Doomed(d) == d.nlink = 0 /\ d.typ # 0

ReapPeek ==
  /\ Runs(Reaper) /\ pc[Reaper] = "rpeek"
  /\ Ipeek(ip[Reaper])
  /\ Goto(Reaper, IF Doomed(Loaded(ip[Reaper])) THEN "rlock" ELSE "drop")
  /\ UNCHANGED <<entry, dirLock, fd, queue, locals>>

\* After begin_op, and again under the lock
ReapLock ==
  /\ Runs(Reaper) /\ pc[Reaper] = "rlock"
  /\ Ilock(Reaper, ip[Reaper])
  /\ Goto(Reaper, "rfree")
  /\ UNCHANGED <<disk, entry, dirLock, fd, queue, locals>>

ReapFree ==
  /\ Runs(Reaper) /\ pc[Reaper] = "rfree"
  /\ LET s == ip[Reaper]
         d == IF Doomed(st[s]) THEN Free ELSE st[s]
     IN  /\ st' = [st EXCEPT ![s] = d]
         /\ disk' = IF Doomed(st[s]) THEN [disk EXCEPT ![inum[s]] = d] ELSE disk
  /\ Unlock(Reaper)
  /\ Goto(Reaper, "drop")
  /\ UNCHANGED <<entry, dirLock, inum, valid, fd, queue, panicked, locals>>

-----------------------------------------------------------------------------

Rename(p) ==
  \/ RenameSource(p) \/ RenameTarget(p) \/ RenameUnlink(p) \/ RenameDec(p)
  \/ RenameLink(p) \/ RenameOld(p) \/ RenameEnd(p)

Step(p) ==
  \/ Walk(p) \/ Open(p) \/ LockDir(p) \/ CreateFound(p) \/ Ialloc(p) \/ Claim(p)
  \/ Fill(p) \/ Enter(p) \/ UnlinkLook(p) \/ UnlinkLock(p) \/ UnlinkEntry(p)
  \/ UnlinkUpdate(p) \/ Link(p) \/ LinkEntry(p) \/ LinkUndo(p) \/ Rename(p)
  \/ Drop(p)

Reap == Pop \/ ReapCount \/ ReapPeek \/ ReapLock \/ ReapFree \/ Drop(Reaper)

Next ==
  \/ \E p \in Procs, n, m \in Names :
       \E c \in {"open", "create", "link", "unlink", "rename"} : Call(p, c, n, m)
  \/ \E p \in Procs : Close(p) \/ Step(p)
  \/ Reap

Spec == Init /\ [][Next]_vars

-----------------------------------------------------------------------------
(* Properties                                                              *)

Dinode == [typ : {0, 1}, nlink : 0..Cardinality(Names) + Cardinality(Procs)]

\* Every variable has its type; a lock is held by the task of a call under way.
TypeOK ==
  /\ disk \in [Inums -> Dinode]
  /\ entry \in [Names -> Inums \cup {0}]
  /\ inum \in [Slots -> Inums \cup {0}]
  /\ valid \in [Slots -> BOOLEAN]
  /\ st \in [Slots -> Dinode]
  /\ {ip, ex} \subseteq [Tasks -> Slots \cup {0}]
  /\ \A s \in Slots : locked[s] # None => pc[locked[s]] \in {"udec", "uupd", "rfree"}
  /\ \A d \in DOMAIN dirLock : dirLock[d] # None => pc[dirLock[d]] \notin {"out", "drop"}

\* A slot that is held, loaded and not locked says what the disk says: no
\* iupdate can write stale metadata over the inode of another file; and all
\* holders of an inode share one slot (iget).
SlotIsCurrent ==
  \A s \in Slots : StrongCount(s) > 1 =>
    /\ valid[s] /\ locked[s] = None => st[s] = disk[inum[s]]
    /\ \A r \in Slots : StrongCount(r) > 1 /\ inum[s] = inum[r] => s = r

\* No entry of a directory and no open file refers to an inode that is free,
\* whatever unlink, the reaper and ialloc do meanwhile; the file a process has
\* open stays the one it opened, and no task loads an inode that is free (ilock's
\* assert).
NoUseAfterFree ==
  /\ ~panicked
  /\ \A n \in Names : entry[n] # 0 => disk[entry[n]].typ # 0
  /\ \A p \in Procs : fd[p] # None => /\ inum[fd[p].slot] = fd[p].inum
                                      /\ disk[fd[p].inum].typ # 0

Idling == \A t \in Tasks : pc[t] = "out"

\* Between calls the link count of a file is the number of its names.
LinksAgree ==
  Idling => \A i \in Inums : disk[i].nlink = Cardinality({n \in Names : entry[n] = i})
=============================================================================
