------------------------------ MODULE FileData ------------------------------
(***************************************************************************)
(* The contents of files (fs/inode.rs readi, writei, bmap, itrunc_to;      *)
(* fs/bmap.rs) and the calls that work on them (read, write, pwrite,       *)
(* lseek, ftruncate in syscall.rs).  An inode maps a byte to a block       *)
(* through NDIRECT direct addresses, an indirect and a double-indirect     *)
(* block; a missing address is a hole.                                     *)
(*                                                                         *)
(* A block is BSIZE words, and a word has room for a byte or a block       *)
(* number, so an indirect block has BSIZE addresses.  Blocks are as the    *)
(* buffer cache and the log show them.  A call holds the lock of its       *)
(* inode from Lock to the end; what it does to its own file between two    *)
(* uses of the shared bitmap is one step.                                  *)
(***************************************************************************)
EXTENDS Integers, FiniteSets, FiniteSetsExt, SequencesExt

CONSTANTS
  Tasks, Files,
  Mark,         \* the byte each task writes
  NDIRECT, BSIZE,
  SIZE, BPB,    \* blocks of the disk, blocks to a block of the bitmap
  WRITE_CHUNK,
  Calls,        \* the calls of each task: records [f, kind, n, at]
  MaxCalls      \* bound: how many calls each task makes

NDOUBLE_SLOT == NDIRECT + 1
MAXFILE == NDIRECT + BSIZE + BSIZE * BSIZE
MaxBytes == MAXFILE * BSIZE
U32MAX == 2 * MaxBytes  \* all that matters is that offsets go past MaxBytes

ASSUME FileDataAssumption ==
  /\ MaxCalls \in [Tasks -> Nat]
  /\ Mark \in [Tasks -> Nat \ {0}]
  /\ {NDIRECT, BSIZE, SIZE, BPB, WRITE_CHUNK} \subseteq Nat \ {0}
  /\ \A t \in Tasks : \A k \in Calls[t] :
       /\ k.f \in Files
       /\ k.kind \in {"write", "append", "pwrite", "truncate", "read", "seek"}
       /\ k.n \in 0..MaxBytes /\ k.at \in 0..MaxBytes

VARIABLES
  used,      \* the bitmap
  data,      \* contents of the blocks
  ino,       \* the inodes in memory
  dino,      \* the inodes on disk
  off,       \* the offset of the open file description of each file
  pc, op,    \* the call of each task
  left,      \* calls the bound leaves each task
  shown,     \* history: contents of each file when its lock was last released
  full,      \* history: balloc has failed
  panicked

vars == <<used, data, ino, dino, off, pc, op, left, shown, full, panicked>>

Blocks == 0..SIZE-1
Slots == 0..NDOUBLE_SLOT
Words == 0..BSIZE-1
Zeros == [w \in Words |-> 0]

\* What a free block holds is left out of the model.
Junk == [w \in Words |-> -1]

Trunc == {"direct", "single", "double", "last", "tail"}
Locked == {"write", "balloc", "zero", "wdone"} \cup Trunc
PC == {"idle", "lock", "seek"} \cup Locked

NoAddrs == [s \in Slots |-> 0]

\* The locals of a call: its arguments, of writei the offset, the bytes written
\* and wanted, the scan position or the result of balloc, of itrunc_to its copy
\* of the addresses and the subtrees it still has to free.
NoOp ==
  [f |-> CHOOSE f \in Files : TRUE, kind |-> "none", n |-> 0, at |-> 0,
   cur |-> 0, tot |-> 0, want |-> 0, blk |-> 0, addrs |-> NoAddrs, todo |-> <<>>]

Init ==
  /\ used = {0}
  /\ data = [b \in Blocks |-> Junk]
  /\ ino = [f \in Files |-> [addrs |-> NoAddrs, size |-> 0]]
  /\ dino = ino
  /\ off = [f \in Files |-> 0]
  /\ pc = [t \in Tasks |-> "idle"]
  /\ op = [t \in Tasks |-> NoOp]
  /\ left = MaxCalls
  /\ shown = [f \in Files |-> <<>>]
  /\ full = FALSE
  /\ panicked = FALSE

-----------------------------------------------------------------------------
(* The block map.                                                          *)

\* Where the address of block bn of a file is: a slot of the inode, then
\* words of indirect blocks.
Path(bn) ==
  LET o == bn - NDIRECT - BSIZE
  IN  IF bn < NDIRECT THEN <<bn>>
      ELSE IF bn < NDIRECT + BSIZE THEN <<NDIRECT, bn - NDIRECT>>
      ELSE <<NDOUBLE_SLOT, o \div BSIZE, o % BSIZE>>

\* The addresses found along the path to block bn, 0 from the first hole on.
Walk(addrs, bn) ==
  LET p == Path(bn)
      a[k \in 1..Len(p)] ==
        IF k = 1 THEN addrs[p[1]]
        ELSE IF a[k - 1] = 0 THEN 0 ELSE data[a[k - 1]][p[k]]
  IN  a

bmap(addrs, bn) == IF bn >= MAXFILE THEN 0 ELSE Last(Walk(addrs, bn))

\* The bytes readi returns for a buffer of n bytes at offset o: holes are
\* rendered as zeros.
readi(f, o, n) ==
  LET lim == IF o >= ino[f].size THEN 0 ELSE Min({n, ino[f].size - o})
      b == [bn \in (o \div BSIZE)..((o + lim) \div BSIZE) |-> bmap(ino[f].addrs, bn)]
      at(i) == IF b[i \div BSIZE] = 0 THEN 0 ELSE data[b[i \div BSIZE]][i % BSIZE]
  IN  [i \in 1..lim |-> at(o + i - 1)]

Contents(f) == readi(f, 0, ino[f].size)

-----------------------------------------------------------------------------
(* Calls.  A call waits for the inode lock and does its work under it.     *)

Free(f) == \A u \in Tasks : pc[u] \in Locked => op[u].f # f

Goto(t, l) == pc' = [pc EXCEPT ![t] = l]

Return(t) ==
  /\ Goto(t, "idle")
  /\ op' = [op EXCEPT ![t] = NoOp]

\* The lock goes: what the file now holds is what everybody sees.
Unlock(t) == \E f \in {op[t].f} : shown' = [shown EXCEPT ![f] = Contents(f)']

Call(t) ==
  /\ ~panicked /\ pc[t] = "idle" /\ left[t] > 0
  /\ left' = [left EXCEPT ![t] = @ - 1]
  /\ \E k \in Calls[t] :
       op' = [op EXCEPT ![t] = [NoOp EXCEPT !.f = k.f, !.kind = k.kind,
                                            !.n = k.n, !.at = k.at]]
  /\ Goto(t, "lock")
  /\ UNCHANGED <<used, data, ino, dino, off, shown, full, panicked>>

AtLock(t, kinds) ==
  /\ ~panicked /\ pc[t] = "lock"
  /\ op[t].kind \in kinds
  /\ Free(op[t].f)

\* inode_read: the offset moves by what readi returned.
Read(t) ==
  LET f == op[t].f IN
  /\ AtLock(t, {"read"})
  /\ off' = [off EXCEPT ![f] = @ + Len(readi(f, @, op[t].n))]
  /\ Return(t)
  /\ UNCHANGED <<used, data, ino, dino, left, shown, full, panicked>>

\* lseek looks at the size under the lock and at the offset after it.
SeekSize(t) ==
  /\ AtLock(t, {"seek"})
  /\ op' = [op EXCEPT ![t].cur = ino[op[t].f].size]
  /\ Goto(t, "seek")
  /\ UNCHANGED <<used, data, ino, dino, off, left, shown, full, panicked>>

SEEK_SET == 0
SEEK_CUR == 1
SEEK_END == 2

Seek(t) ==
  LET f == op[t].f
      new == op[t].n + (CASE op[t].at = SEEK_SET -> 0
                          [] op[t].at = SEEK_CUR -> off[f]
                          [] op[t].at = SEEK_END -> op[t].cur)
  IN
  /\ ~panicked /\ pc[t] = "seek"
  /\ off' = IF new > U32MAX THEN off ELSE [off EXCEPT ![f] = new]
  /\ Return(t)
  /\ UNCHANGED <<used, data, ino, dino, left, shown, full, panicked>>

\* One transaction of inode_write or sys_pwrite: at most WRITE_CHUNK bytes, at
\* the size, the shared offset or a given one, all looked at under the lock.
\* A shared offset past the end is refused.
LockWrite(t) ==
  LET f == op[t].f
      cur == CASE op[t].kind = "append" -> ino[f].size
               [] op[t].kind = "write" -> off[f]
               [] op[t].kind = "pwrite" -> op[t].at
      chunk == Min({op[t].n, WRITE_CHUNK})
      want == IF cur >= MaxBytes THEN 0 ELSE Min({chunk, MaxBytes - cur})
  IN
  /\ AtLock(t, {"write", "append", "pwrite"})
  /\ IF op[t].kind = "write" /\ cur > ino[f].size
     THEN Return(t)
     ELSE /\ op' = [op EXCEPT ![t].cur = cur, ![t].tot = 0, ![t].want = want]
          /\ Goto(t, IF want = 0 THEN "wdone" ELSE "write")
  /\ UNCHANGED <<used, data, ino, dino, off, left, shown, full, panicked>>

-----------------------------------------------------------------------------
(* writei.                                                                 *)

\* The level at which the path to block bn of f ends in a hole; one past the
\* last if the block is there.
Missing(f, bn) ==
  LET a == Walk(ino[f].addrs, bn)
  IN  Min({k \in DOMAIN a : a[k] = 0} \cup {Len(a) + 1})

Bn(t) == (op[t].cur + op[t].tot) \div BSIZE

\* The bytes of this block that the write covers.
Covered(t) ==
  LET o == (op[t].cur + op[t].tot) % BSIZE
  IN  o .. o + Min({BSIZE - o, op[t].want - op[t].tot}) - 1

\* bmap_or_alloc finds the block: copy the chunk into it.
WriteBlock(t) ==
  LET f == op[t].f
      b == bmap(ino[f].addrs, Bn(t))
      tot == op[t].tot + Cardinality(Covered(t))
  IN
  /\ ~panicked /\ pc[t] = "write" /\ b # 0
  /\ data' = [data EXCEPT ![b] =
                [w \in Words |-> IF w \in Covered(t) THEN Mark[t] ELSE @[w]]]
  /\ op' = [op EXCEPT ![t].tot = tot]
  /\ Goto(t, IF tot = op[t].want THEN "wdone" ELSE "write")
  /\ UNCHANGED <<used, ino, dino, off, left, shown, full, panicked>>

\* bmap_or_alloc finds a hole and calls balloc.
NeedBlock(t) ==
  /\ ~panicked /\ pc[t] = "write" /\ bmap(ino[op[t].f].addrs, Bn(t)) = 0
  /\ op' = [op EXCEPT ![t].blk = 0]
  /\ Goto(t, "balloc")
  /\ UNCHANGED <<used, data, ino, dino, off, left, shown, full, panicked>>

Claim(b) == used \cup {b}

\* balloc claims the first free block of one block of the bitmap under
\* BITMAP_LOCK, or goes on to the next one; at the end writei stops short.
Balloc(t) ==
  LET at == op[t].blk
      free == {b \in Blocks \ used : b \in at .. at + BPB - 1}
  IN
  /\ ~panicked /\ pc[t] = "balloc"
  /\ \/ /\ free # {}
        /\ used' = Claim(Min(free))
        /\ op' = [op EXCEPT ![t].blk = Min(free)]
        /\ Goto(t, "zero")
        /\ UNCHANGED full
     \/ /\ free = {} /\ at + BPB < SIZE
        /\ op' = [op EXCEPT ![t].blk = at + BPB]
        /\ UNCHANGED <<used, pc, full>>
     \/ /\ free = {} /\ at + BPB >= SIZE
        /\ full' = TRUE
        /\ op' = [op EXCEPT ![t].blk = 0]
        /\ Goto(t, "wdone")
        /\ UNCHANGED used
  /\ UNCHANGED <<data, ino, dino, off, left, shown, panicked>>

\* The new block is zeroed and its number stored where the hole was.
Zeroed(b) == [data EXCEPT ![b] = Zeros]

Link(t) ==
  LET f == op[t].f
      b == op[t].blk
      p == Path(Bn(t))
      k == Missing(f, Bn(t))
  IN
  /\ ~panicked /\ pc[t] = "zero"
  /\ IF k = 1
     THEN /\ ino' = [ino EXCEPT ![f].addrs[p[1]] = b]
          /\ data' = Zeroed(b)
     ELSE /\ data' = [Zeroed(b) EXCEPT ![Walk(ino[f].addrs, Bn(t))[k - 1]][p[k]] = b]
          /\ UNCHANGED ino
  /\ op' = [op EXCEPT ![t].blk = 0]
  /\ Goto(t, "write")
  /\ UNCHANGED <<used, dino, off, left, shown, full, panicked>>

\* The end of writei and of the transaction: size, iupdate if anything was
\* written, offset; then the next chunk unless this one was short.
WriteDone(t) ==
  LET f == op[t].f
      tot == op[t].tot
      end == op[t].cur + tot
      chunk == Min({op[t].n, WRITE_CHUNK})
  IN
  /\ ~panicked /\ pc[t] = "wdone"
  /\ IF tot > 0
     THEN /\ ino' = [ino EXCEPT ![f].size = Max({@, end})]
          /\ dino' = [dino EXCEPT ![f] = ino'[f]]
     ELSE UNCHANGED <<ino, dino>>
  /\ off' = IF op[t].kind = "write" THEN [off EXCEPT ![f] = end] ELSE off
  /\ IF tot = chunk /\ op[t].n > chunk
     THEN /\ Goto(t, "lock")
          /\ op' = [op EXCEPT ![t] = [NoOp EXCEPT
                       !.f = f, !.kind = op[t].kind,
                       !.n = op[t].n - chunk, !.at = op[t].at + chunk]]
     ELSE Return(t)
  /\ UNCHANGED <<used, data, left, full, panicked>>
  /\ Unlock(t)

-----------------------------------------------------------------------------
(* itrunc_to.  It works on a copy of the addresses; every stage chooses    *)
(* subtrees to free, which are then freed block by block, an indirect      *)
(* block after what it points to.                                          *)

keep(t) == (op[t].n + BSIZE - 1) \div BSIZE

Monus(a, b) == IF a > b THEN a - b ELSE 0

\* Variant: the first of the addresses is overlooked.
SubtreesAfter(b, k, h) ==
  LET ws == SelectSeq([i \in 1..BSIZE |-> i - 1], LAMBDA w : w > k /\ data[b][w] # 0)
  IN  [i \in DOMAIN ws |-> [root |-> data[b][ws[i]], height |-> h]]

\* The addresses in words w >= k of block b, as subtrees of height h.
Subtrees(b, k, h) ==
  LET ws == SelectSeq([i \in 1..BSIZE |-> i - 1], LAMBDA w : w >= k /\ data[b][w] # 0)
  IN  [i \in DOMAIN ws |-> [root |-> data[b][ws[i]], height |-> h]]

\* Variant: the addresses stay in the block.
TrimmedNot(b, k) == data

\* Block b without the addresses in words w >= k.
Trimmed(b, k) ==
  [data EXCEPT ![b] = [w \in Words |-> IF w >= k THEN 0 ELSE @[w]]]

\* ftruncate, truncate.
LockTruncate(t) ==
  /\ AtLock(t, {"truncate"})
  /\ op' = [op EXCEPT ![t].addrs = ino[op[t].f].addrs]
  /\ Goto(t, "direct")
  /\ UNCHANGED <<used, data, ino, dino, off, left, shown, full, panicked>>

\* The stage is done with what it chose, and so is the one before.
AtStage(t, l) == ~panicked /\ pc[t] = l /\ op[t].todo = <<>>

\* A stage chooses the subtrees `trees', clears slot s of the copy if the whole
\* subtree goes, and d is the new contents of the blocks.
Stage(t, trees, addrs, d, next) ==
  /\ op' = [op EXCEPT ![t].todo = trees, ![t].addrs = addrs]
  /\ data' = d
  /\ Goto(t, next)
  /\ UNCHANGED <<used, ino, dino, off, left, shown, full, panicked>>

TruncDirect(t) ==
  LET a == op[t].addrs
      gone == SelectSeq([i \in 1..NDIRECT |-> i - 1],
                        LAMBDA i : i >= keep(t) /\ a[i] # 0)
  IN
  /\ AtStage(t, "direct")
  /\ Stage(t, [i \in DOMAIN gone |-> [root |-> a[gone[i]], height |-> 0]],
           [s \in Slots |-> IF s < NDIRECT /\ s >= keep(t) THEN 0 ELSE a[s]],
           data, "single")

TruncSingle(t) ==
  LET a == op[t].addrs
      b == a[NDIRECT]
      k == Min({Monus(keep(t), NDIRECT), BSIZE})
  IN
  /\ AtStage(t, "single")
  /\ IF b = 0 THEN Stage(t, <<>>, a, data, "double")
     ELSE IF k = 0 THEN Stage(t, <<[root |-> b, height |-> 1]>>,
                              [a EXCEPT ![NDIRECT] = 0], data, "double")
     ELSE Stage(t, Subtrees(b, k, 0), a, Trimmed(b, k), "double")

\* Blocks kept of the double-indirect range, and leaves kept for them.
diKeep(t) == Monus(keep(t), NDIRECT + BSIZE)
leavesKeep(t) == (diKeep(t) + BSIZE - 1) \div BSIZE

TruncDouble(t) ==
  LET a == op[t].addrs
      b == a[NDOUBLE_SLOT]
  IN
  /\ AtStage(t, "double")
  /\ IF b = 0 THEN Stage(t, <<>>, a, data, "last")
     ELSE IF diKeep(t) = 0
     THEN Stage(t, <<[root |-> b, height |-> 2]>>,
                [a EXCEPT ![NDOUBLE_SLOT] = 0], data, "last")
     ELSE Stage(t, Subtrees(b, leavesKeep(t), 1), a, Trimmed(b, leavesKeep(t)), "last")

\* The last leaf that stays loses its tail.
TruncLast(t) ==
  LET a == op[t].addrs
      root == a[NDOUBLE_SLOT]
      leaf == IF root = 0 \/ leavesKeep(t) = 0 THEN 0
              ELSE data[root][leavesKeep(t) - 1]
      k == diKeep(t) - Monus(leavesKeep(t), 1) * BSIZE
  IN
  /\ AtStage(t, "last")
  /\ IF leaf = 0 \/ k = BSIZE THEN Stage(t, <<>>, a, data, "tail")
     ELSE Stage(t, Subtrees(leaf, k, 0), a, Trimmed(leaf, k), "tail")

\* One bfree, or the look into an indirect block before those below it are
\* freed.  bfree panics if the block is free.
FreeNext(t) ==
  LET h == Head(op[t].todo)
      rest == Tail(op[t].todo)
  IN
  /\ ~panicked /\ pc[t] \in Trunc /\ op[t].todo # <<>>
  /\ IF h.height = 0
     THEN /\ used' = used \ {h.root}
          /\ data' = [data EXCEPT ![h.root] = Junk]
          /\ panicked' = (h.root \notin used)
          /\ op' = [op EXCEPT ![t].todo = rest]
     ELSE /\ op' = [op EXCEPT ![t].todo =
                      Subtrees(h.root, 0, h.height - 1)
                        \o <<[root |-> h.root, height |-> 0]>> \o rest]
          /\ UNCHANGED <<used, data, panicked>>
  /\ UNCHANGED <<ino, dino, off, pc, left, shown, full>>

\* Variant: the bytes past the new end stay.
WipedNot(t) == data

\* The bytes past the new end are wiped from the last block that stays when
\* the file shrinks.
Wiped(t) ==
  LET n == op[t].n
      b == bmap(op[t].addrs, keep(t) - 1)
  IN  IF n < ino[op[t].f].size /\ n % BSIZE > 0 /\ b # 0
      THEN Trimmed(b, n % BSIZE) ELSE data

TruncEnd(t) ==
  LET f == op[t].f IN
  /\ AtStage(t, "tail")
  /\ data' = Wiped(t)
  /\ ino' = [ino EXCEPT ![f] = [addrs |-> op[t].addrs, size |-> op[t].n]]
  /\ dino' = [dino EXCEPT ![f] = ino'[f]]
  /\ Return(t)
  /\ Unlock(t)
  /\ UNCHANGED <<used, off, left, full, panicked>>

-----------------------------------------------------------------------------
\* A file nobody uses is closed, its slot of the inode cache goes to another
\* inode, and it is opened again.
Reopen(f) ==
  /\ ~panicked
  /\ \A t \in Tasks : pc[t] # "idle" => op[t].f # f
  /\ ino' = [ino EXCEPT ![f] = dino[f]]
  /\ off' = [off EXCEPT ![f] = 0]
  /\ UNCHANGED <<used, data, dino, pc, op, left, shown, full, panicked>>

Write(t) == LockWrite(t) \/ WriteBlock(t) \/ NeedBlock(t) \/ Balloc(t) \/ Link(t)
            \/ WriteDone(t)

Truncate(t) == LockTruncate(t) \/ TruncDirect(t) \/ TruncSingle(t) \/ TruncDouble(t)
               \/ TruncLast(t) \/ FreeNext(t) \/ TruncEnd(t)

Next ==
  \/ \E t \in Tasks : Call(t) \/ Read(t) \/ SeekSize(t) \/ Seek(t)
                      \/ Write(t) \/ Truncate(t)
  \/ \E f \in Files : Reopen(f)

Spec == Init /\ [][Next]_vars

-----------------------------------------------------------------------------
Addr == Blocks
Inode == [addrs : [Slots -> Addr], size : 0..MaxBytes]

TypeOK ==
  /\ used \subseteq Blocks
  /\ data \in [Blocks -> [Words -> Int]]
  /\ ino \in [Files -> Inode] /\ dino \in [Files -> Inode]
  /\ off \in [Files -> 0..U32MAX]
  /\ pc \in [Tasks -> PC]
  /\ full \in BOOLEAN /\ panicked \in BOOLEAN

\* The references to blocks: where they are, the block they name, and how high
\* the tree below it is.  A file that is being truncated is what itrunc_to's copy
\* and list say; a block that balloc returned belongs to the call.
Truncating(f) == {t \in Tasks : pc[t] \in Trunc /\ op[t].f = f}

Addrs(f) ==
  IF Truncating(f) = {} THEN ino[f].addrs
  ELSE op[CHOOSE t \in Truncating(f) : TRUE].addrs

Roots ==
  {[at |-> <<f, s>>, to |-> Addrs(f)[s], height |-> Monus(s + 1, NDIRECT)] :
     f \in Files, s \in Slots}
  \cup UNION {{[at |-> <<t, i>>, to |-> op[t].todo[i].root,
                height |-> op[t].todo[i].height] : i \in DOMAIN op[t].todo} : t \in Tasks}
  \cup {[at |-> <<t, 0>>, to |-> op[t].blk, height |-> 0] :
          t \in {u \in Tasks : pc[u] = "zero"}}

Named(rs) == {r \in rs : r.to # 0}

Children(rs) ==
  Named({[at |-> <<r.to, w>>, to |-> data[r.to][w], height |-> r.height - 1] :
           r \in {x \in rs : x.height > 0}, w \in Words})

Refs ==
  LET r0 == Named(Roots)
      r1 == Children(r0)
  IN  r0 \cup r1 \cup Children(r1)

\* No block belongs to two files, to two places of one, or to a file and to the
\* free blocks: not while one call is between balloc's claim and its store, or
\* another frees a tree block by block (BITMAP_LOCK, and the order in which
\* itrunc_to clears, reads and frees); so bfree's assert never fires.
OneOwner ==
  /\ ~panicked
  /\ \A r \in Refs : /\ r.to \in used \ {0}
                     /\ \A q \in Refs : q.to = r.to => q = r

\* No block is lost: as long as balloc finds free blocks, every block in use is
\* somewhere in a file.  (On a full disk bmap_or_alloc can leave an indirect
\* block in the inode in memory that no iupdate writes.)
NoLeak == full \/ used \subseteq {r.to : r \in Refs} \cup {0}

\* Files are arrays of bytes: holes read as zeros, a file that shrinks and grows
\* again shows zeros, a write changes the bytes it names and no other byte
\* of any file, and appends do not overlap.
Bytes == INSTANCE ByteFile WITH
  Bytes <- {Mark[t] : t \in Tasks},
  MaxWrite <- WRITE_CHUNK,
  MaxOffset <- U32MAX,
  contents <- shown,
  offset <- off

ImplementsByteFile == Bytes!Spec
=============================================================================
