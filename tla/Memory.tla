------------------------------- MODULE Memory -------------------------------
(***************************************************************************)
(* User memory: the frame allocator (kalloc.rs), page tables (pagetable.rs *)
(* of the hardware layer), and what fork, exec, exit, sbrk, mmap, munmap,  *)
(* page faults and the kernel's copies to user buffers do to them          *)
(* (proc.rs, user_vm.rs, elf.rs, syscall.rs).                              *)
(*                                                                         *)
(* Addresses are in units of which PGSIZE make a page.  A process is one   *)
(* thread, so its calls and faults come one after the other; those of      *)
(* different processes share the frames.  An operation that maps several   *)
(* pages does so page by page.                                             *)
(***************************************************************************)
EXTENDS Integers, FiniteSets, FiniteSetsExt, SequencesExt

CONSTANTS
  Procs, Frames,     \* Frames: numbers from 1
  PGSIZE, FAN, LEVELS,
  IMAGE,             \* pages of a program: [w |-> writable, val |-> contents]
  HEAP_MAX,          \* bound: the heap stays below the mapped regions
  MMAP_LOW, MMAP_TOP, STACK_PAGES,
  FILEVAL,           \* contents of the file that is mapped
  Mark,              \* what each process stores
  Calls,             \* bound: the calls each process makes
  Sizes, Stores      \* bounds: arguments of sbrk, pages stored to

STACK_BASE == MMAP_TOP
TRAPFRAME == STACK_BASE + STACK_PAGES
TRAMPOLINE == TRAPFRAME + 1
Pages == 0..TRAMPOLINE

ASSUME MemoryAssumption ==
  /\ Frames \subseteq Nat \ {0} /\ IsFiniteSet(Frames)
  /\ {PGSIZE, FAN, LEVELS, STACK_PAGES} \subseteq Nat \ {0}
  /\ HEAP_MAX \in 0..MMAP_LOW * PGSIZE
  /\ Len(IMAGE) * PGSIZE <= HEAP_MAX
  /\ MMAP_LOW <= MMAP_TOP

VARIABLES
  free,        \* KFRAMES
  mem,         \* contents of the frames
  pt,          \* the page table of each process
  tf,          \* trapframe_pa
  size, vmas, mmap_base,
  pc,          \* "none", "user", "build", "readi" (in a fault), "zombie"
  job,         \* what a process in "build" or "readi" is doing
  lost         \* history: frames that a failed fork left behind

space == <<size, vmas, mmap_base>>
vars == <<free, mem, pt, tf, space, pc, job, lost>>

-----------------------------------------------------------------------------
(* Page tables.  A node is a table below the root: its level and its place *)
(* among the tables of that level.                                         *)

Nodes == UNION {{<<l, g \div FAN^l>> : g \in Pages} : l \in 1..LEVELS-1}

NoPte == [f |-> 0, u |-> FALSE, w |-> FALSE]

empty == [root |-> 0, tab |-> [n \in Nodes |-> 0], leaf |-> [g \in Pages |-> NoPte]]

\* The tables on the way to a page, and of them those walk has to allocate.
Path(g) == [i \in 1..LEVELS-1 |-> <<LEVELS - i, g \div FAN^(LEVELS - i)>>]
Missing(t, g) == SelectSeq(Path(g), LAMBDA n : t.tab[n] = 0)

\* The frames alloc_zeroed returns, one after the other.  Which frames they are is
\* left to the model: the least ones.
Nth(fr, k) == CHOOSE x \in fr : Cardinality({y \in fr : y <= x}) = k

\* walk: tables are allocated from the top until frames run out.
walk(t, fr, g) ==
  LET need == Missing(t, g)
      k == Min({Len(need), Cardinality(fr)})
      new == {need[i] : i \in 1..k}
  IN  [t |-> [t EXCEPT !.tab = [n \in Nodes |->
                 IF n \in new THEN Nth(fr, CHOOSE i \in 1..k : need[i] = n) ELSE @[n]]],
       fr |-> fr \ {Nth(fr, i) : i \in 1..k},
       ok |-> k = Len(need)]

valid(t, g) == t.leaf[g].f # 0

\* map of one page.
map(t, fr, g, pte) ==
  LET r == walk(t, fr, g)
      ok == r.ok /\ ~valid(t, g)
  IN  [t |-> IF ok THEN [r.t EXCEPT !.leaf[g] = pte] ELSE r.t, fr |-> r.fr, ok |-> ok]

unmap(t, S) == [t EXCEPT !.leaf = [g \in Pages |-> IF g \in S THEN NoPte ELSE @[g]]]

\* The frames of the pages S that are mapped.
FramesOf(t, S) == {t.leaf[g].f : g \in S} \ {0}

Tables(t) == ({t.root} \cup {t.tab[n] : n \in Nodes}) \ {0}
UserPages(t) == {g \in Pages : t.leaf[g].u}

\* Variant: every leaf is freed, those of the kernel too.
dropAll(t) == Tables(t) \cup FramesOf(t, Pages)

\* What Drop for PageTable frees.
drop(t) == Tables(t) \cup FramesOf(t, UserPages(t))

-----------------------------------------------------------------------------
(* Requests.                                                               *)

\* Variant: to the page below.
round_down(a) == a \div PGSIZE

round_up(a) == (a + PGSIZE - 1) \div PGSIZE   \* in pages

TRAMPOLINE_FRAME == -1   \* in the kernel's image
URW(f) == [f |-> f, u |-> TRUE, w |-> TRUE]
Kernel(f) == [f |-> f, u |-> FALSE, w |-> FALSE]

\* A page to be mapped: a frame that is there (pte.f # 0), or a new one with
\* the given contents.
Entry(g, pte, val) == [g |-> g, pte |-> pte, val |-> val]

\* Variant: the trap frame is within the user's reach.
KernelEntriesUser(f) ==
  <<Entry(TRAMPOLINE, Kernel(TRAMPOLINE_FRAME), 0), Entry(TRAPFRAME, URW(f), 0)>>

KernelEntries(f) ==
  <<Entry(TRAMPOLINE, Kernel(TRAMPOLINE_FRAME), 0), Entry(TRAPFRAME, Kernel(f), 0)>>

StackPages == STACK_BASE..TRAPFRAME-1

\* The program that exec loads and new_initcode starts with.
ImageEntries(f) ==
  KernelEntries(f)
  \o [i \in DOMAIN IMAGE |-> Entry(i - 1, [f |-> 0, u |-> TRUE, w |-> IMAGE[i].w], IMAGE[i].val)]
  \o [i \in 1..STACK_PAGES |-> Entry(STACK_BASE + i - 1, URW(0), 0)]

\* The job of a process: the table it builds, the pages still to be mapped and
\* the first of them, fork's child, exec's malformed program, the break after
\* sbrk; in a fault on a file, the frame that is being filled and the page.
NoJob == [kind |-> "none", new |-> empty, todo |-> <<>>, from |-> 0,
          child |-> CHOOSE p \in Procs : TRUE, bad |-> FALSE, size |-> 0,
          pa |-> 0, g |-> 0, w |-> FALSE]

alloc == Nth(free, 1)

\* What a free frame holds is left out of the model.
Junk == -2
Forget == mem' = [x \in Frames |-> IF x \in free' THEN Junk ELSE mem[x]]

Init ==
  LET p == CHOOSE p \in Procs : TRUE
      f == [i \in 1..2 |-> Nth(Frames, i)]
  IN
  /\ free = Frames \ {f[1], f[2]}
  /\ mem = [x \in Frames |-> Junk]
  /\ pt = [q \in Procs |-> empty]
  /\ tf = [q \in Procs |-> IF q = p THEN f[1] ELSE 0]
  /\ size = [q \in Procs |-> 0]
  /\ vmas = [q \in Procs |-> {}]
  /\ mmap_base = [q \in Procs |-> MMAP_TOP]
  /\ pc = [q \in Procs |-> IF q = p THEN "build" ELSE "none"]
  /\ job = [q \in Procs |-> IF q = p
              THEN [NoJob EXCEPT !.kind = "exec", !.new = [empty EXCEPT !.root = f[2]],
                                 !.todo = ImageEntries(f[1])]
              ELSE NoJob]
  /\ lost = {}

Calling(p, c) == pc[p] = "user" /\ c \in Calls[p]

Begin(p, j) ==
  /\ pc' = [pc EXCEPT ![p] = "build"]
  /\ job' = [job EXCEPT ![p] = j]

Done(p) ==
  /\ pc' = [pc EXCEPT ![p] = "user"]
  /\ job' = [job EXCEPT ![p] = NoJob]

\* fork: the trap frame, the root, then copies of what is mapped below the break
\* and of the stack.
Fork(p) ==
  LET t == pt[p]
      root == Nth(free, 2)
      copied == SelectSeq([i \in 1..round_up(size[p]) |-> i - 1], LAMBDA g : valid(t, g))
                \o [i \in 1..STACK_PAGES |-> STACK_BASE + i - 1]
  IN
  /\ Calling(p, "fork") /\ Cardinality(free) >= 2
  /\ \E c \in Procs :
       /\ pc[c] = "none" /\ tf[c] = 0
       /\ tf' = [tf EXCEPT ![c] = alloc]
       /\ Begin(p, [NoJob EXCEPT !.kind = "fork", !.child = c,
            !.new = [empty EXCEPT !.root = root],
            !.todo = KernelEntries(alloc) \o [i \in DOMAIN copied |->
               Entry(copied[i], [t.leaf[copied[i]] EXCEPT !.f = 0], mem[t.leaf[copied[i]].f])]])
  /\ free' = free \ {alloc, root}
  /\ UNCHANGED <<mem, pt, space, lost>>

\* exec: the new image is built beside the old one.
Exec(p) ==
  /\ Calling(p, "exec") /\ free # {}
  /\ \E bad \in BOOLEAN :
       Begin(p, [NoJob EXCEPT !.kind = "exec", !.bad = bad,
                   !.new = [empty EXCEPT !.root = alloc], !.todo = ImageEntries(tf[p])])
  /\ free' = free \ {alloc}
  /\ UNCHANGED <<mem, pt, tf, space, lost>>

\* sbrk, and brk, which is sbrk of the difference.
SbrkShrink(p) ==
  /\ Calling(p, "shrink")
  /\ \E n \in Sizes :
       LET S == round_up(size[p] - n)..round_up(size[p])-1 IN
       /\ n <= size[p]
       /\ pt' = [pt EXCEPT ![p] = unmap(@, S)]
       /\ free' = free \cup FramesOf(pt[p], S)
       /\ size' = [size EXCEPT ![p] = @ - n]
  /\ Forget
  /\ UNCHANGED <<tf, vmas, mmap_base, pc, job, lost>>

SbrkLazy(p) ==
  /\ Calling(p, "lazy")
  /\ \E n \in Sizes :
       /\ size[p] + n <= HEAP_MAX
       /\ size' = [size EXCEPT ![p] = @ + n]
  /\ UNCHANGED <<free, mem, pt, tf, vmas, mmap_base, pc, job, lost>>

SbrkEager(p) ==
  /\ Calling(p, "eager")
  /\ \E n \in Sizes :
       LET first == round_up(size[p])
           k == round_up(size[p] + n) - first
       IN
       /\ size[p] + n <= HEAP_MAX
       /\ Begin(p, [NoJob EXCEPT !.kind = "sbrk", !.size = size[p] + n, !.from = first,
                      !.todo = [i \in 1..k |-> Entry(first + i - 1, URW(0), 0)]])
  /\ UNCHANGED <<free, mem, pt, tf, space, lost>>

-----------------------------------------------------------------------------
(* The loop all of them run: allocate a frame, map it.                     *)

\* load_program may reject a bad file before any of its pages or after it: the
\* headers are wrong, or the file too short for a page that has been mapped.
Malformed(p) ==
  job[p].bad /\ Len(job[p].todo) \in STACK_PAGES .. STACK_PAGES + Len(IMAGE)

Building(p) ==
  /\ pc[p] = "build" /\ job[p].todo # <<>>
  /\ job[p].bad => Len(job[p].todo) > STACK_PAGES

\* The table the loop works on.
Table(p) == IF job[p].kind = "sbrk" THEN pt[p] ELSE job[p].new

\* The frame of the entry, and what is free after it is taken.
Target(e) == IF e.pte.f # 0 THEN e.pte.f ELSE alloc
Rest(e) == IF e.pte.f # 0 THEN free ELSE free \ {alloc}

Try(p) ==
  LET e == Head(job[p].todo)
  IN  map(Table(p), Rest(e), e.g, [e.pte EXCEPT !.f = Target(e)])

\* alloc_zeroed finds a frame, or none is needed.
CanTry(p) == Head(job[p].todo).pte.f # 0 \/ free # {}

MapNext(p) ==
  LET e == Head(job[p].todo)
      r == Try(p)
  IN
  /\ Building(p) /\ CanTry(p) /\ r.ok
  /\ free' = r.fr
  /\ mem' = IF e.pte.f = 0 THEN [mem EXCEPT ![alloc] = e.val] ELSE mem
  /\ IF job[p].kind = "sbrk"
     THEN pt' = [pt EXCEPT ![p] = r.t] /\ job' = [job EXCEPT ![p].todo = Tail(@)]
     ELSE job' = [job EXCEPT ![p].todo = Tail(@), ![p].new = r.t] /\ UNCHANGED pt
  /\ UNCHANGED <<tf, space, pc, lost>>

\* Variant: a failed fork keeps the trap frame.
UndoneButFrame(p, t) ==
  IF job[p].kind = "sbrk" THEN FramesOf(t, job[p].from..Head(job[p].todo).g - 1)
  ELSE drop(t)

\* What a failed loop gives back.  sbrk unmaps the pages it has mapped; fork and
\* exec drop the table they built, fork its trap frame too.
Undone(p, t) ==
  IF job[p].kind = "sbrk" THEN FramesOf(t, job[p].from..Head(job[p].todo).g - 1)
  ELSE drop(t) \cup (IF job[p].kind = "fork" THEN {tf[job[p].child]} ELSE {})

Fail(p, t, fr) ==
  /\ free' = fr \cup Undone(p, t)
  /\ pt' = IF job[p].kind = "sbrk"
           THEN [pt EXCEPT ![p] = unmap(t, job[p].from..Head(job[p].todo).g - 1)] ELSE pt
  /\ tf' = IF job[p].kind = "fork" THEN [tf EXCEPT ![job[p].child] = 0] ELSE tf
  /\ Done(p)
  /\ Forget
  /\ UNCHANGED space

NoFrame(p) ==
  /\ Building(p) /\ ~CanTry(p)
  /\ Fail(p, Table(p), free)
  /\ UNCHANGED lost

\* map fails: sbrk, load_program and build_image_from_elf free the frame they
\* had allocated for it, fork_from_inner does not.
MapFails(p) ==
  LET e == Head(job[p].todo)
      r == Try(p)
      new == IF e.pte.f = 0 THEN {alloc} ELSE {}
  IN
  /\ Building(p) /\ CanTry(p) /\ ~r.ok
  /\ IF job[p].kind = "fork"
     THEN Fail(p, r.t, r.fr) /\ lost' = lost \cup new
     ELSE Fail(p, r.t, r.fr \cup new) /\ UNCHANGED lost

BadProgram(p) ==
  /\ pc[p] = "build" /\ Malformed(p)
  /\ Fail(p, job[p].new, free)
  /\ UNCHANGED lost

Loaded(p) == pc[p] = "build" /\ job[p].todo = <<>>

SbrkDone(p) ==
  /\ Loaded(p) /\ job[p].kind = "sbrk"
  /\ size' = [size EXCEPT ![p] = job[p].size]
  /\ Done(p)
  /\ UNCHANGED <<free, mem, pt, tf, vmas, mmap_base, lost>>

\* The child shares neither frames nor mapped regions.
ForkDone(p) ==
  LET c == job[p].child IN
  /\ Loaded(p) /\ job[p].kind = "fork"
  /\ pt' = [pt EXCEPT ![c] = job[p].new]
  /\ size' = [size EXCEPT ![c] = size[p]]
  /\ pc' = [pc EXCEPT ![p] = "user", ![c] = "user"]
  /\ job' = [job EXCEPT ![p] = NoJob]
  /\ UNCHANGED <<free, mem, tf, vmas, mmap_base, lost>>

\* replace_image.
ExecDone(p) ==
  /\ Loaded(p) /\ job[p].kind = "exec"
  /\ pt' = [pt EXCEPT ![p] = job[p].new]
  /\ free' = free \cup drop(pt[p])
  /\ size' = [size EXCEPT ![p] = Len(IMAGE) * PGSIZE]
  /\ vmas' = [vmas EXCEPT ![p] = {}]
  /\ mmap_base' = [mmap_base EXCEPT ![p] = MMAP_TOP]
  /\ Done(p)
  /\ Forget
  /\ UNCHANGED <<tf, lost>>

-----------------------------------------------------------------------------
(* Mapped regions.                                                         *)

Mmap(p) ==
  /\ Calling(p, "mmap")
  /\ \E n \in 1..MMAP_TOP - MMAP_LOW, w, file \in BOOLEAN :
       LET base == mmap_base[p] - n IN
       /\ base >= MMAP_LOW
       /\ mmap_base' = [mmap_base EXCEPT ![p] = base]
       /\ vmas' = [vmas EXCEPT ![p] = @ \cup
                     {[start |-> base, end |-> base + n, w |-> w, file |-> file]}]
  /\ UNCHANGED <<free, mem, pt, tf, size, pc, job, lost>>

\* Regions inside the range go; a region that is cut refuses the call.
Munmap(p) ==
  /\ Calling(p, "munmap")
  /\ \E lo, hi \in MMAP_LOW..MMAP_TOP :
       LET in == {v \in vmas[p] : v.start >= lo /\ v.end <= hi}
           S == UNION {v.start..v.end-1 : v \in in}
       IN
       /\ \A v \in vmas[p] \ in : v.start >= hi \/ v.end <= lo
       /\ in # {}
       /\ vmas' = [vmas EXCEPT ![p] = @ \ in]
       /\ pt' = [pt EXCEPT ![p] = unmap(@, S)]
       /\ free' = free \cup FramesOf(pt[p], S)
  /\ Forget
  /\ UNCHANGED <<tf, size, mmap_base, pc, job, lost>>

-----------------------------------------------------------------------------
(* Loads, stores and page faults.                                          *)

Allowed(t, g, w) == t.leaf[g].u /\ (w => t.leaf[g].w)

\* A store by the process, or by the kernel into a buffer of the process
\* (translate_user_write).
Store(p) ==
  /\ pc[p] = "user"
  /\ \E g \in Stores :
       /\ Allowed(pt[p], g, TRUE)
       /\ mem' = [mem EXCEPT ![pt[p].leaf[g].f] = Mark[p]]
  /\ UNCHANGED <<free, pt, tf, space, pc, job, lost>>

\* sys_exit: the table is dropped at once, the trap frame with the process.
Exit(p, t, fr) ==
  /\ pt' = [pt EXCEPT ![p] = empty]
  /\ free' = fr \cup drop(t)
  /\ pc' = [pc EXCEPT ![p] = "zombie"]
  /\ job' = [job EXCEPT ![p] = NoJob]
  /\ Forget

ExitCall(p) ==
  /\ Calling(p, "exit")
  /\ Exit(p, pt[p], free)
  /\ UNCHANGED <<tf, space, lost>>

VmaOf(p, g) == {v \in vmas[p] : v.start <= g /\ g < v.end}

\* The parent has seen the exit and the process is dropped.
Reap(c) ==
  /\ pc[c] = "zombie"
  /\ pc' = [pc EXCEPT ![c] = "none"]
  /\ tf' = [tf EXCEPT ![c] = 0]
  /\ free' = free \cup {tf[c]}
  /\ size' = [size EXCEPT ![c] = 0]
  /\ vmas' = [vmas EXCEPT ![c] = {}]
  /\ mmap_base' = [mmap_base EXCEPT ![c] = MMAP_TOP]
  /\ UNCHANGED <<mem, pt, job, lost>>

\* The pte of a page that a fault at address va may bring in: heap below the
\* break, then regions.
FaultPte(p, va) ==
  IF va < size[p] THEN {URW(0)}
  ELSE {[f |-> 0, u |-> TRUE, w |-> v.w] : v \in VmaOf(p, va \div PGSIZE)}

OnFile(p, va) == va >= size[p] /\ \E v \in VmaOf(p, va \div PGSIZE) : v.file

\* map gets frame f for page g, or fails: then the frame is given back and the
\* process killed.
MapOrDie(p, g, pte, f, fr, val) ==
  LET r == map(pt[p], fr, g, [pte EXCEPT !.f = f])
  IN  IF r.ok
      THEN /\ pt' = [pt EXCEPT ![p] = r.t]
           /\ free' = r.fr
           /\ mem' = [mem EXCEPT ![f] = val]
           /\ Done(p)
      ELSE Exit(p, r.t, r.fr \cup {f})

\* lazy_map_page_async.  A fault on a page that is mapped is one of permission.
Fault(p) ==
  /\ pc[p] = "user"
  /\ \E g \in Pages, o \in {0, PGSIZE - 1}, w \in BOOLEAN :
       LET va == g * PGSIZE + o
           ptes == FaultPte(p, va)
       IN
       /\ ~Allowed(pt[p], g, w)
       /\ IF ptes = {} \/ valid(pt[p], g) \/ free = {}
          THEN Exit(p, pt[p], free)
          ELSE IF OnFile(p, va)
          THEN /\ free' = free \ {alloc}
               /\ pc' = [pc EXCEPT ![p] = "readi"]
               /\ job' = [job EXCEPT ![p] = [NoJob EXCEPT !.kind = "fault", !.pa = alloc, !.g = g,
                                               !.w = (CHOOSE e \in ptes : TRUE).w]]
               /\ UNCHANGED <<mem, pt>>
          ELSE MapOrDie(p, g, CHOOSE e \in ptes : TRUE, alloc, free \ {alloc}, 0)
  /\ UNCHANGED <<tf, space, lost>>

\* What a page of a region shows: the file is one page long.
RegionVal(v, g) == IF v.file /\ g = v.start THEN FILEVAL ELSE 0

\* readi has filled the frame.
FaultRead(p) ==
  LET g == job[p].g IN
  /\ pc[p] = "readi"
  /\ MapOrDie(p, g, [f |-> 0, u |-> TRUE, w |-> job[p].w], job[p].pa, free,
              RegionVal(CHOOSE v \in VmaOf(p, g) : TRUE, g))
  /\ UNCHANGED <<tf, space, lost>>

\* demand_map_zero_page: a kernel copy meets a page that is not there yet.
DemandMap(p) ==
  /\ Calling(p, "copyout") /\ free # {}
  /\ \E g \in Pages :
       LET vs == {v \in VmaOf(p, g) : ~v.file}
           pte == IF g * PGSIZE < size[p] THEN URW(alloc)
                  ELSE [f |-> alloc, u |-> TRUE, w |-> (CHOOSE v \in vs : TRUE).w]
           r == map(pt[p], free \ {alloc}, g, pte)
       IN
       /\ ~valid(pt[p], g)
       /\ g * PGSIZE < size[p] \/ vs # {}
       /\ pt' = [pt EXCEPT ![p] = r.t]
       /\ free' = IF r.ok THEN r.fr ELSE r.fr \cup {alloc}
       /\ mem' = IF r.ok THEN [mem EXCEPT ![alloc] = 0] ELSE mem
  /\ UNCHANGED <<tf, space, pc, job, lost>>

Next ==
  \E p \in Procs :
    \/ Fork(p) \/ Exec(p) \/ SbrkShrink(p) \/ SbrkLazy(p) \/ SbrkEager(p)
    \/ MapNext(p) \/ NoFrame(p) \/ MapFails(p) \/ BadProgram(p)
    \/ SbrkDone(p) \/ ForkDone(p) \/ ExecDone(p)
    \/ Mmap(p) \/ Munmap(p)
    \/ Store(p) \/ Fault(p) \/ FaultRead(p) \/ DemandMap(p)
    \/ ExitCall(p) \/ Reap(p)

Spec == Init /\ [][Next]_vars

-----------------------------------------------------------------------------
(* Properties.                                                             *)

\* Who has which frame: the free list, trap frames, faults that wait for the
\* file, and the tables, in use or being built.
TableRefs(who, t) ==
  {[at |-> <<who, <<LEVELS, 0>>>>, f |-> t.root]}
  \cup {[at |-> <<who, n>>, f |-> t.tab[n]] : n \in Nodes}
  \cup {[at |-> <<who, <<0, g>>>>, f |-> t.leaf[g].f] : g \in UserPages(t)}

Refs ==
  {r \in {[at |-> <<<<"free", 0>>, <<0, x>>>>, f |-> x] : x \in free}
         \cup {[at |-> <<<<"lost", 0>>, <<0, x>>>>, f |-> x] : x \in lost}
         \cup {[at |-> <<<<"tf", p>>, <<0, 0>>>>, f |-> tf[p]] : p \in Procs}
         \cup {[at |-> <<<<"pa", p>>, <<0, 0>>>>, f |-> job[p].pa] : p \in Procs}
         \cup UNION {TableRefs(<<"pt", p>>, pt[p]) \cup TableRefs(<<"new", p>>, job[p].new) :
                       p \in Procs} : r.f # 0}

\* No frame is in two hands, whichever allocation of a fork, exec, sbrk or fault
\* fails and whatever is undone then: not in two page tables, in a table
\* and on the free list, or user memory and a table or trap frame.
OneOwner == Cardinality(Refs) = Cardinality({r.f : r \in Refs})

\* No frame is forgotten: failed and undone operations, exec and exit give back
\* all they had, but for the frame a fork loses when map has no frame for a table.
NoFrameLeak == Frames \subseteq {r.f : r \in Refs}

\* A process always has what the next trap needs: the trampoline and its own
\* trap frame, out of the user's reach, and its stack.
TrapPages ==
  \A p \in Procs : pc[p] = "user" =>
    /\ pt[p].leaf[TRAPFRAME] = Kernel(tf[p])
    /\ pt[p].leaf[TRAMPOLINE] = Kernel(TRAMPOLINE_FRAME)
    /\ \A g \in StackPages : Allowed(pt[p], g, TRUE)

\* What a process sees in a page: a page that is not mapped yet shows what the
\* fault will put there.
NoPage == -1

View(p, g) ==
  IF pc[p] \in {"none", "zombie"} THEN NoPage
  ELSE IF pt[p].leaf[g].u THEN mem[pt[p].leaf[g].f]
  ELSE IF g * PGSIZE < size[p] THEN 0
  ELSE IF VmaOf(p, g) # {} THEN RegionVal(CHOOSE v \in VmaOf(p, g) : TRUE, g)
  ELSE NoPage

Private == INSTANCE PrivateMemory WITH
  Vals <- {Mark[p] : p \in Procs},
  Inherited <- Pages \ (MMAP_LOW..MMAP_TOP-1),
  Image <- [g \in Pages |-> IF g < Len(IMAGE) THEN IMAGE[g + 1].val
                            ELSE IF g \in StackPages THEN 0 ELSE NoPage],
  ReadOnly <- {g \in Pages : g < Len(IMAGE) /\ ~IMAGE[g + 1].w},
  FilePages <- {FILEVAL},
  view <- [p \in Procs |-> [g \in Pages |-> View(p, g)]]

\* Every process has its memory to itself: lazily mapped or not, copied by fork,
\* rolled back after a failed sbrk or exec.  Faults, failed calls and the calls of
\* other processes leave what it sees alone.
ImplementsPrivateMemory == Private!Spec
=============================================================================
