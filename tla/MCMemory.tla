------------------------------ MODULE MCMemory ------------------------------
EXTENDS Memory

CONSTANTS p1, p2

\* A program of one page, which cannot be written.
Program == <<[w |-> FALSE, val |-> 5]>>

CallsEach ==
  (p1 :> {"fork", "lazy", "mmap", "munmap", "copyout"})
  @@ (p2 :> {"eager", "shrink", "exec", "exit"})

Marks == (p1 :> 1) @@ (p2 :> 2)

\* States that differ in which frames are used, and in nothing else, are one
\* state to TLC: no operation looks at the number of a frame.
Shape(t) ==
  [root |-> t.root # 0, tab |-> [n \in Nodes |-> t.tab[n] # 0],
   leaf |-> [g \in Pages |->
      <<t.leaf[g].f # 0, t.leaf[g].u, t.leaf[g].w, IF t.leaf[g].u THEN mem[t.leaf[g].f] ELSE 0>>]]

UpToFrames ==
  <<Cardinality(free), Cardinality(lost), [p \in Procs |-> Shape(pt[p])], [p \in Procs |-> tf[p] # 0],
    space, pc,
    [p \in Procs |-> <<Shape(job[p].new), [i \in DOMAIN job[p].todo |-> <<job[p].todo[i].g, job[p].todo[i].val>>],
                       [job[p] EXCEPT !.new = empty, !.todo = <<>>, !.pa = IF @ = 0 THEN 0 ELSE 1]>>],
    OneOwner, NoFrameLeak, TrapPages>>
=============================================================================
