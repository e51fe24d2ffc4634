----------------------------- MODULE MCFileData -----------------------------
EXTENDS FileData

CONSTANTS t1, t2, fx, fy

Marks == (t1 :> 8) @@ (t2 :> 9)

Args(f, k, n, at) == [f |-> f, kind |-> k, n |-> n, at |-> at]

\* The processes share a description of fx; the second also changes the file
\* without it.  Sizes 3 and 7 cut a block in two, 7 in the double-indirect range.
CallsEach ==
  (t1 :> {Args(fx, "write", 3, 0), Args(fx, "read", 1, 0),
          Args(fx, "seek", 0, SEEK_END), Args(fy, "append", 2, 0)})
  @@ (t2 :> {Args(fx, "pwrite", 3, 8), Args(fx, "truncate", 0, 0),
             Args(fx, "truncate", 3, 0), Args(fx, "truncate", 7, 0)})

MaxCallsEach == (t1 :> 2) @@ (t2 :> 3)
=============================================================================
