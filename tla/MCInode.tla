------------------------------ MODULE MCInode ------------------------------
(* Instances of Inode: two processes and the reaper, two directories.      *)
EXTENDS Inode

CONSTANTS p1, p2, reaper, x, y

HomeUP == [t \in Tasks |-> 0]
DirEach == [n \in Names |-> n]

\* Only one process takes names away.
OneRemover == [p \in Procs |-> IF p = p1 THEN {"link", "unlink", "rename"}
                                         ELSE {"open", "create"}]
\* One renames while the other unlinks.
RenameUnlinkers == [p \in Procs |-> IF p = p1 THEN {"rename"} ELSE {"create", "unlink"}]
=============================================================================
