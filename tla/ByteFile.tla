------------------------------ MODULE ByteFile ------------------------------
(***************************************************************************)
(* What the file system promises of the contents of files: a file is an    *)
(* array of bytes, and each write, append and truncate is one step.  A     *)
(* write may be short.  Every file has one open file description, whose    *)
(* offset the processes share.                                             *)
(***************************************************************************)
EXTENDS Integers, Sequences

CONSTANTS Files, Bytes, MaxBytes, MaxWrite, MaxOffset

VARIABLES contents, offset

vars == <<contents, offset>>

\* The array s, cut or extended with zero bytes to length n.
Sized(s, n) == [i \in 1..n |-> IF i <= Len(s) THEN s[i] ELSE 0]

\* The array s with k bytes v at offset o.
Overwritten(s, o, k, v) ==
  [i \in 1..(IF o + k > Len(s) THEN o + k ELSE Len(s)) |->
     IF i \in (o + 1)..(o + k) THEN v ELSE Sized(s, i)[i]]

Init ==
  /\ contents = [f \in Files |-> <<>>]
  /\ offset = [f \in Files |-> 0]

\* k bytes at the shared offset, which moves with them; never past the end.
Write(f, k, v) ==
  /\ offset[f] <= Len(contents[f])
  /\ contents' = [contents EXCEPT ![f] = Overwritten(@, offset[f], k, v)]
  /\ offset' = [offset EXCEPT ![f] = @ + k]

\* k bytes at the end, or at a given place; the offset stays.
AppendTo(f, k, v) ==
  /\ contents' = [contents EXCEPT ![f] = Overwritten(@, Len(@), k, v)]
  /\ UNCHANGED offset

WriteAt(f, o, k, v) ==
  /\ k > 0
  /\ contents' = [contents EXCEPT ![f] = Overwritten(@, o, k, v)]
  /\ UNCHANGED offset

Truncate(f, n) ==
  /\ contents' = [contents EXCEPT ![f] = Sized(@, n)]
  /\ UNCHANGED offset

\* A read moves the offset, at most to the end; a seek puts it anywhere.
Read(f, k) ==
  /\ offset[f] + k <= Len(contents[f])
  /\ offset' = [offset EXCEPT ![f] = @ + k]
  /\ UNCHANGED contents

Seek(f, o) ==
  /\ offset' = [offset EXCEPT ![f] = o]
  /\ UNCHANGED contents

Next ==
  /\ vars' # vars
  /\ \E f \in Files :
       \/ \E k \in 0..MaxWrite, v \in Bytes :
            \/ Write(f, k, v) \/ AppendTo(f, k, v)
            \/ \E o \in 0..MaxBytes : WriteAt(f, o, k, v)
       \/ \E n \in 0..MaxBytes : Truncate(f, n)
       \/ \E k \in 0..MaxBytes : Read(f, k)
       \/ \E o \in 0..MaxOffset : Seek(f, o)

Spec == Init /\ [][Next]_vars
=============================================================================
