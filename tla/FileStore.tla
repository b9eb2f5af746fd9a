----------------------------- MODULE FileStore -----------------------------
(***************************************************************************)
(* What the file system promises its callers: a set of named files of      *)
(* fixed size, to which Create adds one file and from which Remove takes   *)
(* one, each at a single instant and neither touching any other file.      *)
(***************************************************************************)
EXTENDS Integers

CONSTANTS Names, Sizes

VARIABLE files  \* the size of every file, Absent for a name without one

Absent == -1

Init == files = [n \in Names |-> Absent]

Create(n, size) ==
    /\ files[n] = Absent
    /\ files' = [files EXCEPT ![n] = size]

Remove(n) ==
    /\ files[n] # Absent
    /\ files' = [files EXCEPT ![n] = Absent]

Next == \E n \in Names : Remove(n) \/ \E size \in Sizes : Create(n, size)

Spec == Init /\ [][Next]_files
=============================================================================
