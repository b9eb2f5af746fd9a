----------------------------- MODULE Coff2Flat -----------------------------
(***************************************************************************)
(* bin/coff2flat.c: sections as in Coff2Noff, written one after the other  *)
(* to a flat file that ends StackSize bytes above the highest address.     *)
(***************************************************************************)
EXTENDS Integers, Sequences

CONSTANTS Inputs, StackSize, FileSize

VARIABLES sections, i, top, pos, out, status

vars == <<sections, i, top, pos, out, status>>

Hole == <<0, 0>>
Blank == <<0, 1>>       \* a byte of the blank word
WordSize == 4

Init ==
    /\ sections \in Inputs
    /\ i = 1 /\ top = 0 /\ pos = 0
    /\ out = [o \in 0 .. FileSize |-> Hole]
    /\ status = "copying"

S == sections[i]
End == S.paddr + S.size

\* The loop: top, and a copy at the current position unless uninitialised.
Copy ==
    /\ status = "copying" /\ i <= Len(sections) /\ (S.short => S.name \in {".bss", ".sbss"})
    /\ top' = IF End > top THEN End ELSE top
    /\ IF S.name \in {".bss", ".sbss"} THEN UNCHANGED <<pos, out>>
       ELSE /\ out' = [o \in DOMAIN out |-> IF o \in pos .. pos + S.size - 1 THEN <<i, o - pos>> ELSE out[o]]
            /\ pos' = pos + S.size
    /\ i' = i + 1
    /\ UNCHANGED <<sections, status>>

\* A wrong magic number, "File is too short" or a Write that fails, as the first
\* one does when the output could not be opened (the test is of fdIn): exit, with
\* the output as it is.
Fails ==
    /\ status = "copying"
    /\ i \in 2 .. Len(sections) => S.name \notin {".bss", ".sbss"}
    /\ status' = "failed"
    /\ UNCHANGED <<sections, i, top, pos, out>>

\* The blank word at top + StackSize - 4.
BlankWord ==
    /\ status = "copying" /\ i > Len(sections)
    /\ pos' = top + StackSize
    /\ out' = [o \in DOMAIN out |-> IF o \in pos' - WordSize .. pos' - 1 THEN Blank ELSE out[o]]
    /\ status' = "done"
    /\ UNCHANGED <<sections, i, top>>

Next == Copy \/ Fails \/ BlankWord

Spec == Init /\ [][Next]_vars

Address(n, k) == sections[n].paddr + k
Adjacent == \A n \in 1 .. Len(sections) - 1 :
                sections[n + 1].paddr = sections[n].paddr + sections[n].size

-----------------------------------------------------------------------------
\* "put a blank word at the end, so we know where the end is" (coff2flat.c): the
\* place of the word comes from the addresses of the sections (top) and that of
\* their bytes from their sizes (pos), and yet, in whatever order the sections
\* come and with whatever gaps, the word lies a stack above every section and
\* each copied byte is still in the file once it is written.
Copied(n) == sections[n].name \notin {".bss", ".sbss"}
BlankWordIsApart ==
    status = "done" =>
        \A n \in 1 .. Len(sections) :
            /\ sections[n].paddr + sections[n].size + StackSize <= pos
            /\ Copied(n) => \A k \in 0 .. sections[n].size - 1 : \E o \in DOMAIN out : out[o] = <<n, k>>

\* If the linker leaves no gaps and puts the uninitialised sections last, the
\* flat file is the memory image.
AdjacentIsImage ==
    status = "done" /\ Adjacent /\ sections # <<>> /\ sections[1].paddr = 0
      /\ (\A n \in 1 .. Len(sections) - 1 : sections[n].name \in {".bss", ".sbss"} =>
             sections[n + 1].name \in {".bss", ".sbss"}) =>
        \A n \in 1 .. Len(sections) : \A k \in 0 .. sections[n].size - 1 :
            Copied(n) => out[Address(n, k)] = <<n, k>>
=============================================================================
