------------------------------ MODULE UserCopy ------------------------------
(***************************************************************************)
(* How system calls move bytes between the kernel and user memory: the     *)
(* loop that fetches a file name (Create, Open, and the buffer of Write)   *)
(* and the loop of Read that stores what it read.  Each byte goes through  *)
(* Machine::ReadMem or WriteMem, which translate the address; with a TLB   *)
(* (the VM build) a miss raises a page fault, whose handler brings the     *)
(* page in, and the failed ReadMem or WriteMem returns FALSE.              *)
(***************************************************************************)
EXTENDS Integers, Sequences

CONSTANTS Byte,         \* 0 is the byte that ends a string; 1 is in it
          Size,         \* user addresses 0 .. Size - 1; beyond lie zeros
          PageSize,
          TLB           \* FALSE: translation by a page table with all pages valid

VARIABLES mem, tlb,     \* user memory; the pages the TLB translates
          op,           \* "user", "fetch" or "store"
          c,            \* the variable the loop reads into
          direc,        \* the user address
          buffer,       \* the kernel's copy
          start, initial    \* ghost: mem when the call began, where the string begins

vars == <<mem, tlb, op, c, direc, buffer, start, initial>>

Pages == 0 .. (Size - 1) \div PageSize
At(m, a) == IF a < Size THEN m[a] ELSE 0
Page(a) == IF a < Size THEN a \div PageSize ELSE Size     \* what lies beyond counts as one page

Init ==
    /\ mem \in [0 .. Size - 1 -> Byte]
    /\ tlb \in (IF TLB THEN SUBSET Pages ELSE {Pages \cup {Size}})
    /\ op = "user" /\ c = 0 /\ direc = 0 /\ buffer = <<>>
    /\ start = mem /\ initial = 0

\* The page fault handler makes room in the TLB and loads the page.
PageFault(a) == \E kept \in SUBSET tlb : tlb' = kept \cup {Page(a)}
Hit(a) == Page(a) \in tlb

\* char name[]; int c = 1; int direc = ReadRegister(4)
BeginFetch ==
    /\ op = "user"
    /\ op' = "fetch" /\ c' = 1 /\ buffer' = <<>>
    /\ \E a \in 0 .. Size - 1 : direc' = a /\ initial' = a
    /\ start' = mem
    /\ UNCHANGED <<mem, tlb>>

\* ReadMem(direc, 1, &c); name[it++] = c; direc++; while (c != 0)
FetchByte ==
    /\ op = "fetch"
    /\ IF Hit(direc) THEN c' = At(mem, direc) /\ UNCHANGED tlb ELSE PageFault(direc) /\ UNCHANGED c
    /\ buffer' = Append(buffer, c')
    /\ direc' = direc + 1
    /\ op' = IF c' = 0 THEN "user" ELSE "fetch"
    /\ UNCHANGED <<mem, start, initial>>

\* Read has filled its buffer from the file.
BeginStore ==
    /\ op = "user"
    /\ \E a \in 0 .. Size - 1 :
          /\ direc' = a /\ initial' = a
          /\ \E n \in 1 .. Size - a : buffer' \in [1 .. n -> Byte]
    /\ op' = "store" /\ start' = mem
    /\ UNCHANGED <<mem, tlb, c>>

\* WriteMem(r4, 1, buffer[i]); ++r4
StoreByte ==
    /\ op = "store"
    /\ IF Hit(direc) THEN mem' = [mem EXCEPT ![direc] = buffer[direc - initial + 1]] /\ UNCHANGED tlb
       ELSE PageFault(direc) /\ UNCHANGED mem
    /\ direc' = direc + 1
    /\ op' = IF direc + 1 = initial + Len(buffer) THEN "user" ELSE "store"
    /\ UNCHANGED <<c, buffer, start, initial>>

Next == BeginFetch \/ FetchByte \/ BeginStore \/ StoreByte

Spec == Init /\ [][Next]_vars

-----------------------------------------------------------------------------
\* syscall.h: 'Open the Nachos file "name"'.  The name the kernel opens, with its
\* final 0, is the string the program passed.
FetchedNameIsTheStringStep ==
    op = "fetch" /\ op' = "user" =>
     /\ \A i \in DOMAIN buffer' : buffer'[i] = At(start, initial + i - 1)
     /\ Len(buffer') > 0 /\ buffer'[Len(buffer')] = 0

\* syscall.h: 'Read "size" bytes from the open file into "buffer"'.  When Read is
\* done its bytes are in user memory, and no other byte has changed.
StoredBytesArriveStep ==
    op = "store" /\ op' = "user" =>
     mem' = [a \in 0 .. Size - 1 |->
               IF a \in initial .. initial + Len(buffer) - 1 THEN buffer[a - initial + 1] ELSE start[a]]
=============================================================================
