----------------------------- MODULE AddrSpaces -----------------------------
(***************************************************************************)
(* The address spaces of the userprog build: linear page tables filled     *)
(* when the space is made, by AddrSpace::AddrSpace(OpenFile) for Exec and   *)
(* by AddrSpace::AddrSpace(AddrSpace) for Fork.                            *)
(*                                                                         *)
(* Sizes are in bytes.  The executable is the code segment followed by the *)
(* initialized data; what a frame holds is the program and the offset in   *)
(* that image from which ReadAt filled it.  A constructor runs without     *)
(* giving up the CPU, so it is one step.  Destructors are absent: the only *)
(* delete of a space, in NachosExecThread, is of a null pointer.           *)
(***************************************************************************)
EXTENDS Integers, Sequences, FiniteSets

CONSTANTS
    PageSize, NumPhysPages,
    StackPages,     \* UserStackSize / PageSize, 8 in the code
    Programs,       \* records [code, init, uninit] of segment sizes
    MaxSpaces       \* bound: constructions

AddrSpacesAssumption ==
    /\ {PageSize, NumPhysPages, StackPages, MaxSpaces} \subseteq Nat \ {0}
    /\ NumPhysPages <= PageSize
    /\ Programs \subseteq [code : Nat \ {0}, init : Nat, uninit : Nat]

VARIABLES
    memoryMap,  \* allocated frames
    spaces,     \* the spaces made so far
    mem,        \* what each frame holds
    wild        \* a constructor stored outside the frames of its space

vars == <<memoryMap, spaces, mem, wild>>

Frames == 0 .. NumPhysPages - 1
Zero == [program |-> [code |-> 0, init |-> 0, uninit |-> 0], offset |-> 0]

DivRoundUp(n, s) == (n + s - 1) \div s

NumPages(g) == DivRoundUp(g.code + g.init + g.uninit + StackPages * PageSize, PageSize)

\* ASSERT(numPages <= NumPhysPages)
Fitting == {g \in Programs : NumPages(g) <= NumPhysPages}

TypeOK ==
    /\ memoryMap \subseteq Frames
    /\ Len(spaces) <= MaxSpaces
    /\ \A k \in DOMAIN spaces :
          /\ spaces[k].program \in Fitting
          /\ spaces[k].table \in [0 .. NumPages(spaces[k].program) - 1 -> Frames \cup {-1}]
    /\ wild \in BOOLEAN

Init ==
    /\ memoryMap = {}
    /\ spaces = <<>>
    /\ mem = [f \in Frames |-> Zero]
    /\ wild = FALSE

Free == Frames \ memoryMap

Smaller(f) == {g \in Free : g < f}

\* The frame of the i-th of several calls of memoryMap->Find (i from 0), -1
\* when the map is full.
Find(i) ==
    IF i >= Cardinality(Free) THEN -1
    ELSE CHOOSE f \in Free : Cardinality(Smaller(f)) = i

\* The frames that the calls of Find for a table have marked.
Marked(table) == {table[i] : i \in DOMAIN table} \ {-1}

\* The two loading loops.  Their bounds are the segment sizes divided by the
\* number of pages, and each pass reads PageSize bytes.
CodeLoop(g) == DivRoundUp(g.code, NumPages(g))

DataLoop(g) == DivRoundUp(g.init, NumPages(g))

Offset(g, j) == IF j < CodeLoop(g) THEN PageSize * j
                ELSE g.code + PageSize * (j - CodeLoop(g))

\* Passes that transfer bytes: a read at or past the end of the file does not.
Passes(g) == {j \in 0 .. CodeLoop(g) + DataLoop(g) :
                /\ j < CodeLoop(g) \/ j < DataLoop(g)
                /\ Offset(g, j) < g.code + g.init}

\* AddrSpace::AddrSpace(OpenFile *executable, const char *filename)
NewSpace(g) ==
    LET table == [i \in 0 .. NumPages(g) - 1 |-> Find(i)]
        lands(j) == j < NumPages(g) /\ table[j] # -1
    IN  /\ Len(spaces) < MaxSpaces
        /\ spaces' = Append(spaces, [program |-> g, table |-> table])
        /\ memoryMap' = memoryMap \cup Marked(table)
        /\ mem' = [f \in Frames |->
                     IF \E j \in Passes(g) : lands(j) /\ table[j] = f
                     THEN [program |-> g, offset |->
                              Offset(g, CHOOSE j \in Passes(g) : lands(j) /\ table[j] = f)]
                     ELSE mem[f]]
        /\ wild' = (wild \/ \E j \in Passes(g) : ~lands(j))

\* Mutant: one page of the stack is shared too.
SharedOneMore(n) == n - StackPages + 1

\* AddrSpace::AddrSpace(AddrSpace *addrspace): all pages but the stack's are
\* the parent's, the stack's are new.
SharedPages(n) == n - StackPages

ForkSpace(parent) ==
    LET old == spaces[parent].table
        n == NumPages(spaces[parent].program)
        table == [i \in 0 .. n - 1 |->
                     IF i < SharedPages(n) THEN old[i] ELSE Find(i - SharedPages(n))]
    IN  /\ Len(spaces) < MaxSpaces
        /\ spaces' = Append(spaces, [program |-> spaces[parent].program, table |-> table])
        /\ memoryMap' = memoryMap \cup Marked(table)
        /\ UNCHANGED <<mem, wild>>

Next ==
    \/ \E g \in Fitting : NewSpace(g)
    \/ \E k \in DOMAIN spaces : ForkSpace(k)

Spec == Init /\ [][Next]_vars

-----------------------------------------------------------------------------
Stack(k) == LET n == NumPages(spaces[k].program)
            IN  {spaces[k].table[i] : i \in n - StackPages .. n - 1} \ {-1}

Reach(k) == {spaces[k].table[i] : i \in DOMAIN spaces[k].table} \ {-1}

\* The stack frames of a thread belong to no other space, however many spaces
\* were made and forked from one another: a forked thread shares code and data
\* with its parent and never its stack.
StackIsPrivate ==
    \A k, l \in DOMAIN spaces : k # l => Stack(k) \cap Reach(l) = {}

\* Every frame a page table names is marked in memoryMap, so that no later
\* space is given it.
FramesAreMarked == \A k \in DOMAIN spaces : Reach(k) \subseteq memoryMap

\* Every page that holds code holds its own part of the executable: although
\* the loop bound divides by the number of pages, it covers the code because
\* the number of pages never exceeds the page size, and neither the data loop
\* nor a later space overwrites it.  (Once a constructor has stored through the
\* frame number -1 of an exhausted map, nothing is claimed.)
CodeIsLoaded ==
    ~wild =>
    \A k \in DOMAIN spaces :
        LET g == spaces[k].program IN
        \A i \in 0 .. DivRoundUp(g.code, PageSize) - 1 :
            spaces[k].table[i] # -1 =>
                mem[spaces[k].table[i]] = [program |-> g, offset |-> PageSize * i]
=============================================================================
