------------------------------- MODULE Paging -------------------------------
(***************************************************************************)
(* Demand paging with a software-filled TLB, the vm build: the accesses of *)
(* Machine::Translate, Nachos_PageFault, and AddrSpace::MoveraMemoria with *)
(* copiarATLB, buscarVictima, SaveState and RestoreState.                  *)
(*                                                                         *)
(* A page's contents are one value: <<s, p, 0>> is page p of the           *)
(* executable of space s and <<s, p, k>> the k-th value the program wrote. *)
(* Segments are taken to be page aligned.  A TLB entry that was never      *)
(* filled holds whatever page number the allocator left in it.  The        *)
(* inverted table ipt is taken to have its 32 entries (the code allocates  *)
(* one and writes past it).                                                *)
(***************************************************************************)
EXTENDS Integers, FiniteSets

CONSTANTS
    Spaces,         \* address spaces, 1 .. n, each run by one thread
    Named,          \* those that were given the name of their executable: the
                    \* one of StartProcess; NachosExecThread passes none
    NumPages,       \* AddrSpace::numPages, the same for every program
    CodePages,      \* divRoundUp(code.size, PageSize)
    InitPages,      \* divRoundUp(initData.size, PageSize)
    NumPhysPages,
    TLBSize,
    MaxWrites       \* bound: values a program writes to a page

PagingAssumption ==
    /\ Spaces \subseteq Nat \ {0}
    /\ Named # {} /\ Named \subseteq Spaces
    /\ {CodePages, InitPages, MaxWrites} \subseteq Nat
    /\ CodePages + InitPages <= NumPages
    /\ 2 <= TLBSize /\ TLBSize <= NumPhysPages

Pages == 0 .. NumPages - 1
Frames == 0 .. NumPhysPages - 1
Slots == 0 .. 2 * NumPhysPages - 1

Zero == <<0, 0, 0>>
Garbage == <<0, 0, 1>>
FilePage(s, p) == <<s, p, 0>>

VARIABLES
    current,    \* the space of currentThread
    pt,         \* pageTable of each space
    ipt,        \* ipt[f].vpn of each space, -1 when never written
    tlb,        \* machine->tlb
    iter,       \* the global FIFO index into the TLB
    memoryMap,  \* allocated frames
    swapMap,    \* allocated slots of SWAP
    mem,        \* machine->mainMemory, a value per frame
    swap,       \* the SWAP file, a value per slot
    last,       \* the global i of exception.cc: the page that faulted last
    crashed,    \* a failed ASSERT or an access outside an array
    truth       \* history: the value each page of each program should hold

vars == <<current, pt, ipt, tlb, iter, memoryMap, swapMap, mem, swap, last,
          crashed, truth>>

Entry == [physicalPage : -1 .. 2 * NumPhysPages - 1, valid : BOOLEAN,
          use : BOOLEAN, dirty : BOOLEAN, readOnly : BOOLEAN]

TypeOK ==
    /\ current \in Spaces
    /\ pt \in [Spaces -> [Pages -> Entry]]
    /\ tlb \in [0 .. TLBSize - 1 -> [vpn : Pages, e : Entry]]
    /\ iter \in 0 .. TLBSize - 1
    /\ memoryMap \subseteq Frames /\ swapMap \subseteq Slots
    /\ crashed \in BOOLEAN

\* What a program may expect of a page before it writes to it.
Initial(s, p) == IF p < CodePages + InitPages THEN FilePage(s, p) ELSE Zero

Blank == [physicalPage |-> -1, valid |-> FALSE, use |-> FALSE, dirty |-> FALSE,
          readOnly |-> FALSE]

Init ==
    /\ current \in Named
    /\ pt = [s \in Spaces |-> [p \in Pages |-> Blank]]
    /\ ipt = [s \in Spaces |-> [f \in Frames |-> -1]]
    /\ \E left \in [0 .. TLBSize - 1 -> Pages] :
          tlb = [i \in 0 .. TLBSize - 1 |-> [vpn |-> left[i], e |-> Blank]]
    /\ iter = 0
    /\ memoryMap = {} /\ swapMap = {}
    /\ mem = [f \in Frames |-> Zero]
    /\ swap = [w \in Slots |-> Zero]
    /\ last = -1
    /\ crashed = FALSE
    /\ truth = [s \in Spaces |-> [p \in Pages |-> Initial(s, p)]]

-----------------------------------------------------------------------------
(* Machine::Translate with a TLB. *)

Hits(p) == {i \in DOMAIN tlb : tlb[i].e.valid /\ tlb[i].vpn = p}

Hit(p) == CHOOSE i \in Hits(p) : \A j \in Hits(p) : i <= j

\* A load or a store that the TLB translates.  A frame number out of range
\* is a BusErrorException, which ExceptionHandler answers with ASSERT(false).
Access(p, writing) ==
    /\ ~crashed
    /\ Hits(p) # {}
    /\ LET i == Hit(p)
           f == tlb[i].e.physicalPage
           new == <<current, p, truth[current][p][3] + 1>>
       IN  /\ writing => p >= CodePages /\ new[3] <= MaxWrites
           /\ IF f \notin Frames \/ (writing /\ tlb[i].e.readOnly)
              THEN crashed' = TRUE /\ UNCHANGED <<tlb, mem, truth>>
              ELSE /\ tlb' = [tlb EXCEPT ![i].e.use = TRUE,
                                         ![i].e.dirty = @ \/ writing]
                   /\ mem' = IF writing THEN [mem EXCEPT ![f] = new] ELSE mem
                   /\ truth' = IF writing THEN [truth EXCEPT ![current][p] = new]
                                          ELSE truth
                   /\ UNCHANGED crashed
    /\ UNCHANGED <<current, pt, ipt, iter, memoryMap, swapMap, swap, last>>

-----------------------------------------------------------------------------
(* AddrSpace::MoveraMemoria. *)

Crash == crashed' = TRUE /\ UNCHANGED <<pt, ipt, tlb, iter, memoryMap, swapMap, mem, swap>>

\* The last TLB entry for a page: each one overwrites what the earlier set.
LastFor(p) == {i \in DOMAIN tlb : tlb[i].vpn = p /\ \A j \in DOMAIN tlb : tlb[j].vpn = p => j <= i}

\* Mutant: the bits are not copied back.
SyncedNothing(table) == table

\* The page table after the use and dirty bits of the TLB are copied to it.
Synced(table) ==
    [p \in Pages |->
        IF LastFor(p) = {} THEN table[p]
        ELSE LET i == CHOOSE i \in LastFor(p) : TRUE
             IN  [table[p] EXCEPT !.use = tlb[i].e.use, !.dirty = tlb[i].e.dirty]]

\* BitMap::Find, without the marking.
FirstClear(map, all) ==
    IF all \subseteq map THEN -1
    ELSE CHOOSE x \in all \ map : \A y \in all \ map : x <= y

\* buscarVictima: the clock hand starts at frame 1 every time and clears the
\* use bit of each page it passes; a second pass ends at frame 1 itself.
Owner(f) == ipt[current][f]

\* Frames that another space brought in: the victim search reads the page
\* table at index -1 for them, which the model does not follow.
Foreign == {f \in Frames \ {0} : Owner(f) = -1}

Unused(table) == {f \in Frames \ {0} :
                    \/ ~table[Owner(f)].use
                    \/ \E g \in 1 .. f - 1 : Owner(g) = Owner(f)}

VictimFrame(table) ==
    IF Unused(table) = {} THEN 1
    ELSE CHOOSE f \in Unused(table) : \A g \in Unused(table) : f <= g

Passed(table) == IF Unused(table) = {} THEN Frames \ {0}
                 ELSE 1 .. VictimFrame(table) - 1

Cleared(table) ==
    [p \in Pages |-> IF \E f \in Passed(table) : Owner(f) = p
                     THEN [table[p] EXCEPT !.use = FALSE] ELSE table[p]]

\* copiarATLB into the entry iter, after which iter moves on.
IterAfter == (iter + 1) % TLBSize

CopiarATLB(table, p) ==
    /\ tlb' = [tlb EXCEPT ![iter] = [vpn |-> p, e |-> table[p]]]
    /\ iter' = IterAfter

\* The page that leaves the TLB goes to SWAP when it is dirty; the source of
\* the copy is byte pageTable[iter].physicalPage, a page only when that is 0.
SwapOut(table, w) ==
    LET out == tlb[iter].vpn
    IN  [table |-> [table EXCEPT ![out].physicalPage = w, ![out].valid = FALSE],
         map |-> memoryMap \ {tlb[iter].e.physicalPage},
         swap |-> [swap EXCEPT ![w] =
                     IF table[iter].physicalPage = 0 THEN mem[0] ELSE Garbage]]

\* Where the contents of a page come from.
FromSwap(p, e) == p >= CodePages /\ ~e.valid /\ e.dirty
FromFile(p, e) == ~FromSwap(p, e) /\ (p < CodePages \/ p < InitPages)

Loaded(p, table, f, slots) ==
    IF FromSwap(p, table[p]) THEN slots[table[p].physicalPage]
    ELSE IF FromFile(p, table[p]) THEN FilePage(current, p)
    ELSE mem[f]

\* The entry of a page that has just been brought to frame f.
Mapped(p, table, f) ==
    [physicalPage |-> f, valid |-> TRUE, use |-> TRUE,
     dirty |-> FromSwap(p, table[p]), readOnly |-> p < CodePages]

\* The page is brought to frame f; table, map, slots and used are the page
\* table, the memory map, SWAP and its map as left by the choice of f.  Of a
\* space without a name the open of the executable fails, and ReadAt is called
\* through a null pointer.
Bring(p, f, table, map, slots, used) ==
    LET old == table[p].physicalPage
        swapped == FromSwap(p, table[p])
        new == [table EXCEPT ![p] = Mapped(p, table, f)]
    IN  IF \/ f \notin Frames
           \/ swapped /\ old \notin Slots
           \/ FromFile(p, table[p]) /\ current \notin Named
        THEN Crash
        ELSE /\ pt' = [pt EXCEPT ![current] = new]
             /\ CopiarATLB(new, p)
             /\ mem' = [mem EXCEPT ![f] = Loaded(p, table, f, slots)]
             /\ ipt' = [ipt EXCEPT ![current][f] = p]
             /\ memoryMap' = map
             /\ swap' = slots
             /\ swapMap' = IF swapped THEN used \ {old} ELSE used
             /\ UNCHANGED crashed

\* A miss of the TLB for a page the page table has in memory.
MoveraMemoriaValid(p, table) ==
    /\ pt' = [pt EXCEPT ![current] = table]
    /\ CopiarATLB(table, p)
    /\ UNCHANGED <<ipt, memoryMap, swapMap, mem, swap, crashed>>

\* A page that is not in memory, with a free frame ...
MoveraMemoriaFree(p, table) ==
    LET f == FirstClear(memoryMap, Frames)
    IN  /\ f # -1
        /\ Bring(p, f, table, memoryMap \cup {f}, swap, swapMap)

\* ... or without: the victim's frame is reused, and outside the code segment
\* the page leaving the TLB is swapped out if it is dirty.
MoveraMemoriaFull(p, table) ==
    LET victim == table[Owner(VictimFrame(table))].physicalPage
        clear == Cleared(table)
        w == FirstClear(swapMap, Slots)
        so == SwapOut(clear, w)
    IN  /\ memoryMap = Frames
        /\ IF Foreign # {} THEN Crash
           ELSE IF p < CodePages \/ ~clear[tlb[iter].vpn].dirty
           THEN Bring(p, victim, clear, memoryMap, swap, swapMap)
           ELSE IF w = -1 \/ tlb[iter].e.physicalPage \notin Frames
           THEN Crash
           ELSE Bring(p, victim, so.table, so.map, so.swap, swapMap \cup {w})

\* Nachos_PageFault: the same page twice in a row fails ASSERT("Ciclo?").
PageFault(p) ==
    /\ ~crashed
    /\ Hits(p) = {}
    /\ last' = p
    /\ LET table == Synced(pt[current]) IN
       IF last = p
       THEN Crash
       ELSE IF table[p].valid THEN MoveraMemoriaValid(p, table)
            ELSE MoveraMemoriaFree(p, table) \/ MoveraMemoriaFull(p, table)
    /\ UNCHANGED <<current, truth>>

\* A context switch: SaveState of the space that leaves the CPU.  RestoreState
\* of the other one does nothing in this build.
SaveState(table) ==
    [p \in Pages |->
        IF LastFor(p) = {} THEN table[p]
        ELSE LET i == CHOOSE i \in LastFor(p) : TRUE
             IN  [table[p] EXCEPT !.dirty = tlb[i].e.dirty, !.valid = tlb[i].e.valid]]

Switch ==
    /\ ~crashed
    /\ current' \in Spaces \ {current}
    /\ pt' = [pt EXCEPT ![current] = SaveState(pt[current])]
    /\ UNCHANGED <<ipt, tlb, iter, memoryMap, swapMap, mem, swap, last, crashed, truth>>

Next ==
    \/ \E p \in Pages : Access(p, FALSE)
    \/ \E p \in Pages : Access(p, TRUE)
    \/ \E p \in Pages : PageFault(p)
    \/ Switch

Spec == Init /\ [][Next]_vars

-----------------------------------------------------------------------------
(* What the code keeps. *)

\* "Ciclo?" is never reached: a page that has just been brought in stays in
\* the TLB until TLBSize other pages have faulted, so it cannot fault again
\* before another page does.
NoFaultCycle == ~crashed /\ last # -1 => Hits(last) # {}

\* The TLB never holds two translations of one page.
OneTranslation ==
    \A i, j \in DOMAIN tlb :
        tlb[i].e.valid /\ tlb[j].e.valid /\ tlb[i].vpn = tlb[j].vpn => i = j

\* The modified state of a page is never forgotten while it is in memory: the
\* TLB entry or, once that is replaced, the page table says dirty.
DirtyIsTracked ==
    ~crashed =>
    \A p \in Pages :
        truth[current][p][3] > 0 =>
            \/ \E i \in Hits(p) : tlb[i].e.dirty
            \/ Hits(p) = {} /\ pt[current][p].dirty

\* While the program fits in memory the TLB leads every access to the frame
\* that holds what the program last wrote, or the contents it started with.
AccessSeesLastWrite ==
    ~crashed =>
    \A p \in Pages : \A i \in Hits(p) :
        /\ tlb[i].e.physicalPage \in Frames
        /\ mem[tlb[i].e.physicalPage] = truth[current][p]

\* No two pages in memory share a frame.
FramesDisjoint ==
    \A p, q \in Pages :
        p # q /\ pt[current][p].valid /\ pt[current][q].valid
        => pt[current][p].physicalPage # pt[current][q].physicalPage
=============================================================================
