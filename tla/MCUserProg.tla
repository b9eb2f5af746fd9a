----------------------------- MODULE MCUserProg -----------------------------
(***************************************************************************)
(* What a user program is given: processes, memory and system calls.       *)
(* No property relates two of these parts, so a behaviour is a behaviour   *)
(* of one part, which MCInit chooses.  The variables of Processes are      *)
(* there as they are; x1 .. x12 are those of the other parts.              *)
(***************************************************************************)
EXTENDS Processes

CONSTANTS main, child, u1, u2, tty, doc, NoFile, caller, v, Fresh, Junk

VARIABLES part, x1, x2, x3, x4, x5, x6, x7, x8, x9, x10, x11, x12

MCvars == <<vars, part, x1, x2, x3, x4, x5, x6, x7, x8, x9, x10, x11, x12>>

-----------------------------------------------------------------------------
\* As many frames as pages; fewer frames; the first program and one it executes.
OneSpace == {1}
TwoSpaces == {1, 2}
Fits == INSTANCE Paging WITH
    Spaces <- OneSpace, Named <- OneSpace, NumPages <- 4, CodePages <- 1, InitPages <- 0, NumPhysPages <- 4,
    TLBSize <- 3, MaxWrites <- 2,
    current <- x1, pt <- x2, ipt <- x3, tlb <- x4, iter <- x5, memoryMap <- x6, swapMap <- x7,
    mem <- x8, swap <- x9, last <- x10, crashed <- x11, truth <- x12
Full == INSTANCE Paging WITH
    Spaces <- OneSpace, Named <- OneSpace, NumPages <- 4, CodePages <- 1, InitPages <- 0, NumPhysPages <- 2,
    TLBSize <- 2, MaxWrites <- 1,
    current <- x1, pt <- x2, ipt <- x3, tlb <- x4, iter <- x5, memoryMap <- x6, swapMap <- x7,
    mem <- x8, swap <- x9, last <- x10, crashed <- x11, truth <- x12
Two == INSTANCE Paging WITH
    Spaces <- TwoSpaces, Named <- OneSpace, NumPages <- 3, CodePages <- 1, InitPages <- 0, NumPhysPages <- 4,
    TLBSize <- 2, MaxWrites <- 0,
    current <- x1, pt <- x2, ipt <- x3, tlb <- x4, iter <- x5, memoryMap <- x6, swapMap <- x7,
    mem <- x8, swap <- x9, last <- x10, crashed <- x11, truth <- x12

\* Programs around the page boundaries.
ProgramSizes == [code : {1, 8, 9}, init : {0, 3}, uninit : {0, 8}]
Space == INSTANCE AddrSpaces WITH
    PageSize <- 8, NumPhysPages <- 7, StackPages <- 2, MaxSpaces <- 3, Programs <- ProgramSizes,
    memoryMap <- x1, spaces <- x2, mem <- x3, wild <- x4

SemUsers == {u1, u2}
SemValues == {0, 1}
Leftovers == {0, 1}
Semaphores == INSTANCE UserSemaphores WITH
    Thread <- SemUsers, maxSem <- 2, InitialValues <- SemValues, MaxSemaphores <- 3, MaxValue <- 1,
    Usage <- Leftovers,
    marked <- x1, semaforosAbiertos <- x2, usage <- x3, value <- x4, queue <- x5, asleep <- x6,
    register2 <- x7, idOf <- x8

FileUsers == {main, child}
UnixFiles == {tty, doc}
Handles == 0 .. 4
OpenHandles == {3, 4}
Files == INSTANCE OpenFiles WITH
    Thread <- FileUsers, File <- UnixFiles, Tty <- tty, maxArch <- 5, Handle <- Handles,
    Stray <- OpenHandles, Closes <- OpenHandles, MaxOpens <- 2, MaxCalls <- 3,
    exists <- x1, descriptor <- x2, started <- x3, marked <- x4, openFiles <- x5, named <- x6,
    console <- x7, pc <- x8, call <- x9, target <- x10, opens <- x11, made <- x12

\* Translation by a page table, as in a build without a TLB.
Bytes == 0 .. 2
Copying == INSTANCE UserCopy WITH
    Byte <- Bytes, Size <- 3, PageSize <- 2, TLB <- FALSE,
    mem <- x1, tlb <- x2, op <- x3, c <- x4, direc <- x5, buffer <- x6, start <- x7, initial <- x8

Bits == INSTANCE BitMap WITH
    numBits <- 5, BitsInWord <- 3, map <- x1, file <- x2, saved <- x3, result <- x4

Caller == {caller}
Written == {v}
Open == INSTANCE OpenFile WITH
    Threads <- Caller, SectorSize <- 2, FileLength <- 5, Values <- Written, MaxLength <- 5,
    disk <- x1, th <- x2, seekPosition <- x3, content <- x4, into <- x5

ASSUME InstancesAreLegal ==
    /\ Fits!PagingAssumption /\ Full!PagingAssumption
    /\ Two!PagingAssumption /\ Space!AddrSpacesAssumption /\ Files!OpenFilesAssumption
    /\ ProcessesAssumption /\ Bits!BitMapAssumption
    /\ Open!OpenFileAssumption /\ Semaphores!UserSemaphoresAssumption

-----------------------------------------------------------------------------
Unused9 == x9 = 0 /\ x10 = 0 /\ x11 = 0 /\ x12 = 0
Unused6 == x6 = 0 /\ x7 = 0 /\ x8 = 0 /\ Unused9
Unused5 == x5 = 0 /\ Unused6
Unused1 == x1 = 0 /\ x2 = 0 /\ x3 = 0 /\ x4 = 0 /\ Unused5

MCInit ==
    /\ Init
    /\ \/ part = "processes" /\ Unused1
       \/ part = "paging fits" /\ Fits!Init
       \/ part = "paging full" /\ Full!Init
       \/ part = "paging two" /\ Two!Init
       \/ part = "spaces" /\ Space!Init /\ Unused5
       \/ part = "semaphores" /\ Semaphores!Init /\ Unused9
       \/ part = "open files" /\ Files!Init
       \/ part = "copying" /\ Copying!Init /\ Unused9
       \/ part = "bitmap" /\ Bits!Init /\ Unused5
       \/ part = "reading" /\ Open!Init /\ Unused6

Kept1 == UNCHANGED <<part, x1, x2, x3, x4, x5, x6, x7, x8, x9, x10, x11, x12>>
Kept5 == UNCHANGED <<part, x5, x6, x7, x8, x9, x10, x11, x12>>
Kept6 == UNCHANGED <<part, x6, x7, x8, x9, x10, x11, x12>>
Kept9 == UNCHANGED <<part, x9, x10, x11, x12>>

\* The programs of these parts may come to an end, or stop at a bound.
MayStop == {"processes", "paging fits", "paging full", "paging two", "spaces", "semaphores",
            "open files"}
Stop == part \in MayStop /\ UNCHANGED MCvars

MCNext ==
    \/ part = "processes" /\ Next /\ Kept1
    \/ /\ UNCHANGED vars
       /\ \/ part = "paging fits" /\ Fits!Next /\ UNCHANGED part
          \/ part = "paging full" /\ Full!Next /\ UNCHANGED part
          \/ part = "paging two" /\ Two!Next /\ UNCHANGED part
          \/ part = "spaces" /\ Space!Next /\ Kept5
          \/ part = "semaphores" /\ Semaphores!Next /\ Kept9
          \/ part = "open files" /\ Files!Next /\ UNCHANGED part
          \/ part = "copying" /\ Copying!Next /\ Kept9
          \/ part = "bitmap" /\ Bits!Next /\ Kept5
          \/ part = "reading" /\ Open!Next /\ Kept6
    \/ Stop

MCSpec == MCInit /\ [][MCNext]_MCvars

-----------------------------------------------------------------------------
\* Demand paging: while the program fits in memory its pages have frames of
\* their own, the TLB has one translation of a page and every access reaches
\* what the program last wrote there.  When it does not fit, that a page was
\* modified is never forgotten, and across switches to an executed program as
\* well, until that stops Nachos by a page it has no file for, the page that
\* faulted last is in the TLB, so Nachos_PageFault never finds the same page
\* faulting twice in a row ("Ciclo?").
PagingIsTransparent ==
    /\ part = "paging fits" =>
          /\ Fits!TypeOK
          /\ Fits!FramesDisjoint
          /\ Fits!OneTranslation
          /\ Fits!AccessSeesLastWrite
    /\ part = "paging full" => Full!TypeOK /\ Full!DirtyIsTracked /\ Full!NoFaultCycle
    /\ part = "paging two" => Two!NoFaultCycle

\* What one program is given no other is: the frames of every page table are
\* marked in memoryMap, a forked thread shares code and data with its parent and
\* never its stack, and code pages hold their own part of the executable; a
\* semaphore id names the semaphore whose creation returned it; the bit map of
\* open files tells the ids that are open, and the semaphore Console lets one
\* thread at a time transfer, on every path through Read and Write.
ResourcesAreApart ==
    /\ part = "spaces" =>
          /\ Space!TypeOK
          /\ Space!FramesAreMarked
          /\ Space!StackIsPrivate
          /\ Space!CodeIsLoaded
    /\ part = "semaphores" => Semaphores!TableConsistent
    /\ part = "open files" => Files!TableAgrees /\ Files!ConsoleExclusive

\* Each call does exactly what it is asked: WriteAt changes the bytes of its
\* range, ReadAt delivers those of its range; Create, Open and Exec get the name
\* the program passed and Read's bytes arrive in user memory; SemSignal and
\* SemWait never touch a semaphore that left the table; BitMap::Find takes one
\* free number, Mark and Clear change one bit, and FetchFrom brings back what
\* WriteBack saved.
CallsAreExact ==
    /\ [](part = "reading" => Open!TypeOK /\ Open!WriteChangesItsRange)
    /\ [][part = "reading" => Open!ReadIsExactStep]_MCvars
    /\ [][part = "copying" => Copying!FetchedNameIsTheStringStep /\ Copying!StoredBytesArriveStep]_MCvars
    /\ [][part = "semaphores" => Semaphores!DestroyedIsLeftAloneStep]_MCvars
    /\ [][part = "bitmap" =>
             Bits!AllocatesOneStep /\ Bits!OneBitAtATimeStep /\ Bits!FetchRestoresStep]_MCvars
=============================================================================
