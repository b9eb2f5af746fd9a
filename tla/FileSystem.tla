----------------------------- MODULE FileSystem -----------------------------
(***************************************************************************)
(* The Nachos file system (filesys/filesys.cc, directory.cc, filehdr.cc)   *)
(* on the synchronous disk: Create, Open and Remove, by any number of      *)
(* threads, with crashes of the machine between any two disk requests.     *)
(*                                                                         *)
(* A thread gives up the CPU in every disk request, so a step is one       *)
(* request together with what the thread computes until the next one.  The *)
(* bitmap file is one sector (NumSectors / BitsInByte bytes).  The         *)
(* directory file is two, and entry Straddle lies across them: its inUse   *)
(* and sector fields end the first sector and its name begins the second.  *)
(* Sizes are in sectors; the content of a data sector is the name of the   *)
(* file through which it was written.                                      *)
(***************************************************************************)
EXTENDS Integers, Sequences, FiniteSets

CONSTANTS
    Threads,
    Names,          \* file names, different in their first 9 characters
    Sizes,          \* sizes passed to Create, in sectors
    NumSectors,
    NumDirEntries,
    Straddle,       \* the entry across the two sectors (the 7th in the code)
    NumDirect,      \* block numbers a header has room for
    None,           \* no name
    RemoveOpen,     \* whether callers remove files that are open
    MaxCrashes      \* bound

ASSUME FileSystemAssumption ==
    /\ {NumSectors, NumDirEntries, NumDirect} \subseteq Nat /\ NumSectors > 5
    /\ Straddle \in 1 .. NumDirEntries
    /\ Sizes \subseteq Nat /\ MaxCrashes \in Nat
    /\ None \notin Names /\ RemoveOpen \in BOOLEAN

VARIABLES
    freeMap,    \* the bitmap file: sectors marked in use
    directory,  \* the directory file
    disk,       \* every other sector: a FileHeader or data
    th,         \* the threads and their copies of the three
    aborted,    \* an ASSERT failed
    overrun,    \* Allocate stored past the end of dataSectors
    crashes,
    victim,     \* history: name whose operation the last crash interrupted
    durable     \* history: the files when the current operation was called

onDisk == <<freeMap, directory, disk>>
vars == <<onDisk, th, aborted, overrun, crashes, victim, durable>>

Sectors == 0 .. NumSectors - 1
Slots == 1 .. NumDirEntries

Header(blocks) == [blocks |-> blocks, data |-> None]
Data(n) == [blocks |-> <<>>, data |-> n]
Blank == Header(<<>>)
Blocks(hdr) == {hdr.blocks[i] : i \in DOMAIN hdr.blocks}
Unused == [inUse |-> FALSE, sector |-> 0, name |-> None]
Empty == [i \in Slots |-> Unused]

\* The headers of the bitmap and of the directory, and their data.
Reserved == 0 .. 4

Idle == [pc |-> "idle", op |-> "none", name |-> None, size |-> 0, dir |-> Empty,
         map |-> {}, hdr |-> Blank, sector |-> -1, file |-> [name |-> None, hdr |-> Blank]]

\* FileSystem::FileSystem(true)
Init ==
    /\ freeMap = Reserved
    /\ directory = Empty
    /\ disk = [s \in Sectors |-> Blank]
    /\ th = [t \in Threads |-> Idle]
    /\ aborted = FALSE /\ overrun = FALSE
    /\ crashes = 0 /\ victim = None
    /\ durable = {}

-----------------------------------------------------------------------------
\* BitMap: the first n clear bits, in the order Find returns them.
NumClear(map) == Cardinality(Sectors \ map)

Find(map, n) ==
    [k \in 1 .. n |-> CHOOSE s \in Sectors \ map :
                         Cardinality({r \in Sectors \ map : r < s}) = k - 1]

\* Directory::FindIndex, Find, Add and Remove, on a table.
FindIndex(dir, n) ==
    LET hits == {i \in Slots : dir[i].inUse /\ dir[i].name = n}
    IN  IF hits = {} THEN 0 ELSE CHOOSE i \in hits : \A j \in hits : i <= j

Sector(dir, n) == IF FindIndex(dir, n) = 0 THEN -1 ELSE dir[FindIndex(dir, n)].sector

\* Mutant: Add takes the first entry, in use or not.
FreeSlotFirst(dir) == 1

FreeSlot(dir) ==
    LET free == {i \in Slots : ~dir[i].inUse}
    IN  IF free = {} THEN 0 ELSE CHOOSE i \in free : \A j \in free : i <= j

Add(dir, n, s) == [dir EXCEPT ![FreeSlot(dir)] = [inUse |-> TRUE, sector |-> s, name |-> n]]

RemoveEntry(dir, n) == [dir EXCEPT ![FindIndex(dir, n)].inUse = FALSE]

\* The directory whose first sector is first's and whose second is second's.
Torn(first, second) ==
    [i \in Slots |->
        IF i < Straddle THEN first[i]
        ELSE IF i > Straddle THEN second[i]
        ELSE [first[i] EXCEPT !.name = second[i].name]]

-----------------------------------------------------------------------------
\* The files a directory lists, as the disk holds them.
Listed(dir) == {n \in Names : Sector(dir, n) # -1}

File(dir, n) == [name |-> n, sector |-> Sector(dir, n), hdr |-> disk[Sector(dir, n)]]

Files(dir) == {File(dir, n) : n \in Listed(dir)}

Goto(t, pc) == th' = [th EXCEPT ![t].pc = pc]

Return(t) == [Idle EXCEPT !.file = th[t].file]

Running == ~aborted /\ ~overrun

\* A call of Create, Open or Remove: directory->FetchFrom has its first sector.
Call(t, op, n, size) ==
    /\ Running /\ th[t].pc = "idle"
    /\ op = "Remove" /\ ~RemoveOpen => \A u \in Threads : th[u].file.name # n
    /\ th' = [th EXCEPT ![t] = [@ EXCEPT !.pc = "fetchDir", !.op = op, !.name = n,
                                   !.size = size, !.dir = Torn(directory, Empty)]]
    /\ durable' = Files(directory)
    /\ victim' = None
    /\ UNCHANGED <<onDisk, aborted, overrun, crashes>>

\* The directory's second sector, and Find.
FetchDirectory(t) ==
    LET me == th[t]
        dir == Torn(me.dir, directory)
        found == Sector(dir, me.name) # -1
    IN  /\ Running /\ me.pc = "fetchDir"
        /\ th' = [th EXCEPT ![t] =
                     IF found = (me.op = "Create") THEN Return(t)
                     ELSE [me EXCEPT !.dir = dir, !.sector = Sector(dir, me.name),
                             !.pc = IF me.op = "Create" THEN "fetchMap" ELSE "fetchHdr"]]
        /\ UNCHANGED <<onDisk, aborted, overrun, crashes, victim, durable>>

\* FileHeader::FetchFrom, in Remove or in the OpenFile constructor.
FetchHeader(t) ==
    LET me == th[t] IN
    /\ Running /\ me.pc = "fetchHdr"
    /\ th' = [th EXCEPT ![t] =
                 IF me.op = "Open"
                 THEN [Idle EXCEPT !.file = [name |-> me.name, hdr |-> disk[me.sector]]]
                 ELSE [me EXCEPT !.hdr = disk[me.sector], !.pc = "fetchMap"]]
    /\ UNCHANGED <<onDisk, aborted, overrun, crashes, victim, durable>>

\* What Create computes once it has the bitmap: the header's sector is found
\* first, then a directory slot, then the blocks.
Fits(map, dir, size) ==
    /\ NumClear(map) > 0
    /\ FreeSlot(dir) # 0
    /\ NumClear(map) - 1 >= size

Allocate(map, size) ==
    [sector |-> Find(map, size + 1)[1], blocks |-> Tail(Find(map, size + 1))]

CreateInMemory(t) ==
    LET me == th[t]
        got == Allocate(freeMap, me.size)
    IN  /\ Running /\ me.pc = "fetchMap" /\ me.op = "Create"
        /\ IF Fits(freeMap, me.dir, me.size)
           THEN /\ th' = [th EXCEPT ![t] =
                             [me EXCEPT !.pc = "writeHdr", !.sector = got.sector,
                                !.hdr = Header(got.blocks),
                                !.dir = Add(me.dir, me.name, got.sector),
                                !.map = freeMap \cup {got.sector} \cup Blocks(got)]]
                /\ overrun' = (me.size > NumDirect)
           ELSE /\ th' = [th EXCEPT ![t] = Return(t)]
                /\ UNCHANGED overrun
        /\ UNCHANGED <<onDisk, aborted, crashes, victim, durable>>

\* Mutant: the sector of the header is not freed.
DeallocatedKeepingHeader(map, hdr, s) == map \ Blocks(hdr)

\* Mutant: the sectors after the header are freed, as if they were the blocks.
DeallocatedOneMore(map, hdr, s) == map \ (s .. s + Len(hdr.blocks) + 1)

\* Deallocate and freeMap->Clear(sector).
Deallocated(map, hdr, s) == (map \ Blocks(hdr)) \ {s}

\* Remove has the bitmap: Deallocate with its ASSERT, Clear and
\* Directory::Remove.
RemoveInMemory(t) ==
    LET me == th[t] IN
    /\ Running /\ me.pc = "fetchMap" /\ me.op = "Remove"
    /\ aborted' = ~(Blocks(me.hdr) \subseteq freeMap)
    /\ th' = [th EXCEPT ![t] = [me EXCEPT !.pc = "writeMap",
                                  !.map = Deallocated(freeMap, me.hdr, me.sector),
                                  !.dir = RemoveEntry(me.dir, me.name)]]
    /\ UNCHANGED <<onDisk, overrun, crashes, victim, durable>>

\* The write-backs: header, directory, bitmap in Create; bitmap, directory in
\* Remove.
WriteHeader(t) ==
    /\ Running /\ th[t].pc = "writeHdr"
    /\ disk' = [disk EXCEPT ![th[t].sector] = th[t].hdr]
    /\ Goto(t, "writeDir1")
    /\ UNCHANGED <<freeMap, directory, aborted, overrun, crashes, victim, durable>>

WriteDirectory1(t) ==
    /\ Running /\ th[t].pc = "writeDir1"
    /\ directory' = Torn(th[t].dir, directory)
    /\ Goto(t, "writeDir2")
    /\ UNCHANGED <<freeMap, disk, aborted, overrun, crashes, victim, durable>>

WriteDirectory2(t) ==
    /\ Running /\ th[t].pc = "writeDir2"
    /\ directory' = Torn(directory, th[t].dir)
    /\ th' = [th EXCEPT ![t] = IF th[t].op = "Create" THEN [@ EXCEPT !.pc = "writeMap"]
                               ELSE Return(t)]
    /\ UNCHANGED <<freeMap, disk, aborted, overrun, crashes, victim, durable>>

WriteMap(t) ==
    /\ Running /\ th[t].pc = "writeMap"
    /\ freeMap' = th[t].map
    /\ th' = [th EXCEPT ![t] = IF th[t].op = "Create" THEN Return(t)
                               ELSE [@ EXCEPT !.pc = "writeDir1"]]
    /\ UNCHANGED <<directory, disk, aborted, overrun, crashes, victim, durable>>

\* OpenFile::Write of the first sector, and ~OpenFile.
Write(t) ==
    LET file == th[t].file IN
    /\ Running /\ th[t].pc = "idle"
    /\ file.name # None /\ file.hdr.blocks # <<>>
    /\ disk' = [disk EXCEPT ![file.hdr.blocks[1]] = Data(file.name)]
    /\ UNCHANGED <<freeMap, directory, th, aborted, overrun, crashes, victim, durable>>

CloseFile(t) ==
    /\ th[t].pc = "idle" /\ th[t].file.name # None
    /\ th' = [th EXCEPT ![t] = Idle]
    /\ UNCHANGED <<onDisk, aborted, overrun, crashes, victim, durable>>

\* Nachos exits in the middle of an operation; FileSystem::FileSystem(false)
\* then opens the two files again.
Crash(t) ==
    /\ Running /\ crashes < MaxCrashes /\ th[t].pc # "idle"
    /\ crashes' = crashes + 1
    /\ victim' = th[t].name
    /\ th' = [u \in Threads |-> Idle]
    /\ UNCHANGED <<onDisk, aborted, overrun, durable>>

Next ==
    \E t \in Threads :
        \/ \E n \in Names : \/ \E size \in Sizes : Call(t, "Create", n, size)
                            \/ Call(t, "Open", n, 0)
                            \/ Call(t, "Remove", n, 0)
        \/ FetchDirectory(t) \/ FetchHeader(t)
        \/ CreateInMemory(t) \/ RemoveInMemory(t)
        \/ WriteHeader(t) \/ WriteDirectory1(t) \/ WriteDirectory2(t) \/ WriteMap(t)
        \/ Write(t) \/ CloseFile(t) \/ Crash(t)

Spec == Init /\ [][Next]_vars

-----------------------------------------------------------------------------
TypeOK ==
    /\ freeMap \subseteq Sectors
    /\ \A i \in Slots : directory[i].sector \in Sectors /\ directory[i].name \in Names \cup {None}
    /\ \A s \in Sectors : Blocks(disk[s]) \subseteq Sectors \ Reserved
    /\ crashes \in 0 .. MaxCrashes

Extent(f) == {f.sector} \cup Blocks(f.hdr)

Quiet == \A t \in Threads : th[t].pc = "idle"

\* Between operations the bitmap is exactly the union of what the listed files
\* occupy and no two files share a sector, whatever sequence of successful and
\* failed Creates and Removes went before: failures discard their copies, and
\* nothing leaks.  The ASSERT of Deallocate (filehdr.cc:65), that the blocks of a
\* file being removed are marked, never stops Nachos.
DiskConsistent ==
    crashes = 0 =>
        /\ TypeOK
        /\ ~aborted
        /\ Quiet =>
            /\ freeMap = Reserved \cup UNION {Extent(f) : f \in Files(directory)}
            /\ \A f, g \in Files(directory) : f # g => Extent(f) \cap Extent(g) = {}

\* The first crash in a Create or Remove takes no other file with it: until the
\* next operation, every file that was there is found under its name with its
\* header and its blocks marked, although directory and bitmap may disagree about
\* the file of the interrupted call and the directory may be half written
\* (filesys.cc:205-208, 282-283).
CrashSparesOthers ==
    crashes = 1 /\ victim # None =>
        \A f \in durable : f.name # victim =>
            f \in Files(directory) /\ Extent(f) \subseteq freeMap

\* Create and Remove act at one instant, the write that completes the
\* directory: the disk is a set of named files at all times.
Settled == IF \E t \in Threads : th[t].pc = "writeDir2" THEN durable ELSE Files(directory)

Stored ==
    [n \in Names |-> LET found == {f \in Settled : f.name = n}
                     IN  IF found = {} THEN -1 ELSE Len((CHOOSE f \in found : TRUE).hdr.blocks)]

Store == INSTANCE FileStore WITH files <- Stored

\* Until a crash, the files are the store of module FileStore: Create adds one
\* file of the size asked for, Remove takes one, each in one disk write, and no
\* other step and no failed call changes what is stored (filesys.cc:174-290).
ImplementsFileStore ==
    /\ Store!Init
    /\ [][crashes' = 0 => [Store!Next]_Stored]_vars
=============================================================================
