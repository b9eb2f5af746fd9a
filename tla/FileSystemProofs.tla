-------------------------- MODULE FileSystemProofs --------------------------
(***************************************************************************)
(* The file system keeps bitmap, directory and headers in agreement, a     *)
(* crash harms only the file of the interrupted call, and Create and       *)
(* Remove implement the store of named files, for any names, sizes and     *)
(* number of sectors and entries (module FileSystem).                      *)
(***************************************************************************)
EXTENDS FileSystemLemmas, TLAPS

\* Create has taken its sectors and its entry in memory, or has failed without
\* a trace (filesys.cc:191-204).
LEMMA CreateInMemoryKeeps ==
  ASSUME NEW t, Threads = {t}, Before, CreateInMemory(t) PROVE Before'
<1>00. /\ victim = None /\ ~aborted /\ freeMap \in SUBSET Sectors /\ directory \in Dir
       /\ disk \in Disk /\ th \in [Threads -> ThreadSet]
       /\ InPhase(th[t], disk, directory, freeMap, durable)
  BY DEF Before, Types
<1>0. PICK me \in ThreadSet : me = th[t]
  BY <1>00
<1>1. PICK old, map : Phase(me, old, map, disk, directory, freeMap, durable)
  BY <1>0, <1>00 DEF InPhase
<1> DEFINE got == Allocate(freeMap, me.size)
           new == [me EXCEPT !.pc = "writeHdr", !.sector = got.sector, !.hdr = Header(got.blocks),
                             !.dir = Add(me.dir, me.name, got.sector),
                             !.map = freeMap \cup {got.sector} \cup Blocks(got)]
<1>2. /\ me.pc = "fetchMap" /\ me.op = "Create"
      /\ th' = [th EXCEPT ![t] = IF Fits(freeMap, me.dir, me.size) THEN new
                                 ELSE [Idle EXCEPT !.file = me.file]]
      /\ durable' = durable /\ victim' = None /\ aborted' = aborted
      /\ freeMap' = freeMap /\ directory' = directory /\ disk' = disk
  BY <1>00, <1>0 DEF CreateInMemory, Return, onDisk
<1>3. /\ directory = old /\ freeMap = map /\ old \in Dir /\ map \in SUBSET Sectors
      /\ Agree(map, old, disk) /\ OpenIsListed(me, old, disk)
      /\ me.size \in Sizes /\ me.dir = old /\ Unlisted(me, old)
      /\ me.name \in Names /\ durable = FilesOn(old, disk)
  BY <1>1, <1>2 DEF Phase, Reading, Writing
<1>4. CASE ~Fits(freeMap, me.dir, me.size)
  <2> DEFINE idle == [Idle EXCEPT !.file = me.file]
  <2>1. idle \in ThreadSet /\ Phase(idle, old, map, disk, old, map, durable)
    BY <1>3, ReturnPhase
  <2>2. th' = [th EXCEPT ![t] = idle]
    BY <1>2, <1>4
  <2> HIDE DEF idle
  <2> QED BY <1>00, <1>2, <1>3, <2>1, <2>2, KeepBefore, Zenon
<1>5. CASE Fits(freeMap, me.dir, me.size)
  <2>0. NumClear(map) > 0 /\ FreeSlot(old) # 0 /\ NumClear(map) - 1 >= me.size
    BY <1>3, <1>5 DEF Fits
  <2>1. /\ got.sector \in Sectors \ map
        /\ got.blocks \in Seq(Sectors \ map) /\ Len(got.blocks) = me.size
        /\ \A i \in 1 .. Len(got.blocks) : got.blocks[i] # got.sector
    <3>1. me.size \in Nat
      BY <1>3, FileSystemAssumption, Zenon
    <3> QED BY <1>00, <1>3, <2>0, <3>1, AllocateFresh, Zenon
  <2>2. th' = [th EXCEPT ![t] = new]
    BY <1>2, <1>5
  <2> HIDE DEF got
  <2>3. Blocks(got) \subseteq Sectors \ map /\ got.sector \notin Blocks(got)
    BY <2>1 DEF Blocks
  <2>4. Reserved \subseteq map
    BY <1>3 DEF Agree
  <2>5. /\ Header(got.blocks) \in HeaderSet /\ Header(got.blocks).blocks = got.blocks
        /\ Blocks(Header(got.blocks)) = Blocks(got)
    <3>1. got.blocks \in Seq(Sectors \ Reserved)
      BY <2>1, <2>4
    <3> QED BY <3>1 DEF Header, HeaderSet, NameOrNone, Blocks
  <2>6. Add(old, me.name, got.sector) \in Dir
    <3>1. FreeSlot(old) \in Slots
      BY <2>0, FreeSlotLeast
    <3> QED BY <1>3, <2>1, <3>1 DEF Add, Dir, Entry, NameOrNone
  <2>7. freeMap \cup {got.sector} \cup Blocks(got) \in SUBSET Sectors
    BY <1>00, <2>1, <2>3
  <2>8. /\ new \in ThreadSet /\ new.pc = "writeHdr" /\ new.sector = got.sector
        /\ new.hdr = Header(got.blocks) /\ new.dir = Add(old, me.name, got.sector)
        /\ new.map = map \cup {got.sector} \cup Blocks(got)
        /\ new.op = me.op /\ new.name = me.name /\ new.size = me.size /\ new.file = me.file
    BY <1>3, <2>1, <2>5, <2>6, <2>7, Zenon DEF ThreadSet
  <2> HIDE DEF new
  <2>9. Creating(new, old, map)
    BY <1>2, <1>3, <2>0, <2>1, <2>3, <2>5, <2>8 DEF Creating, Unlisted
  <2>10. Phase(new, old, map, disk, old, map, durable)
    BY <1>2, <1>3, <2>8, <2>9 DEF Phase, Reading, OpenIsListed
  <2> QED BY <1>00, <1>2, <1>3, <2>2, <2>8, <2>10, KeepBefore, Zenon
<1> QED BY <1>4, <1>5

\* Remove has freed the blocks in memory; the ASSERT of filehdr.cc:65 holds
\* (filesys.cc:275-280).
LEMMA RemoveInMemoryKeeps ==
  ASSUME NEW t, Threads = {t}, Before, RemoveInMemory(t) PROVE Before'
<1>00. /\ victim = None /\ ~aborted /\ freeMap \in SUBSET Sectors /\ directory \in Dir
       /\ disk \in Disk /\ th \in [Threads -> ThreadSet]
       /\ InPhase(th[t], disk, directory, freeMap, durable)
  BY DEF Before, Types
<1>0. PICK me \in ThreadSet : me = th[t]
  BY <1>00
<1>1. PICK old, map : Phase(me, old, map, disk, directory, freeMap, durable)
  BY <1>0, <1>00 DEF InPhase
<1> DEFINE new == [me EXCEPT !.pc = "writeMap", !.map = Deallocated(freeMap, me.hdr, me.sector),
                             !.dir = RemoveEntry(me.dir, me.name)]
<1>2. /\ me.pc = "fetchMap" /\ me.op = "Remove"
      /\ th' = [th EXCEPT ![t] = new]
      /\ aborted' = ~(Blocks(me.hdr) \subseteq freeMap)
      /\ durable' = durable /\ victim' = None
      /\ freeMap' = freeMap /\ directory' = directory /\ disk' = disk
  BY <1>00, <1>0 DEF RemoveInMemory, onDisk
<1>3. /\ directory = old /\ freeMap = map /\ old \in Dir /\ map \in SUBSET Sectors
      /\ Agree(map, old, disk) /\ OpenIsListed(me, old, disk)
      /\ me.dir = old /\ Points(me, old) /\ me.hdr = disk[me.sector]
      /\ me.name \in Names /\ durable = FilesOn(old, disk) /\ me.file.name # me.name
  BY <1>1, <1>2 DEF Phase, Reading, Writing
<1>4. PICK k \in Used(old) : old[k].name = me.name /\ me.sector = old[k].sector
  BY <1>3 DEF Points
<1>5. RemoveEntry(old, me.name) \in Dir /\ Blocks(me.hdr) \subseteq map
  <2>1. RemoveResult(map, old, disk, k)
    BY <1>3, AgreeRemove
  <2> QED BY <1>3, <1>4, <2>1 DEF RemoveResult
<1>6. Deallocated(map, me.hdr, me.sector) \in SUBSET Sectors
  BY <1>3 DEF Deallocated
<1>7. /\ new \in ThreadSet /\ new.pc = "writeMap" /\ new.map = Deallocated(map, me.hdr, me.sector)
      /\ new.dir = RemoveEntry(old, me.name) /\ new.op = me.op /\ new.name = me.name
      /\ new.sector = me.sector /\ new.hdr = me.hdr /\ new.file = me.file
  BY <1>3, <1>5, <1>6, Zenon DEF ThreadSet
<1> HIDE DEF new
<1>8. Removing(new, old, map, disk)
  BY <1>2, <1>3, <1>7 DEF Removing, Points
<1>9. Phase(new, old, map, disk, old, map, durable)
  BY <1>3, <1>7, <1>8 DEF Phase, Reading, OpenIsListed
<1> QED BY <1>00, <1>2, <1>3, <1>5, <1>7, <1>9, KeepBefore, Zenon

\* The new header goes to a sector that no listed file occupies (filesys.cc:205).
LEMMA WriteHeaderKeeps ==
  ASSUME NEW t, Threads = {t}, Before, WriteHeader(t) PROVE Before'
<1>00. /\ victim = None /\ ~aborted /\ freeMap \in SUBSET Sectors /\ directory \in Dir
       /\ disk \in Disk /\ th \in [Threads -> ThreadSet]
       /\ InPhase(th[t], disk, directory, freeMap, durable)
  BY DEF Before, Types
<1>0. PICK me \in ThreadSet : me = th[t]
  BY <1>00
<1>1. PICK old, map : Phase(me, old, map, disk, directory, freeMap, durable)
  BY <1>0, <1>00 DEF InPhase
<1> DEFINE new == [me EXCEPT !.pc = "writeDir1"]
<1>2. /\ me.pc = "writeHdr" /\ th' = [th EXCEPT ![t] = new]
      /\ disk' = [disk EXCEPT ![me.sector] = me.hdr]
      /\ durable' = durable /\ victim' = None /\ aborted' = aborted
      /\ freeMap' = freeMap /\ directory' = directory
  BY <1>00, <1>0 DEF WriteHeader, Goto
<1>3. /\ directory = old /\ freeMap = map /\ old \in Dir /\ map \in SUBSET Sectors
      /\ Agree(map, old, disk) /\ OpenIsListed(me, old, disk) /\ Creating(me, old, map)
      /\ me.name \in Names /\ durable = FilesOn(old, disk)
  BY <1>1, <1>2 DEF Phase, Reading, Writing
<1>4. me.sector \in Sectors \ map /\ me.hdr \in HeaderSet
  BY <1>3 DEF Creating, ThreadSet
<1>5. disk' \in Disk /\ disk'[me.sector] = me.hdr /\ \A s \in Sectors : s # me.sector => disk'[s] = disk[s]
  BY <1>00, <1>2, <1>4 DEF Disk
<1>6. \A i \in Used(old) : old[i].sector \in map /\ old[i].sector \in Sectors
  BY <1>3 DEF Agree, Taken, Dir, Entry, Used
<1>7. \A i \in Used(old) : disk'[old[i].sector] = disk[old[i].sector]
  BY <1>4, <1>5, <1>6
<1>8. Agree(map, old, disk') /\ FilesOn(old, disk') = FilesOn(old, disk)
  BY <1>3, <1>7, AgreeKept
<1>9. /\ new \in ThreadSet /\ new.pc = "writeDir1" /\ new.op = me.op /\ new.name = me.name
      /\ new.size = me.size /\ new.dir = me.dir /\ new.map = me.map /\ new.hdr = me.hdr
      /\ new.sector = me.sector /\ new.file = me.file
  BY DEF ThreadSet
<1> HIDE DEF new
<1>10. Creating(new, old, map) /\ new.op = "Create" /\ OpenIsListed(new, old, disk')
  BY <1>3, <1>7, <1>9 DEF Creating, Unlisted, OpenIsListed
<1>11. Phase(new, old, map, disk', old, map, durable)
  BY <1>3, <1>5, <1>8, <1>9, <1>10 DEF Phase, Reading
<1> QED BY <1>00, <1>2, <1>3, <1>5, <1>9, <1>11, KeepBefore, Zenon

\* Half of the directory is written (filesys.cc:206, 283).
LEMMA WriteDirectory1Keeps ==
  ASSUME NEW t, Threads = {t}, Before, WriteDirectory1(t) PROVE Before'
<1>00. /\ victim = None /\ ~aborted /\ freeMap \in SUBSET Sectors /\ directory \in Dir
       /\ disk \in Disk /\ th \in [Threads -> ThreadSet]
       /\ InPhase(th[t], disk, directory, freeMap, durable)
  BY DEF Before, Types
<1>0. PICK me \in ThreadSet : me = th[t]
  BY <1>00
<1>1. PICK old, map : Phase(me, old, map, disk, directory, freeMap, durable)
  BY <1>0, <1>00 DEF InPhase
<1> DEFINE new == [me EXCEPT !.pc = "writeDir2"]
<1>2. /\ me.pc = "writeDir1" /\ th' = [th EXCEPT ![t] = new]
      /\ directory' = Torn(me.dir, directory)
      /\ durable' = durable /\ victim' = None /\ aborted' = aborted
      /\ freeMap' = freeMap /\ disk' = disk
  BY <1>00, <1>0 DEF WriteDirectory1, Goto
<1>3. /\ directory = old /\ old \in Dir /\ map \in SUBSET Sectors
      /\ Agree(map, old, disk) /\ OpenIsListed(me, old, disk)
      /\ me.name \in Names /\ durable = FilesOn(old, disk)
      /\ me.op = "Remove" => me.file.name # me.name
      /\ \/ Creating(me, old, map) /\ disk[me.sector] = me.hdr /\ freeMap = map
         \/ Removing(me, old, map, disk) /\ freeMap = me.map
  BY <1>1, <1>2 DEF Phase, Reading, Writing
<1>4. me.dir \in Dir /\ directory' \in Dir
  <2>1. me.dir \in Dir
    BY DEF ThreadSet
  <2> QED BY <1>00, <1>2, <2>1, TornTwice
<1>5. /\ new \in ThreadSet /\ new.pc = "writeDir2" /\ new.op = me.op /\ new.name = me.name
      /\ new.size = me.size /\ new.dir = me.dir /\ new.map = me.map /\ new.hdr = me.hdr
      /\ new.sector = me.sector /\ new.file = me.file
  BY DEF ThreadSet
<1> HIDE DEF new
<1>6. /\ Creating(me, old, map) => Creating(new, old, map)
      /\ Removing(me, old, map, disk) => Removing(new, old, map, disk)
      /\ OpenIsListed(new, old, disk)
  BY <1>3, <1>5 DEF Creating, Removing, Unlisted, Points, OpenIsListed
<1>7. Phase(new, old, map, disk, directory', freeMap, durable)
  BY <1>2, <1>3, <1>5, <1>6 DEF Phase, Writing
<1> QED BY <1>00, <1>2, <1>4, <1>5, <1>7, KeepBefore, Zenon

\* The directory is complete (filesys.cc:206, 283); this ends Remove.
LEMMA WriteDirectory2Keeps ==
  ASSUME NEW t, Threads = {t}, Before, WriteDirectory2(t) PROVE Before'
<1>00. /\ victim = None /\ ~aborted /\ freeMap \in SUBSET Sectors /\ directory \in Dir
       /\ disk \in Disk /\ th \in [Threads -> ThreadSet]
       /\ InPhase(th[t], disk, directory, freeMap, durable)
  BY DEF Before, Types
<1>0. PICK me \in ThreadSet : me = th[t]
  BY <1>00
<1>1. PICK old, map : Phase(me, old, map, disk, directory, freeMap, durable)
  BY <1>0, <1>00 DEF InPhase
<1> DEFINE new == [me EXCEPT !.pc = "writeMap"]
           idle == [Idle EXCEPT !.file = me.file]
<1>2. /\ me.pc = "writeDir2" /\ th' = [th EXCEPT ![t] = IF me.op = "Create" THEN new ELSE idle]
      /\ directory' = Torn(directory, me.dir)
      /\ durable' = durable /\ victim' = None /\ aborted' = aborted
      /\ freeMap' = freeMap /\ disk' = disk
  BY <1>00, <1>0 DEF WriteDirectory2, Return
<1>3. /\ directory = Torn(me.dir, old) /\ old \in Dir /\ map \in SUBSET Sectors
      /\ Agree(map, old, disk) /\ OpenIsListed(me, old, disk)
      /\ me.name \in Names /\ durable = FilesOn(old, disk)
      /\ me.op = "Remove" => me.file.name # me.name
      /\ \/ Creating(me, old, map) /\ disk[me.sector] = me.hdr /\ freeMap = map
         \/ Removing(me, old, map, disk) /\ freeMap = me.map
  BY <1>1, <1>2 DEF Phase, Reading, Writing
<1>4. me.dir \in Dir /\ directory' = me.dir
  <2>1. me.dir \in Dir
    BY DEF ThreadSet
  <2> QED BY <1>2, <1>3, <2>1, TornTwice
<1>5. CASE Creating(me, old, map) /\ disk[me.sector] = me.hdr /\ freeMap = map
  <2>1. /\ new \in ThreadSet /\ new.pc = "writeMap" /\ new.op = me.op /\ new.name = me.name
        /\ new.size = me.size /\ new.dir = me.dir /\ new.map = me.map /\ new.hdr = me.hdr
        /\ new.sector = me.sector /\ new.file = me.file
    BY DEF ThreadSet
  <2>2. me.op = "Create" /\ th' = [th EXCEPT ![t] = new]
    BY <1>2, <1>5 DEF Creating
  <2> HIDE DEF new
  <2>3. Creating(new, old, map) /\ OpenIsListed(new, old, disk)
    BY <1>3, <1>5, <2>1 DEF Creating, Unlisted, OpenIsListed
  <2>4. Phase(new, old, map, disk, directory', freeMap, durable)
    BY <1>3, <1>4, <1>5, <2>1, <2>2, <2>3 DEF Phase, Writing
  <2> QED BY <1>00, <1>2, <1>4, <2>1, <2>2, <2>4, KeepBefore, Zenon
<1>6. CASE Removing(me, old, map, disk) /\ freeMap = me.map
  <2>1. me.op = "Remove" /\ th' = [th EXCEPT ![t] = idle]
    BY <1>2, <1>6 DEF Removing
  <2>2. me.map \in SUBSET Sectors /\ Agree(me.map, me.dir, disk) /\ OpenIsListed(me, me.dir, disk)
    <3>1. NowRemoved(me, old, disk)
      BY <1>3, <1>6, <2>1, RemovedAgrees, Zenon
    <3> QED BY <3>1 DEF NowRemoved
  <2>3. idle \in ThreadSet /\ Phase(idle, me.dir, me.map, disk, me.dir, me.map, durable)
    BY <1>4, <2>2, ReturnPhase
  <2> HIDE DEF idle
  <2>4. Phase(idle, me.dir, me.map, disk', directory', freeMap', durable')
    BY <1>2, <1>4, <1>6, <2>3
  <2> HIDE DEF new
  <2> QED BY <1>00, <1>2, <1>4, <2>1, <2>3, <2>4, KeepBefore, Zenon
<1> QED BY <1>3, <1>5, <1>6

\* The bitmap is written (filesys.cc:207, 282); this ends Create.
LEMMA WriteMapKeeps ==
  ASSUME NEW t, Threads = {t}, Before, WriteMap(t) PROVE Before'
<1>00. /\ victim = None /\ ~aborted /\ freeMap \in SUBSET Sectors /\ directory \in Dir
       /\ disk \in Disk /\ th \in [Threads -> ThreadSet]
       /\ InPhase(th[t], disk, directory, freeMap, durable)
  BY DEF Before, Types
<1>0. PICK me \in ThreadSet : me = th[t]
  BY <1>00
<1>1. PICK old, map : Phase(me, old, map, disk, directory, freeMap, durable)
  BY <1>0, <1>00 DEF InPhase
<1> DEFINE new == [me EXCEPT !.pc = "writeDir1"]
           idle == [Idle EXCEPT !.file = me.file]
<1>2. /\ me.pc = "writeMap" /\ th' = [th EXCEPT ![t] = IF me.op = "Create" THEN idle ELSE new]
      /\ freeMap' = me.map
      /\ durable' = durable /\ victim' = None /\ aborted' = aborted
      /\ directory' = directory /\ disk' = disk
  BY <1>00, <1>0 DEF WriteMap, Return
<1>3. /\ old \in Dir /\ map \in SUBSET Sectors
      /\ Agree(map, old, disk) /\ OpenIsListed(me, old, disk)
      /\ me.name \in Names /\ durable = FilesOn(old, disk)
      /\ me.op = "Remove" => me.file.name # me.name
      /\ \/ Creating(me, old, map) /\ disk[me.sector] = me.hdr /\ directory = me.dir
         \/ Removing(me, old, map, disk) /\ directory = old
  BY <1>1, <1>2 DEF Phase, Reading, Writing
<1>4. me.map \in SUBSET Sectors
  BY DEF ThreadSet
<1>5. CASE Creating(me, old, map) /\ disk[me.sector] = me.hdr /\ directory = me.dir
  <2>1. me.op = "Create" /\ th' = [th EXCEPT ![t] = idle]
    BY <1>2, <1>5 DEF Creating
  <2>2. me.dir \in Dir /\ Agree(me.map, me.dir, disk) /\ OpenIsListed(me, me.dir, disk)
    <3>1. NowCreated(me, old, disk)
      BY <1>3, <1>5, CreatedAgrees, Zenon
    <3> QED BY <3>1 DEF NowCreated
  <2>3. idle \in ThreadSet /\ Phase(idle, me.dir, me.map, disk, me.dir, me.map, durable)
    BY <1>4, <2>2, ReturnPhase
  <2> HIDE DEF idle
  <2> QED BY <1>00, <1>2, <1>4, <1>5, <2>1, <2>3, KeepBefore, Zenon
<1>6. CASE Removing(me, old, map, disk) /\ directory = old
  <2>1. /\ new \in ThreadSet /\ new.pc = "writeDir1" /\ new.op = me.op /\ new.name = me.name
        /\ new.size = me.size /\ new.dir = me.dir /\ new.map = me.map /\ new.hdr = me.hdr
        /\ new.sector = me.sector /\ new.file = me.file
    BY DEF ThreadSet
  <2>2. me.op = "Remove" /\ th' = [th EXCEPT ![t] = new]
    BY <1>2, <1>6 DEF Removing
  <2> HIDE DEF new
  <2>3. Removing(new, old, map, disk) /\ OpenIsListed(new, old, disk)
    BY <1>3, <1>6, <2>1 DEF Removing, Points, OpenIsListed
  <2>4. Phase(new, old, map, disk, old, me.map, durable)
    BY <1>3, <2>1, <2>2, <2>3 DEF Phase, Writing
  <2> QED BY <1>00, <1>2, <1>3, <1>4, <1>6, <2>1, <2>2, <2>4, KeepBefore, Zenon
<1> QED BY <1>3, <1>5, <1>6

\* Data goes to a block of the open file, which is no header (openfile.cc,
\* WriteAt).
LEMMA WriteKeeps ==
  ASSUME NEW t, Threads = {t}, Before, Write(t)
  PROVE  /\ Before'
         /\ th[t].pc = "idle" /\ FilesOn(directory, disk') = FilesOn(directory, disk)
         /\ Agree(freeMap, directory, disk)
<1>00. /\ victim = None /\ ~aborted /\ freeMap \in SUBSET Sectors /\ directory \in Dir
       /\ disk \in Disk /\ th \in [Threads -> ThreadSet]
       /\ InPhase(th[t], disk, directory, freeMap, durable)
  BY DEF Before, Types
<1>0. PICK me \in ThreadSet : me = th[t]
  BY <1>00
<1>1. PICK old, map : Phase(me, old, map, disk, directory, freeMap, durable)
  BY <1>0, <1>00 DEF InPhase
<1> DEFINE b == me.file.hdr.blocks[1]
<1>2. /\ me.pc = "idle" /\ me.file.name # None /\ me.file.hdr.blocks # <<>>
      /\ disk' = [disk EXCEPT ![b] = Data(me.file.name)]
      /\ th' = th /\ durable' = durable /\ victim' = None /\ aborted' = aborted
      /\ freeMap' = freeMap /\ directory' = directory
  BY <1>00, <1>0 DEF Write
<1>3. /\ directory = old /\ freeMap = map /\ old \in Dir /\ map \in SUBSET Sectors
      /\ Agree(map, old, disk) /\ OpenIsListed(me, old, disk)
  BY <1>1, <1>2 DEF Phase, Reading, Writing
<1>4. PICK i \in Used(old) : old[i].name = me.file.name /\ disk[old[i].sector] = me.file.hdr
  BY <1>2, <1>3 DEF OpenIsListed
<1>5. me.file.hdr.blocks \in Seq(Sectors \ Reserved) /\ me.file.name \in NameOrNone
  BY DEF ThreadSet, FileSet, HeaderSet
<1>6. b \in Sectors /\ b \in Blocks(me.file.hdr)
  BY <1>2, <1>5 DEF Blocks
<1> HIDE DEF b
<1>7. Data(me.file.name) \in HeaderSet
  BY <1>5 DEF Data, HeaderSet
<1>8. disk' \in Disk /\ \A s \in Sectors : s # b => disk'[s] = disk[s]
  BY <1>00, <1>2, <1>6, <1>7 DEF Disk
<1>9. \A j \in Used(old) : old[j].sector # b /\ old[j].sector \in Sectors
  <2>1. \A j \in Used(old) : old[j].sector \in Taken(old, disk, j) /\ old[j].sector \in Sectors
    BY <1>3 DEF Taken, Dir, Entry, Used
  <2>2. b \in Taken(old, disk, i) /\ old[i].sector # b
    BY <1>3, <1>4, <1>6 DEF Taken, Agree
  <2>3. \A j \in Used(old) : j # i => Taken(old, disk, i) \cap Taken(old, disk, j) = {}
    BY <1>3 DEF Agree
  <2> QED BY <2>1, <2>2, <2>3
<1>10. \A j \in Used(old) : disk'[old[j].sector] = disk[old[j].sector]
  BY <1>8, <1>9
<1>11. Agree(map, old, disk') /\ FilesOn(old, disk') = FilesOn(old, disk)
  BY <1>3, <1>10, AgreeKept
<1>12. OpenIsListed(me, old, disk')
  BY <1>3, <1>10 DEF OpenIsListed
<1>13. Phase(me, old, map, disk', old, map, durable)
  BY <1>2, <1>3, <1>11, <1>12 DEF Phase
<1>14. th' = [th EXCEPT ![t] = me]
  BY <1>00, <1>0, <1>2
<1>15. Before'
  BY <1>00, <1>2, <1>3, <1>8, <1>13, <1>14, KeepBefore, Zenon
<1> QED BY <1>0, <1>2, <1>3, <1>11, <1>15

\* ~OpenFile.
LEMMA CloseFileKeeps ==
  ASSUME NEW t, Threads = {t}, Before, CloseFile(t) PROVE Before'
<1>00. /\ victim = None /\ ~aborted /\ freeMap \in SUBSET Sectors /\ directory \in Dir
       /\ disk \in Disk /\ th \in [Threads -> ThreadSet]
       /\ InPhase(th[t], disk, directory, freeMap, durable)
  BY DEF Before, Types
<1>0. PICK me \in ThreadSet : me = th[t]
  BY <1>00
<1>1. PICK old, map : Phase(me, old, map, disk, directory, freeMap, durable)
  BY <1>0, <1>00 DEF InPhase
<1>2. /\ me.pc = "idle" /\ th' = [th EXCEPT ![t] = Idle]
      /\ durable' = durable /\ victim' = None /\ aborted' = aborted
      /\ freeMap' = freeMap /\ directory' = directory /\ disk' = disk
  BY <1>00, <1>0 DEF CloseFile, onDisk
<1>3. /\ directory = old /\ freeMap = map /\ old \in Dir /\ map \in SUBSET Sectors
      /\ Agree(map, old, disk)
  BY <1>1, <1>2 DEF Phase, Reading, Writing
<1>4. Idle \in ThreadSet
  <2>1. Empty \in Dir
    BY FileSystemAssumption DEF Empty, Dir, Entry, Unused, NameOrNone, Sectors
  <2>2. Blank \in HeaderSet
    BY DEF Blank, Header, HeaderSet, NameOrNone
  <2> QED BY <2>1, <2>2 DEF Idle, ThreadSet, FileSet, NameOrNone
<1>5. Idle.pc = "idle" /\ Idle.file.name = None
  BY DEF Idle
<1>6. Phase(Idle, old, map, disk, old, map, durable)
  BY <1>3, <1>5 DEF Phase, OpenIsListed
<1> QED BY <1>00, <1>2, <1>3, <1>4, <1>6, KeepBefore, Zenon

\* A crash anywhere in an operation (filesys.cc:137-143) leaves every other file
\* listed with its header, and its sectors marked.
LEMMA CrashSpares ==
  ASSUME NEW t, Threads = {t}, Before, crashes = 0, Crash(t)
  PROVE  CrashSparesOthers' /\ crashes' = 1 /\ \A u \in Threads : th'[u] = Idle
<1>00. /\ victim = None /\ ~aborted /\ freeMap \in SUBSET Sectors /\ directory \in Dir
       /\ disk \in Disk /\ th \in [Threads -> ThreadSet]
       /\ InPhase(th[t], disk, directory, freeMap, durable)
  BY DEF Before, Types
<1>0. PICK me \in ThreadSet : me = th[t]
  BY <1>00
<1>1. PICK old, map : Phase(me, old, map, disk, directory, freeMap, durable)
  BY <1>0, <1>00 DEF InPhase
<1>2. /\ me.pc # "idle" /\ crashes' = 1 /\ victim' = me.name
      /\ th' = [u \in Threads |-> Idle] /\ durable' = durable
      /\ freeMap' = freeMap /\ directory' = directory /\ disk' = disk
  BY <1>0 DEF Crash, onDisk
<1>3. /\ old \in Dir /\ map \in SUBSET Sectors /\ Agree(map, old, disk) /\ OpenIsListed(me, old, disk)
      /\ me.name \in Names /\ durable = FilesOn(old, disk)
      /\ me.op = "Remove" => me.file.name # me.name
  BY <1>1, <1>2 DEF Phase
<1> DEFINE Safe(f) == /\ f.name \in Listed(directory)
                      /\ f = [name |-> f.name, sector |-> Sector(directory, f.name),
                              hdr |-> disk[Sector(directory, f.name)]]
                      /\ Extent(f) \subseteq freeMap
<1>4. \A i \in Used(old) : /\ Extent(FileAt(old, disk, i)) = Taken(old, disk, i)
                           /\ Taken(old, disk, i) \subseteq map
                           /\ FileAt(old, disk, i).name = old[i].name
  BY <1>3 DEF Agree, Extent, FileAt, Taken
<1>5. ASSUME NEW f \in durable, f.name # me.name PROVE Safe(f)
  <2>0. PICK i \in Used(old) : f = FileAt(old, disk, i)
    BY <1>3, <1>5 DEF FilesOn
  <2>1. CASE directory = old /\ freeMap = map
    <3>1. old[i].name \in Names /\ \A j \in Used(old) : old[j].name = old[i].name => i <= j
      BY <1>3, FileSystemAssumption DEF Agree, Used, Slots
    <3>2. Sector(old, old[i].name) = old[i].sector /\ Sector(old, old[i].name) # -1
      BY <1>3, <3>1, FindIndexFirst
    <3>3. old[i].name \in Listed(old)
      BY <3>1, <3>2 DEF Listed
    <3>4. f = [name |-> f.name, sector |-> Sector(old, f.name), hdr |-> disk[Sector(old, f.name)]]
      BY <2>0, <3>2 DEF FileAt
    <3> QED BY <1>4, <2>0, <2>1, <3>3, <3>4
  <2>2. CASE Creating(me, old, map) /\ disk[me.sector] = me.hdr /\ freeMap = map
             /\ directory \in {Torn(me.dir, old), me.dir}
    <3> DEFINE k == FreeSlot(old)
    <3>1. /\ me.dir \in Dir /\ k \in Slots \ Used(old) /\ me.dir[k].name = me.name
          /\ \A j \in Slots : j # k => me.dir[j] = old[j]
      <4>1. NowCreated(me, old, disk)
        BY <1>3, <2>2, CreatedAgrees, Zenon
      <4> QED BY <4>1 DEF NowCreated
    <3> HIDE DEF k
    <3>2. /\ f.name \in Listed(directory)
          /\ f = [name |-> f.name, sector |-> Sector(directory, f.name),
                  hdr |-> disk[Sector(directory, f.name)]]
      <4>1. OneChanged(old, me.dir, k, me.name)
        BY <3>1 DEF OneChanged
      <4>2. ListsOthers(directory, old, disk, me.name)
        BY <1>3, <2>2, <3>1, <4>1, OthersAreListed
      <4> QED BY <1>3, <1>5, <4>2 DEF ListsOthers
    <3> QED BY <1>4, <2>0, <2>2, <3>2
  <2>3. CASE Removing(me, old, map, disk) /\ freeMap = me.map /\ directory \in {old, Torn(me.dir, old)}
    <3>0. me.op = "Remove"
      BY <2>3 DEF Removing
    <3>1. PICK k \in Used(old) :
            /\ old[k].name = me.name /\ me.dir[k].name = me.name
            /\ \A j \in Slots : j # k => me.dir[j] = old[j]
            /\ \A j \in Used(old) : j # k => Taken(old, disk, j) \subseteq me.map
      <4>1. NowRemoved(me, old, disk)
        BY <1>3, <2>3, <3>0, RemovedAgrees, Zenon
      <4> QED BY <4>1 DEF NowRemoved
    <3>2. me.dir \in Dir /\ k \in Slots
      BY DEF ThreadSet, Used
    <3>3. /\ f.name \in Listed(directory)
          /\ f = [name |-> f.name, sector |-> Sector(directory, f.name),
                  hdr |-> disk[Sector(directory, f.name)]]
      <4>1. OneChanged(old, me.dir, k, me.name)
        BY <3>1 DEF OneChanged
      <4>2. ListsOthers(directory, old, disk, me.name)
        BY <1>3, <2>3, <3>2, <4>1, OthersAreListed
      <4> QED BY <1>3, <1>5, <4>2 DEF ListsOthers
    <3>4. i # k
      BY <1>4, <1>5, <2>0, <3>1
    <3> QED BY <1>4, <2>0, <2>3, <3>1, <3>3, <3>4
  <2> QED BY <1>1, <1>2, <2>1, <2>2, <2>3 DEF Phase, Writing
<1>6. \A f \in durable : f.name # me.name => f \in Files(directory) /\ Extent(f) \subseteq freeMap
  BY <1>5 DEF Files, File
<1>7. CrashSparesOthers'
  BY <1>2, <1>6 DEF CrashSparesOthers, Files, File
<1> QED BY <1>2, <1>7

\* Nothing but the next call can happen after a crash.
LEMMA AfterCrash ==
  ASSUME CrashSparesOthers, victim # None, \A t \in Threads : th[t] = Idle, [Next]_vars
  PROVE  \/ victim' = None
         \/ CrashSparesOthers' /\ \A t \in Threads : th'[t] = Idle
<1>1. Idle.pc = "idle" /\ Idle.file.name = None
  BY DEF Idle
<1>2. CASE UNCHANGED vars
  BY <1>2 DEF vars, onDisk, CrashSparesOthers, Files, File
<1>3. CASE Next
  <2>1. PICK t \in Threads : Next!(t)
    BY <1>3 DEF Next
  <2>2. th[t].pc = "idle" /\ th[t].file.name = None
    BY <1>1
  <2>3. \E op \in {"Create", "Open", "Remove"}, n \in Names, size \in Sizes \cup {0} : Call(t, op, n, size)
    BY <2>1, <2>2 DEF FetchDirectory, FetchHeader, CreateInMemory, RemoveInMemory, WriteHeader,
                      WriteDirectory1, WriteDirectory2, WriteMap, Write, CloseFile, Crash
  <2> QED BY <2>3 DEF Call
<1> QED BY <1>2, <1>3

\* Only a crash is counted and has a victim.
LEMMA CrashCounts ==
  ASSUME NEW t, Threads = {t}, crashes \in Nat, Next
  PROVE  crashes' \in Nat /\ ((crashes' = crashes /\ victim' \in {victim, None}) \/ (Crash(t) /\ crashes' = crashes + 1))
<1> DEFINE Same == crashes' = crashes /\ victim' \in {victim, None}
<1>0. Next!(t)
  BY DEF Next
<1>1. ASSUME NEW op, NEW n, NEW size, Call(t, op, n, size) PROVE Same
  BY <1>1 DEF Call
<1>2. ASSUME \/ FetchDirectory(t) \/ FetchHeader(t) \/ CreateInMemory(t) \/ RemoveInMemory(t)
             \/ Write(t) \/ CloseFile(t)
      PROVE  Same
  BY <1>2 DEF FetchDirectory, FetchHeader, CreateInMemory, RemoveInMemory, Write, CloseFile
<1>3. ASSUME WriteHeader(t) \/ WriteDirectory1(t) \/ WriteDirectory2(t) \/ WriteMap(t)
      PROVE  Same
  BY <1>3 DEF WriteHeader, WriteDirectory1, WriteDirectory2, WriteMap
<1> HIDE DEF Same
<1>4. Same \/ Crash(t)
  BY <1>0, <1>1, <1>2, <1>3
<1>5. Crash(t) => crashes' = crashes + 1
  BY DEF Crash
<1> QED BY <1>4, <1>5 DEF Same

\* The invariant is inductive for one caller that does not remove what it has
\* open: one lemma per step of an operation.
LEMMA StepKeeps ==
  ASSUME NEW t, Threads = {t}, ~RemoveOpen, IInv, [Next]_vars PROVE IInv'
<1>1. CASE UNCHANGED vars
  BY <1>1 DEF vars, onDisk, IInv, Before, Types, CrashSparesOthers, Files, File
<1>2. CASE Next
  <2>0. Next!(t)
    BY <1>2 DEF Next
  <2>1. crashes \in Nat /\ crashes' \in Nat /\ (crashes' = crashes \/ (Crash(t) /\ crashes' = crashes + 1))
    BY <1>2, CrashCounts DEF IInv
  <2>2. CASE crashes = 0 /\ crashes' = 0
    <3>1. Before
      BY <2>2 DEF IInv
    <3>2. ~Crash(t)
      BY <2>2 DEF Crash
    <3>3. Before'
      <4>1. CASE \E n \in Names : \/ \E size \in Sizes : Call(t, "Create", n, size)
                                  \/ Call(t, "Open", n, 0) \/ Call(t, "Remove", n, 0)
        <5>1. Sizes \subseteq Nat
          BY FileSystemAssumption
        <5> QED BY <3>1, <4>1, <5>1, CallKeeps
      <4> QED BY <2>0, <3>1, <3>2, <4>1, FetchDirectoryKeeps, FetchHeaderKeeps,
                 CreateInMemoryKeeps, RemoveInMemoryKeeps, WriteHeaderKeeps,
                 WriteDirectory1Keeps, WriteDirectory2Keeps, WriteMapKeeps, WriteKeeps, CloseFileKeeps
    <3> QED BY <2>2, <3>3 DEF IInv
  <2>3. CASE crashes = 0 /\ crashes' # 0
    BY <2>1, <2>3, CrashSpares DEF IInv
  <2>4. CASE crashes = 1
    <3>1. CASE victim = None
      <4>1. crashes' = 1 => victim' = None
        BY <1>2, <2>1, <2>4, <3>1, CrashCounts
      <4> QED BY <2>1, <2>4, <4>1 DEF IInv
    <3>2. CASE victim # None
      BY <2>1, <2>4, <3>2, AfterCrash DEF IInv
    <3> QED BY <3>1, <3>2
  <2>5. CASE crashes > 1
    BY <2>1, <2>5 DEF IInv
  <2> QED BY <2>1, <2>2, <2>3, <2>4, <2>5
<1> QED BY <1>1, <1>2

\* The inductive invariant holds of one caller between, and in the middle of, all its
\* operations.
LEMMA InvHolds ==
  ASSUME NEW t, Threads = {t}, ~RemoveOpen PROVE Spec => []IInv
<1>1. IInv /\ [Next]_vars => IInv'
  BY StepKeeps
<1> QED BY InitLemma, <1>1, PTL DEF Spec

\* Bitmap, directory and headers agree between any two operations of one caller,
\* and the ASSERT of Deallocate (filehdr.cc:65) holds, for any file names, sizes,
\* number of sectors and number of entries.
THEOREM DiskIsConsistent ==
  ASSUME NEW t, Threads = {t}, ~RemoveOpen PROVE Spec => []DiskConsistent
<1>1. IInv => DiskConsistent
  <2> SUFFICES ASSUME IInv, crashes = 0
               PROVE  /\ TypeOK /\ ~aborted
                      /\ Quiet => /\ freeMap = Reserved \cup UNION {Extent(f) : f \in Files(directory)}
                                  /\ \A f, g \in Files(directory) : f # g => Extent(f) \cap Extent(g) = {}
    BY DEF DiskConsistent
  <2>1. Before
    BY DEF IInv
  <2>2. TypeOK /\ ~aborted
    <3>1. \A i \in Slots : directory[i].sector \in Sectors /\ directory[i].name \in Names \cup {None}
      BY <2>1 DEF Before, Types, Dir, Entry, NameOrNone
    <3>2. \A s \in Sectors : Blocks(disk[s]) \subseteq Sectors \ Reserved
      BY <2>1 DEF Before, Types, Disk, HeaderSet, Blocks
    <3>3. crashes \in 0 .. MaxCrashes
      BY FileSystemAssumption
    <3> QED BY <2>1, <3>1, <3>2, <3>3 DEF Before, Types, TypeOK
  <2>3. ASSUME Quiet
        PROVE  /\ freeMap = Reserved \cup UNION {Extent(f) : f \in Files(directory)}
               /\ \A f, g \in Files(directory) : f # g => Extent(f) \cap Extent(g) = {}
    <3>1. th[t].pc = "idle" /\ InPhase(th[t], disk, directory, freeMap, durable)
      BY <2>1, <2>3 DEF Quiet, Before
    <3>2. directory \in Dir /\ Agree(freeMap, directory, disk)
      BY <3>1, Zenon DEF InPhase, Phase, Reading, Writing
    <3>3. Files(directory) = FilesOn(directory, disk)
      BY <3>2, FilesAreEntries DEF Files, File, Agree
    <3>4. \A i \in Used(directory) : Extent(FileAt(directory, disk, i)) = Taken(directory, disk, i)
      BY DEF Extent, FileAt, Taken
    <3>5. {Extent(f) : f \in FilesOn(directory, disk)} = {Taken(directory, disk, i) : i \in Used(directory)}
      BY <3>4 DEF FilesOn
    <3>6. freeMap = Reserved \cup UNION {Taken(directory, disk, i) : i \in Used(directory)}
      BY <3>2 DEF Agree
    <3>7. ASSUME NEW f \in FilesOn(directory, disk), NEW g \in FilesOn(directory, disk), f # g
          PROVE  Extent(f) \cap Extent(g) = {}
      <4>1. PICK i \in Used(directory) : f = FileAt(directory, disk, i)
        BY DEF FilesOn
      <4>2. PICK j \in Used(directory) : g = FileAt(directory, disk, j)
        BY DEF FilesOn
      <4>3. i # j
        BY <3>7, <4>1, <4>2
      <4> QED BY <3>2, <3>4, <4>1, <4>2, <4>3 DEF Agree
    <3> QED BY <3>3, <3>5, <3>6, <3>7
  <2> QED BY <2>2, <2>3
<1> QED BY InvHolds, <1>1, PTL

\* The first crash harms no file but the one of the interrupted call
\* (filesys.cc:137-143, 205-208, 282-283), wherever it strikes.
THEOREM CrashIsContained ==
  ASSUME NEW t, Threads = {t}, ~RemoveOpen PROVE Spec => []CrashSparesOthers
<1>1. IInv => CrashSparesOthers
  BY DEF IInv, CrashSparesOthers
<1> QED BY InvHolds, <1>1, PTL

-----------------------------------------------------------------------------
(* Refinement of the store of named files.                                 *)

\* The steps of Create, Open and Remove up to the write-backs, the write of the
\* bitmap and ~OpenFile change nothing stored.
LEMMA QuietSteps ==
  ASSUME NEW t, Threads = {t}, Before
  PROVE  /\ \A op, n, size : Call(t, op, n, size) => Settled' = Settled
         /\ FetchDirectory(t) => Settled' = Settled
         /\ FetchHeader(t) => Settled' = Settled
         /\ CreateInMemory(t) => Settled' = Settled
         /\ RemoveInMemory(t) => Settled' = Settled
         /\ WriteMap(t) => Settled' = Settled
         /\ CloseFile(t) => Settled' = Settled
<1>0. PICK me \in ThreadSet : me = th[t]
  BY DEF Before, Types
<1>1. ASSUME NEW new, th' = [th EXCEPT ![t] = new], new.pc # "writeDir2",
             me.pc # "writeDir2", UNCHANGED onDisk
      PROVE  Settled' = Settled
  <2>1. th'[t].pc # "writeDir2" /\ directory' = directory /\ disk' = disk
    BY <1>1 DEF Before, Types, onDisk
  <2> QED BY <1>0, <1>1, <2>1, QuietStore
<1>2. ASSUME NEW op, NEW n, NEW size, Call(t, op, n, size) PROVE Settled' = Settled
  <2> DEFINE new == [me EXCEPT !.pc = "fetchDir", !.op = op, !.name = n,
                        !.size = size, !.dir = Torn(directory, Empty)]
  <2>1. new.pc = "fetchDir"
    BY DEF ThreadSet
  <2>2. me.pc = "idle" /\ th' = [th EXCEPT ![t] = new] /\ UNCHANGED onDisk
    BY <1>0, <1>2 DEF Call
  <2> HIDE DEF new
  <2> QED BY <1>1, <2>1, <2>2, Zenon
<1>3. ASSUME FetchDirectory(t) PROVE Settled' = Settled
  <2> DEFINE dir == Torn(me.dir, directory)
             new == [me EXCEPT !.dir = dir, !.sector = Sector(dir, me.name),
                        !.pc = IF me.op = "Create" THEN "fetchMap" ELSE "fetchHdr"]
             idle == [Idle EXCEPT !.file = me.file]
  <2>1. new.pc # "writeDir2" /\ idle.pc # "writeDir2"
    BY DEF ThreadSet, Idle
  <2>2. /\ me.pc = "fetchDir" /\ UNCHANGED onDisk
        /\ th' = [th EXCEPT ![t] = IF (Sector(dir, me.name) # -1) = (me.op = "Create") THEN idle ELSE new]
    BY <1>0, <1>3 DEF FetchDirectory, Return
  <2> HIDE DEF new, idle, dir
  <2> QED BY <1>1, <2>1, <2>2, Zenon
<1>4. ASSUME FetchHeader(t) PROVE Settled' = Settled
  <2> DEFINE opened == [Idle EXCEPT !.file = [name |-> me.name, hdr |-> disk[me.sector]]]
             new == [me EXCEPT !.hdr = disk[me.sector], !.pc = "fetchMap"]
  <2>1. new.pc # "writeDir2" /\ opened.pc # "writeDir2"
    BY DEF ThreadSet, Idle
  <2>2. /\ me.pc = "fetchHdr" /\ UNCHANGED onDisk
        /\ th' = [th EXCEPT ![t] = IF me.op = "Open" THEN opened ELSE new]
    BY <1>0, <1>4 DEF FetchHeader
  <2> HIDE DEF new, opened
  <2> QED BY <1>1, <2>1, <2>2, Zenon
<1>5. ASSUME CreateInMemory(t) PROVE Settled' = Settled
  <2> DEFINE got == Allocate(freeMap, me.size)
             new == [me EXCEPT !.pc = "writeHdr", !.sector = got.sector,
                        !.hdr = Header(got.blocks), !.dir = Add(me.dir, me.name, got.sector),
                        !.map = freeMap \cup {got.sector} \cup Blocks(got)]
             idle == [Idle EXCEPT !.file = me.file]
  <2>1. new.pc # "writeDir2" /\ idle.pc # "writeDir2"
    BY DEF ThreadSet, Idle
  <2>2. /\ me.pc = "fetchMap" /\ UNCHANGED onDisk
        /\ th' = [th EXCEPT ![t] = new] \/ th' = [th EXCEPT ![t] = idle]
    BY <1>0, <1>5 DEF CreateInMemory, Return
  <2> HIDE DEF new, idle, got
  <2> QED BY <1>1, <2>1, <2>2
<1>6. ASSUME RemoveInMemory(t) PROVE Settled' = Settled
  <2> DEFINE new == [me EXCEPT !.pc = "writeMap", !.map = Deallocated(freeMap, me.hdr, me.sector),
                        !.dir = RemoveEntry(me.dir, me.name)]
  <2>1. new.pc # "writeDir2"
    BY DEF ThreadSet
  <2>2. me.pc = "fetchMap" /\ UNCHANGED onDisk /\ th' = [th EXCEPT ![t] = new]
    BY <1>0, <1>6 DEF RemoveInMemory
  <2> HIDE DEF new
  <2> QED BY <1>1, <2>1, <2>2, Zenon
<1>7. ASSUME WriteMap(t) PROVE Settled' = Settled
  <2> DEFINE new == [me EXCEPT !.pc = "writeDir1"]
             idle == [Idle EXCEPT !.file = me.file]
  <2>1. new.pc # "writeDir2" /\ idle.pc # "writeDir2"
    BY DEF ThreadSet, Idle
  <2>2. /\ me.pc = "writeMap" /\ directory' = directory /\ disk' = disk
        /\ th' = [th EXCEPT ![t] = IF me.op = "Create" THEN idle ELSE new]
    BY <1>0, <1>7 DEF WriteMap, Return
  <2> HIDE DEF new, idle
  <2>3. th'[t].pc # "writeDir2"
    BY <2>1, <2>2 DEF Before, Types
  <2> QED BY <1>0, <2>2, <2>3, QuietStore
<1>8. ASSUME CloseFile(t) PROVE Settled' = Settled
  <2>1. Idle.pc # "writeDir2"
    BY DEF Idle
  <2>2. me.pc = "idle" /\ UNCHANGED onDisk /\ th' = [th EXCEPT ![t] = Idle]
    BY <1>0, <1>8 DEF CloseFile
  <2> QED BY <1>1, <2>1, <2>2, Zenon
<1> QED BY <1>2, <1>3, <1>4, <1>5, <1>6, <1>7, <1>8

\* The header goes to a sector of no file (filesys.cc:205), and data to a block.
LEMMA StoreWriteHeader ==
  ASSUME NEW t, Threads = {t}, Before, WriteHeader(t) PROVE Settled' = Settled
<1>00. /\ victim = None /\ ~aborted /\ freeMap \in SUBSET Sectors /\ directory \in Dir
       /\ disk \in Disk /\ th \in [Threads -> ThreadSet]
       /\ InPhase(th[t], disk, directory, freeMap, durable)
  BY DEF Before, Types
<1>0. PICK me \in ThreadSet : me = th[t]
  BY <1>00
<1>1. PICK old, map : Phase(me, old, map, disk, directory, freeMap, durable)
  BY <1>0, <1>00 DEF InPhase
<1>2. /\ me.pc = "writeHdr" /\ th'[t].pc = "writeDir1" /\ directory' = directory
      /\ disk' = [disk EXCEPT ![me.sector] = me.hdr]
  BY <1>00, <1>0 DEF WriteHeader, Goto, ThreadSet
<1>3. /\ directory = old /\ old \in Dir /\ Agree(map, old, disk)
      /\ me.sector \in Sectors \ map
  BY <1>1, <1>2, Zenon DEF Phase, Reading, Writing, Creating
<1>4. \A i \in Used(old) : old[i].sector \in map /\ old[i].sector \in Sectors
  BY <1>3 DEF Agree, Taken, Used, Dir, Entry
<1>5. \A i \in Used(old) : disk'[old[i].sector] = disk[old[i].sector]
  BY <1>2, <1>3, <1>4 DEF Disk
<1>6. Agree(map, old, disk') /\ FilesOn(old, disk') = FilesOn(old, disk)
  BY <1>3, <1>5, AgreeKept
<1>7. Files(directory)' = Files(directory)
  BY <1>2, <1>3, <1>6, FilesNow, FilesNext, Zenon
<1> QED BY <1>0, <1>2, <1>7, SettledIs

\* FileSystem::Write through an open file leaves the set of settled files as it is.
LEMMA StoreWrite ==
  ASSUME NEW t, Threads = {t}, Before, Write(t) PROVE Settled' = Settled
<1>1. /\ Before' /\ th[t].pc = "idle" /\ FilesOn(directory, disk') = FilesOn(directory, disk)
      /\ Agree(freeMap, directory, disk)
  BY WriteKeeps
<1>2. th' = th /\ directory' = directory /\ directory \in Dir
  BY DEF Write, Before, Types
<1>3. PICK map : Agree(map, directory', disk')
  <2>1. PICK me : me = th'[t]
    OBVIOUS
  <2>2. PICK old, map : Phase(me, old, map, disk', directory', freeMap', durable')
    BY <1>1, <2>1, Zenon DEF Before, InPhase
  <2> QED BY <1>1, <1>2, <2>1, <2>2 DEF Phase, Writing
<1> QED BY <1>1, <1>2, <1>3, FilesNow, FilesNext, SettledIs

\* Half of the directory on the disk: the store still holds the old files.
LEMMA StoreWriteDirectory1 ==
  ASSUME NEW t, Threads = {t}, Before, WriteDirectory1(t) PROVE Settled' = Settled
<1>00. /\ victim = None /\ ~aborted /\ freeMap \in SUBSET Sectors /\ directory \in Dir
       /\ disk \in Disk /\ th \in [Threads -> ThreadSet]
       /\ InPhase(th[t], disk, directory, freeMap, durable)
  BY DEF Before, Types
<1>0. PICK me \in ThreadSet : me = th[t]
  BY <1>00
<1>1. PICK old, map : Phase(me, old, map, disk, directory, freeMap, durable)
  BY <1>0, <1>00 DEF InPhase
<1>2. me.pc = "writeDir1" /\ th'[t].pc = "writeDir2" /\ durable' = durable
  BY <1>00, <1>0 DEF WriteDirectory1, Goto, ThreadSet
<1>3. directory = old /\ old \in Dir /\ Agree(map, old, disk) /\ durable = FilesOn(old, disk)
  BY <1>1, <1>2, Zenon DEF Phase, Reading, Writing
<1> QED BY <1>0, <1>2, <1>3, FilesNow, SettledIs

\* The second sector of the directory completes it: Create's file is there,
\* Remove's is gone (filesys.cc:206, 283).
LEMMA StoreWriteDirectory2 ==
  ASSUME NEW t, Threads = {t}, Before, WriteDirectory2(t) PROVE Store!Next
<1>00. /\ victim = None /\ ~aborted /\ freeMap \in SUBSET Sectors /\ directory \in Dir
       /\ disk \in Disk /\ th \in [Threads -> ThreadSet]
       /\ InPhase(th[t], disk, directory, freeMap, durable)
  BY DEF Before, Types
<1>0. PICK me \in ThreadSet : me = th[t]
  BY <1>00
<1>1. PICK old, map : Phase(me, old, map, disk, directory, freeMap, durable)
  BY <1>0, <1>00 DEF InPhase
<1> DEFINE new == [me EXCEPT !.pc = "writeMap"]
           idle == [Idle EXCEPT !.file = me.file]
<1>2. /\ me.pc = "writeDir2" /\ th' = [th EXCEPT ![t] = IF me.op = "Create" THEN new ELSE idle]
      /\ directory' = Torn(directory, me.dir) /\ disk' = disk
  BY <1>0 DEF WriteDirectory2, Return
<1>3. /\ directory = Torn(me.dir, old) /\ old \in Dir /\ map \in SUBSET Sectors
      /\ Agree(map, old, disk) /\ OpenIsListed(me, old, disk)
      /\ me.name \in Names /\ durable = FilesOn(old, disk)
      /\ me.op = "Remove" => me.file.name # me.name
      /\ \/ Creating(me, old, map) /\ disk[me.sector] = me.hdr
         \/ Removing(me, old, map, disk)
  BY <1>1, <1>2 DEF Phase, Reading, Writing
<1>4. me.dir \in Dir /\ directory' = me.dir
  <2>1. me.dir \in Dir
    BY DEF ThreadSet
  <2> QED BY <1>2, <1>3, <2>1, TornTwice
<1>5. new.pc # "writeDir2" /\ idle.pc # "writeDir2"
  BY DEF ThreadSet, Idle
<1> HIDE DEF new, idle
<1>6. th'[t].pc # "writeDir2"
  BY <1>00, <1>2, <1>5
<1>7. Settled = FilesOn(old, disk)
  BY <1>0, <1>2, <1>3, SettledIs
<1>8. CASE Creating(me, old, map) /\ disk[me.sector] = me.hdr
  <2>1. /\ Agree(me.map, me.dir, disk)
        /\ FilesOn(me.dir, disk) =
             FilesOn(old, disk) \cup {[name |-> me.name, sector |-> me.sector, hdr |-> me.hdr]}
    <3>1. NowCreated(me, old, disk)
      BY <1>3, <1>8, CreatedAgrees, Zenon
    <3> QED BY <3>1 DEF NowCreated
  <2>2. Settled' = Settled \cup {[name |-> me.name, sector |-> me.sector, hdr |-> me.hdr]}
    BY <1>2, <1>4, <1>6, <1>7, <2>1, FilesNext, SettledIs
  <2>3. \A f \in Settled : f.name # me.name
    BY <1>7, <1>8 DEF FilesOn, FileAt, Creating, Unlisted
  <2>4. Len(me.hdr.blocks) \in Sizes
    BY <1>8 DEF Creating
  <2> QED BY <1>3, <2>2, <2>3, <2>4, StoreCreates, Zenon
<1>9. CASE Removing(me, old, map, disk)
  <2>1. PICK k \in Used(old) :
           /\ old[k].name = me.name /\ Agree(me.map, me.dir, disk)
           /\ FilesOn(me.dir, disk) = FilesOn(old, disk) \ {FileAt(old, disk, k)}
    <3>1. me.file.name # me.name
      BY <1>3, <1>9 DEF Removing
    <3>2. NowRemoved(me, old, disk)
      BY <1>3, <1>9, <3>1, RemovedAgrees, Zenon
    <3> QED BY <3>2 DEF NowRemoved
  <2> DEFINE g == FileAt(old, disk, k)
  <2>2. g \in FilesOn(old, disk) /\ g.name = me.name /\ g.hdr = disk[old[k].sector]
    BY <2>1, Zenon DEF FilesOn, FileAt
  <2>3. Len(g.hdr.blocks) \in Nat
    <3>1. disk[old[k].sector].blocks \in Seq(Sectors \ Reserved)
      BY <1>00, <1>3, Zenon DEF Used, Dir, Entry, Disk, HeaderSet
    <3> QED BY <2>2, <3>1
  <2>4. \A f \in FilesOn(old, disk) : f.name = g.name => f = g
    <3>1. \A i \in Used(old) : i # k => old[i].name # old[k].name
      BY <1>3 DEF Agree
    <3>2. \A i \in Used(old) : FileAt(old, disk, i).name = old[i].name
      BY DEF FileAt
    <3>3. SUFFICES ASSUME NEW i \in Used(old), FileAt(old, disk, i).name = g.name
                   PROVE  FileAt(old, disk, i) = g
      BY DEF FilesOn
    <3>4. i = k
      BY <3>1, <3>2, <3>3
    <3> QED BY <3>4
  <2>5. Settled' = Settled \ {g}
    BY <1>2, <1>4, <1>6, <1>7, <2>1, FilesNext, SettledIs
  <2> HIDE DEF g
  <2> QED BY <1>3, <1>7, <2>2, <2>3, <2>4, <2>5, StoreRemoves
<1> QED BY <1>3, <1>8, <1>9, Zenon

\* Every step of one caller is a step of the store or leaves the settled files alone.
LEMMA StepIsStored ==
  ASSUME NEW t, Threads = {t}, Before, crashes = 0, Next, crashes' = 0
  PROVE  [Store!Next]_Stored
<1>1. Settled' = Settled \/ Store!Next
  <2>1. ~Crash(t)
    BY DEF Crash
  <2>2. /\ (\E op, n, size : Call(t, op, n, size))
           \/ FetchDirectory(t) \/ FetchHeader(t) \/ CreateInMemory(t) \/ RemoveInMemory(t)
           \/ WriteHeader(t) \/ WriteDirectory1(t) \/ WriteDirectory2(t) \/ WriteMap(t)
           \/ Write(t) \/ CloseFile(t)
    BY <2>1 DEF Next
  <2> QED BY <2>2, QuietSteps, StoreWriteHeader, StoreWriteDirectory1, StoreWriteDirectory2, StoreWrite
<1> QED BY <1>1, StoreStutters

\* With one caller and no removal of an open file, until a crash, the disk is
\* the store of module FileStore: Create and Remove each act in one disk write
\* and nothing else changes what is stored (filesys.cc:174-290).
THEOREM StoreRefined ==
  ASSUME NEW t, Threads = {t}, ~RemoveOpen
  PROVE  Spec => ImplementsFileStore
<1>1. Init => Store!Init
  <2> SUFFICES ASSUME Init PROVE Stored = [n \in Names |-> -1]
    BY DEF Store!Init, Store!Absent
  <2>1. Used(Empty) = {}
    BY DEF Used, Empty, Unused
  <2>2. Listed(directory) = {}
    BY <2>1 DEF Init, Listed, Sector, FindIndex, Used
  <2>3. Settled = {}
    <3>1. th[t].pc # "writeDir2"
      BY DEF Init, Idle
    <3> QED BY <2>2, <3>1, SettledIs DEF Files
  <2> QED BY <2>3, StoredIs DEF SizeIn, SizeOf
<1>2. IInv /\ [Next]_vars => [crashes' = 0 => [Store!Next]_Stored]_vars
  <2> SUFFICES ASSUME IInv, Next, crashes' = 0 PROVE [Store!Next]_Stored
    OBVIOUS
  <2>1. crashes = 0
    BY CrashCounts DEF IInv
  <2> QED BY <2>1, StepIsStored DEF IInv
<1> QED BY <1>1, <1>2, InvHolds, PTL DEF Spec, ImplementsFileStore
=============================================================================
