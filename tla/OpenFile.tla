------------------------------ MODULE OpenFile ------------------------------
(***************************************************************************)
(* Reading and writing an open Nachos file (filesys/openfile.cc): byte     *)
(* ranges on top of a disk that transfers whole sectors.                   *)
(*                                                                         *)
(* Each thread has its own OpenFile on the one file of FileLength bytes    *)
(* whose blocks are dataSectors.  A thread loses the CPU in every disk     *)
(* request, so every sector read or written is a step.  A byte is the      *)
(* value some write gave it; Junk is what `new char[]` leaves in a buffer. *)
(***************************************************************************)
EXTENDS Integers, Sequences, FiniteSets

CONSTANTS
    Threads,
    SectorSize,
    FileLength,
    Values,         \* byte values; a call of Write writes one of them
    Fresh, Junk,     \* initial content of the file; uninitialized memory
    MaxLength       \* bound: numBytes and position of a request

OpenFileAssumption ==
    /\ {SectorSize, FileLength, MaxLength} \subseteq Nat \ {0}
    /\ {Fresh, Junk} \cap Values = {}

VARIABLES
    disk,       \* sector |-> its bytes
    th,         \* the request each thread is executing
    seekPosition,
    content,    \* history: the bytes the completed writes should have left
    into        \* history: result of the thread's last read

vars == <<disk, th, seekPosition, content, into>>

Offsets == 0 .. SectorSize - 1
NumSectors == (FileLength + SectorSize - 1) \div SectorSize

\* FileHeader::ByteToSector: the blocks need not be in order on the disk.
ByteToSector(offset) == NumSectors - 1 - offset \div SectorSize

NoRequest == [pc |-> "idle", op |-> "none", position |-> 0, numBytes |-> 0,
              value |-> Fresh, i |-> 0, buf |-> <<>>, seek |-> FALSE]

Bytes == Values \cup {Fresh, Junk}

TypeOK ==
    /\ disk \in [0 .. NumSectors - 1 -> [Offsets -> Bytes]]
    /\ content \in [0 .. FileLength - 1 -> Bytes \ {Junk}]
    /\ seekPosition \in [Threads -> 0 .. FileLength]

Init ==
    /\ disk = [s \in 0 .. NumSectors - 1 |-> [o \in Offsets |-> Fresh]]
    /\ th = [t \in Threads |-> NoRequest]
    /\ seekPosition = [t \in Threads |-> 0]
    /\ content = [b \in 0 .. FileLength - 1 |-> Fresh]
    /\ into = [t \in Threads |-> <<>>]

\* Bytes a request transfers: none at or past the end, fewer across it.
Clipped(numBytes, position) ==
    IF numBytes <= 0 \/ position >= FileLength THEN 0
    ELSE IF position + numBytes > FileLength THEN FileLength - position
    ELSE numBytes

FirstSector(r) == r.position \div SectorSize

LastSector(r) == (r.position + r.numBytes - 1) \div SectorSize

FirstAligned(r) == r.position = FirstSector(r) * SectorSize

LastAligned(r) == r.position + r.numBytes = (LastSector(r) + 1) * SectorSize

\* The sectors WriteAt reads before it changes part of them, in order.
Partial(r) ==
    (IF FirstAligned(r) THEN <<>> ELSE <<FirstSector(r)>>)
    \o (IF ~LastAligned(r) /\ (FirstSector(r) # LastSector(r) \/ FirstAligned(r))
        THEN <<LastSector(r)>> ELSE <<>>)

\* The buffer for all the full and partial sectors of the request.
NewBuffer(r) == [b \in 0 .. (1 + LastSector(r) - FirstSector(r)) * SectorSize - 1 |-> Junk]

\* ReadSector(ByteToSector(i * SectorSize), &buf[(i - firstSector) * SectorSize]),
\* of which the first n bytes are kept.
Filled(r, i, n) ==
    LET base == (i - FirstSector(r)) * SectorSize
    IN  [b \in DOMAIN r.buf |-> IF b \in base .. base + n - 1
                                THEN disk[ByteToSector(i * SectorSize)][b - base]
                                ELSE r.buf[b]]

\* bcopy(from, &buf[position - firstSector * SectorSize], numBytes)
Copied(r) ==
    LET base == r.position - FirstSector(r) * SectorSize
    IN  [b \in DOMAIN r.buf |-> IF b \in base .. base + r.numBytes - 1 THEN r.value ELSE r.buf[b]]

-----------------------------------------------------------------------------
\* ReadAt, WriteAt, Read or Write is called.
Request(t, op, numBytes, position, value, seek) ==
    LET n == Clipped(numBytes, position)
        r == [NoRequest EXCEPT !.op = op, !.position = position, !.numBytes = n,
                               !.value = value, !.seek = seek]
        full == [r EXCEPT !.i = IF op = "read" THEN FirstSector(r) ELSE 1, !.buf = NewBuffer(r),
                          !.pc = IF op = "read" THEN "read" ELSE "partial"]
    IN  /\ th[t].pc = "idle" /\ n > 0
        /\ th' = [th EXCEPT ![t] = full]
        /\ into' = [into EXCEPT ![t] = <<>>]
        /\ UNCHANGED <<disk, seekPosition, content>>

\* A request that is refused returns 0 and has no effect.
Refused(t, numBytes, position) ==
    /\ th[t].pc = "idle" /\ Clipped(numBytes, position) = 0
    /\ into' = [into EXCEPT ![t] = <<>>]
    /\ UNCHANGED <<disk, th, seekPosition, content>>

\* seekPosition += result, in Read and Write only.
Advance(t, r) ==
    seekPosition' = [seekPosition EXCEPT ![t] = IF r.seek THEN @ + r.numBytes ELSE @]

\* Mutant: the part is copied from the start of the buffer.
ReadPassFromStart(t) ==
    LET r == th[t]
        buf == Filled(r, r.i, SectorSize)
    IN  /\ r.pc = "read"
        /\ IF r.i < LastSector(r)
           THEN /\ th' = [th EXCEPT ![t].buf = buf, ![t].i = r.i + 1]
                /\ UNCHANGED <<into, seekPosition>>
           ELSE /\ th' = [th EXCEPT ![t] = NoRequest]
                /\ into' = [into EXCEPT ![t] =
                              [pos |-> r.position, bytes |-> [b \in 1 .. r.numBytes |-> buf[b - 1]]]]
                /\ Advance(t, r)
        /\ UNCHANGED <<disk, content>>

\* One pass of ReadAt's loop, and after the last the copy of the part we want.
ReadPass(t) ==
    LET r == th[t]
        buf == Filled(r, r.i, SectorSize)
        base == r.position - FirstSector(r) * SectorSize
    IN  /\ r.pc = "read"
        /\ IF r.i < LastSector(r)
           THEN /\ th' = [th EXCEPT ![t].buf = buf, ![t].i = r.i + 1]
                /\ UNCHANGED <<into, seekPosition>>
           ELSE /\ th' = [th EXCEPT ![t] = NoRequest]
                /\ into' = [into EXCEPT ![t] =
                              [pos |-> r.position, bytes |-> [b \in 1 .. r.numBytes |-> buf[base + b - 1]]]]
                /\ Advance(t, r)
        /\ UNCHANGED <<disk, content>>

\* ReadAt of a sector that is to be partially written; it clips at FileLength.
PartialPass(t) ==
    LET r == th[t] IN
    /\ r.pc = "partial"
    /\ IF r.i <= Len(Partial(r))
       THEN LET i == Partial(r)[r.i]
            IN  th' = [th EXCEPT ![t].i = r.i + 1,
                                 ![t].buf = Filled(r, i, Clipped(SectorSize, i * SectorSize))]
       ELSE th' = [th EXCEPT ![t] = [r EXCEPT !.pc = "write", !.i = FirstSector(r), !.buf = Copied(r)]]
    /\ UNCHANGED <<disk, seekPosition, content, into>>

\* One pass of WriteAt's writing loop.
WritePass(t) ==
    LET r == th[t]
        base == (r.i - FirstSector(r)) * SectorSize
    IN  /\ r.pc = "write"
        /\ disk' = [disk EXCEPT ![ByteToSector(r.i * SectorSize)] =
                       [o \in Offsets |-> r.buf[base + o]]]
        /\ IF r.i < LastSector(r)
           THEN th' = [th EXCEPT ![t].i = r.i + 1] /\ UNCHANGED <<seekPosition, content>>
           ELSE /\ th' = [th EXCEPT ![t] = NoRequest]
                /\ content' = [b \in DOMAIN content |->
                                 IF b \in r.position .. r.position + r.numBytes - 1
                                 THEN r.value ELSE content[b]]
                /\ Advance(t, r)
        /\ UNCHANGED into

Seek(t, position) ==
    /\ th[t].pc = "idle"
    /\ seekPosition' = [seekPosition EXCEPT ![t] = position]
    /\ UNCHANGED <<disk, th, content, into>>

Next ==
    \E t \in Threads :
        \/ \E n \in 0 .. MaxLength, v \in Values :
              \/ \E p \in 0 .. FileLength : \/ Request(t, "read", n, p, v, FALSE)
                                            \/ Request(t, "write", n, p, v, FALSE)
              \/ Request(t, "read", n, seekPosition[t], v, TRUE)
              \/ Request(t, "write", n, seekPosition[t], v, TRUE)
        \/ \E n \in 0 .. MaxLength, p \in 0 .. FileLength : Refused(t, n, p)
        \/ ReadPass(t) \/ PartialPass(t) \/ WritePass(t)
        \/ \E p \in 0 .. FileLength : Seek(t, p)

Spec == Init /\ [][Next]_vars

-----------------------------------------------------------------------------
ByteOf(b) == disk[ByteToSector(b)][b % SectorSize]

Idle == \A t \in Threads : th[t].pc = "idle"

\* A write changes the bytes of its range and no others, at every alignment of
\* its two ends to sector boundaries and to the end of the file: between calls
\* the file is what the sequence of writes made it, and never uninitialized
\* memory.
WriteChangesItsRange == Idle => \A b \in DOMAIN content : ByteOf(b) = content[b]

\* A read delivers the bytes of its range.
ReadIsExactStep ==
    \A t \in Threads : (into'[t] # into[t] /\ into'[t] # <<>>) =>
      \A b \in DOMAIN into'[t].bytes : into'[t].bytes[b] = content[into'[t].pos + b - 1]
=============================================================================
