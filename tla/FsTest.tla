------------------------------- MODULE FsTest -------------------------------
(***************************************************************************)
(* The client programs of filesys/fstest.cc: Copy of a UNIX file to a      *)
(* Nachos file (nachos -cp), Print of a Nachos file (-p), and the          *)
(* PerformanceTest (-t), over files of fixed size and the transfers of     *)
(* OpenFile::Read and Write.                                               *)
(*                                                                         *)
(* The content of a Nachos file is, byte by byte, the position in the UNIX *)
(* file that the byte was copied from, or Stale where nothing was written. *)
(***************************************************************************)
EXTENDS Integers, Sequences

CONSTANTS
    Lengths,        \* lengths of the UNIX file
    TransferSize,
    FileSize        \* bytes PerformanceTest means to write

FsTestAssumption ==
    Lengths \subseteq Nat /\ TransferSize \in Nat \ {0} /\ FileSize \in Nat \ {0}

VARIABLES
    pc,
    source,         \* length of the UNIX file
    offset,         \* position in it (fread)
    file,           \* content of the Nachos file; <<>> when empty or absent
    seekPosition,
    printed,
    written         \* bytes FileWrite wrote

vars == <<pc, source, offset, file, seekPosition, printed, written>>

Stale == -1

TypeOK ==
    /\ pc \in {"start", "copy", "copied", "print", "printed", "fileWrite", "fileRead", "perfDone", "failed"}
    /\ offset \in 0 .. source
    /\ seekPosition \in 0 .. Len(file)
    /\ file \in Seq(Nat \cup {Stale})

Init ==
    /\ pc = "start"
    /\ source \in Lengths
    /\ offset = 0 /\ seekPosition = 0 /\ written = 0
    /\ file = <<>> /\ printed = <<>>

Smaller(m, n) == IF m < n THEN m ELSE n

\* What ReadAt and WriteAt transfer of n bytes at position p.
Transferred(n, p) == IF p >= Len(file) THEN 0 ELSE Smaller(n, Len(file) - p)

\* The size Copy passes to Create: the length of the UNIX file.
FileLength == source

\* Copy until its loop; Create fails when the name is taken or space is short.
StartCopy ==
    /\ pc = "start"
    /\ \/ /\ pc' = "copy"
          /\ file' = [b \in 1 .. FileLength |-> Stale]
       \/ pc' = "failed" /\ UNCHANGED file
    /\ UNCHANGED <<source, offset, seekPosition, printed, written>>

\* What fread returns.
Fread == Smaller(TransferSize, source - offset)

\* One fread and, unless it returned 0, one Write.
CopyChunk ==
    LET result == Transferred(Fread, seekPosition) IN
    /\ pc = "copy"
    /\ IF Fread > 0
       THEN /\ file' = [b \in DOMAIN file |->
                          IF b \in seekPosition + 1 .. seekPosition + result
                          THEN offset + (b - seekPosition - 1) ELSE file[b]]
            /\ offset' = offset + Fread
            /\ seekPosition' = seekPosition + result
            /\ UNCHANGED pc
       ELSE pc' = "copied" /\ UNCHANGED <<file, offset, seekPosition>>
    /\ UNCHANGED <<source, printed, written>>

\* Print opens the file again, at position 0.
StartPrint ==
    /\ pc = "copied"
    /\ pc' = "print" /\ seekPosition' = 0
    /\ UNCHANGED <<source, offset, file, printed, written>>

PrintChunk ==
    LET amountRead == Transferred(TransferSize, seekPosition) IN
    /\ pc = "print"
    /\ IF amountRead > 0
       THEN /\ printed' = printed \o SubSeq(file, seekPosition + 1, seekPosition + amountRead)
            /\ seekPosition' = seekPosition + amountRead
            /\ UNCHANGED pc
       ELSE pc' = "printed" /\ UNCHANGED <<printed, seekPosition>>
    /\ UNCHANGED <<source, offset, file, written>>

\* PerformanceTest: FileWrite creates its file with length 0 and then writes
\* TransferSize bytes at a time; a short write ends it.  When Create fails (no
\* space, or a file left by an earlier test, whose length is 0 as well) FileWrite
\* returns and the test goes on with FileRead.
StartPerformanceTest ==
    /\ pc = "start"
    /\ pc' \in {"fileWrite", "fileRead"}
    /\ file' = <<>> /\ seekPosition' = 0
    /\ UNCHANGED <<source, offset, printed, written>>

FileWrite ==
    LET numBytes == Transferred(TransferSize, seekPosition) IN
    /\ pc = "fileWrite"
    /\ IF written < FileSize /\ numBytes = TransferSize
       THEN /\ written' = written + numBytes
            /\ seekPosition' = seekPosition + numBytes
            /\ UNCHANGED pc
       ELSE pc' = "fileRead" /\ seekPosition' = 0 /\ UNCHANGED written
    /\ UNCHANGED <<source, offset, file, printed>>

\* FileRead, which returns at once when Open fails, as it does at the first Read
\* of an empty file; and the Remove, which ends the test whether it finds the
\* file or not.
FileRead ==
    LET numBytes == Transferred(TransferSize, seekPosition) IN
    /\ pc = "fileRead"
    /\ IF seekPosition < FileSize /\ numBytes = TransferSize
       THEN seekPosition' = seekPosition + numBytes /\ UNCHANGED <<pc, file>>
       ELSE pc' = "perfDone" /\ file' = <<>> /\ seekPosition' = 0
    /\ UNCHANGED <<source, offset, printed, written>>

\* A program has ended.
Done == pc \in {"printed", "perfDone", "failed"} /\ UNCHANGED vars

Next ==
    \/ StartCopy \/ CopyChunk \/ StartPrint \/ PrintChunk
    \/ StartPerformanceTest \/ FileWrite \/ FileRead
    \/ Done

\* The program runs until it returns.
Spec == Init /\ [][Next]_vars /\ WF_vars(Next)

-----------------------------------------------------------------------------
Whole == [b \in 1 .. source |-> b - 1]

\* Copy followed by Print reproduces the UNIX file, whatever its length is
\* modulo the chunk size: the file was created long enough, no chunk is
\* clipped, and the last, short chunk is copied too.
PrintReproducesSource == pc = "printed" => printed = Whole

\* Both loops end, by a short fread and by a Read that returns 0.
Returned == pc \in {"printed", "perfDone", "failed"}
=============================================================================
