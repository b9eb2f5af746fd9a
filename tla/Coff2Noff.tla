----------------------------- MODULE Coff2Noff -----------------------------
(***************************************************************************)
(* bin/coff2noff.c, which turns a linked COFF file into the NOFF file that *)
(* AddrSpace loads.  A section is a record (name, paddr, size, short: the  *)
(* input ends inside it); byte k of section i is the pair <<i, k>>, so that*)
(* a byte says where it came from.  The output is a function on offsets,   *)
(* with Hole where nothing was written; the header takes HeaderSize bytes. *)
(* The conversion may be killed at any point.                              *)
(***************************************************************************)
EXTENDS Integers, Sequences, FiniteSets

CONSTANTS Inputs,       \* the sequences of sections it may be given
          HeaderSize,   \* sizeof(NoffHeader)
          FileSize      \* bound on offsets in the output

VARIABLES sections, goodMagic, i, hdr, written, pos, out, exists, status

vars == <<sections, goodMagic, i, hdr, written, pos, out, exists, status>>

Hole == <<0, 0>>
\* main sets only the size; the other fields count once it is not zero.
NoSegment == [virtualAddr |-> 0, inFileAddr |-> 0, size |-> 0]

\* main, up to the loop: the header is initialised.  The output may not have been
\* created: the test after its open is of fdIn, so the conversion goes on.
Init ==
    /\ sections \in Inputs
    /\ goodMagic \in BOOLEAN
    /\ i = 1
    /\ hdr = [code |-> NoSegment, initData |-> NoSegment, uninitData |-> NoSegment]
    /\ written = FALSE
    /\ pos = HeaderSize
    /\ out = [o \in 0 .. FileSize |-> Hole]
    /\ exists \in BOOLEAN
    /\ status = "copying"

\* Any of the errors: the output is unlinked.
Fail == exists' = FALSE /\ status' = "failed" /\ UNCHANGED <<sections, goodMagic, i, hdr, written, pos, out>>

\* Either magic number is wrong.
BadMagic == status = "copying" /\ i = 1 /\ ~goodMagic /\ Fail

\* The next section of the loop.
AtSection == status = "copying" /\ goodMagic /\ i <= Len(sections)
S == sections[i]
Done == UNCHANGED <<sections, goodMagic, written, exists, status>>

Empty == AtSection /\ S.size = 0 /\ i' = i + 1 /\ UNCHANGED <<hdr, pos, out>> /\ Done

\* Header entry, then lseek, Read and Write, then inNoffFile.  A Write succeeds
\* only if the output was opened.
Copy(seg) ==
    /\ exists
    /\ hdr' = [hdr EXCEPT ![seg] = [virtualAddr |-> S.paddr, inFileAddr |-> pos, size |-> S.size]]
    /\ out' = [o \in DOMAIN out |-> IF o \in pos .. pos + S.size - 1 THEN <<i, o - pos>> ELSE out[o]]
    /\ pos' = pos + S.size
    /\ i' = i + 1
    /\ Done

Text == AtSection /\ S.size > 0 /\ S.name = ".text" /\ ~S.short /\ Copy("code")

InitialisedData ==
    /\ AtSection /\ S.size > 0 /\ S.name \in {".data", ".rdata"}
    /\ hdr.initData.size = 0 /\ ~S.short
    /\ Copy("initData")

\* Can't handle both data and rdata.
BothData == AtSection /\ S.size > 0 /\ S.name \in {".data", ".rdata"} /\ hdr.initData.size # 0 /\ Fail

\* "File is too short", or a Write that fails.
ReadOrWriteFails ==
    /\ \/ /\ AtSection /\ S.size > 0 /\ S.name \in {".text", ".data", ".rdata"}
          /\ S.name # ".text" => hdr.initData.size = 0
       \/ status = "copying" /\ goodMagic /\ i > Len(sections)
    /\ Fail

\* The uninitialised segment: the test is for ==.
Bss ==
    /\ AtSection /\ S.size > 0 /\ S.name \in {".bss", ".sbss"}
    /\ hdr.uninitData.size # 0 => S.paddr # hdr.uninitData.virtualAddr + hdr.uninitData.size
    /\ hdr' = [hdr EXCEPT !.uninitData =
                  IF @.size # 0 THEN [@ EXCEPT !.size = @ + S.size]
                  ELSE [virtualAddr |-> S.paddr, inFileAddr |-> 0, size |-> S.size]]
    /\ i' = i + 1
    /\ UNCHANGED <<pos, out>>
    /\ Done

BothBss ==
    /\ AtSection /\ S.size > 0 /\ S.name \in {".bss", ".sbss"} /\ hdr.uninitData.size # 0
    /\ S.paddr = hdr.uninitData.virtualAddr + hdr.uninitData.size
    /\ Fail

Unknown ==
    /\ AtSection /\ S.size > 0
    /\ S.name \notin {".text", ".data", ".rdata", ".bss", ".sbss"}
    /\ Fail

\* Mutant: writing the header as soon as the output is open, not when it is complete.
FinishEarly ==
    /\ status = "copying" /\ goodMagic /\ ~written /\ exists
    /\ written' = TRUE
    /\ status' = IF i > Len(sections) THEN "done" ELSE status
    /\ UNCHANGED <<sections, goodMagic, i, hdr, pos, out, exists>>

\* After the loop: back to offset 0, and the header.
Finish ==
    /\ status = "copying" /\ goodMagic /\ i > Len(sections) /\ exists
    /\ written' = TRUE
    /\ status' = "done"
    /\ UNCHANGED <<sections, goodMagic, i, hdr, pos, out, exists>>

\* The conversion is killed: whatever it wrote stays.
Killed == status = "copying" /\ status' = "killed" /\ UNCHANGED <<sections, goodMagic, i, hdr, written, pos, out, exists>>

Next ==
    \/ BadMagic \/ Empty \/ Text \/ InitialisedData \/ BothData \/ ReadOrWriteFails
    \/ Bss \/ BothBss \/ Unknown \/ Finish \/ Killed

Spec == Init /\ [][Next]_vars

-----------------------------------------------------------------------------
\* A file AddrSpace would accept: it exists and starts with NOFFMAGIC.
Acceptable == exists /\ written

\* The byte such a file puts at a virtual address.
In(seg, v) == v \in seg.virtualAddr .. seg.virtualAddr + seg.size - 1
ByteAt(seg, v) == out[seg.inFileAddr + (v - seg.virtualAddr)]

\* "recording where each segment is in the NOFF file, and where it is to go in
\* the virtual address space" (coff2noff.c): whatever fails or is killed and
\* when, a file with the NOFF magic number holds every byte of code and data
\* of the COFF file, and puts it at the address it was linked for.
LoadedIsLinked ==
    Acceptable =>
        \A n \in 1 .. Len(sections) : \A k \in 0 .. sections[n].size - 1 :
            LET v == sections[n].paddr + k
            IN  /\ sections[n].name = ".text" => In(hdr.code, v) /\ ByteAt(hdr.code, v) = <<n, k>>
                /\ sections[n].name \in {".data", ".rdata"} =>
                      In(hdr.initData, v) /\ ByteAt(hdr.initData, v) = <<n, k>>

\* The segments of a file do not share bytes, and none lies in the header.
SegmentsAreApart ==
    LET Span(seg) == seg.inFileAddr .. seg.inFileAddr + seg.size - 1
    IN  /\ Span(hdr.code) \cap Span(hdr.initData) = {}
        /\ (Span(hdr.code) \cup Span(hdr.initData)) \cap 0 .. HeaderSize - 1 = {}
=============================================================================
