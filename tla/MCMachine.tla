----------------------------- MODULE MCMachine ------------------------------
(***************************************************************************)
(* The simulated processor and the programs of bin/, the data structures   *)
(* of the kernel, the geometry of the disk and preemption by a monitor     *)
(* process.  As in MCUserProg a behaviour is a behaviour of one part,      *)
(* which MCInit chooses.  The variables of Preemptive are there as they    *)
(* are; x1 .. x9 are those of the other parts.                             *)
(***************************************************************************)
EXTENDS MipsInstr, Preemptive

CONSTANTS NULL, a1, a2, a3, i1, i2

VARIABLES part, x1, x2, x3, x4, x5, x6, x7, x8, x9

MCvars == <<vars, part, x1, x2, x3, x4, x5, x6, x7, x8, x9>>

-----------------------------------------------------------------------------
(* Programs for the processor: words of four one-bit bytes, registers 0 .. *)
(* 3 with 3 in the role of R31.                                            *)

Ins(op, rs, rt, rd, extra) == [op |-> op, rs |-> rs, rt |-> rt, rd |-> rd, extra |-> extra]
Registers(a, b) == [n \in Regs |-> IF n = 1 THEN a ELSE IF n = 2 THEN b ELSE 0]
Memory == [a \in Words |-> IF a \in {4, 6, 7, 9, 12, 15} THEN 1 ELSE 0]

\* Loads, stores, branches and traps, with some arithmetic between them.
TrapInstrs ==
    {Ins("LW", 1, 2, 0, 0), Ins("LB", 1, 2, 0, 1), Ins("LH", 1, 3, 0, 0), Ins("LW", 1, 0, 0, 0),
     Ins("LW", 2, 0, 0, 0), Ins("LWR", 1, 2, 0, 0), Ins("LWL", 1, 2, 0, 0), Ins("SW", 1, 2, 0, 0), Ins("SB", 1, 3, 0, 1),
     Ins("SWR", 1, 3, 0, 0), Ins("ADD", 1, 2, 1, 0), Ins("ADDIU", 2, 3, 0, 1),
     Ins("ADDU", 2, 2, 0, 0), Ins("BNE", 1, 2, 0, -2), Ins("BGEZAL", 1, 0, 0, 1),
     Ins("JALR", 1, 0, 3, 0), Ins("MULT", 2, 3, 0, 0), Ins("MFLO", 0, 0, 1, 0),
     Ins("SYSCALL", 0, 0, 0, 0), Ins("RES", 0, 0, 0, 0)}
TrapRegs == {Registers(4, 7), Registers(12, 7)}
Processor == INSTANCE Mips WITH
    Instrs <- TrapInstrs, StartRegs <- TrapRegs, StartMem <- Memory, MaxSteps <- 3, MaxTraps <- 2,
    cpu <- x1, mem <- x2, ref <- x3, steps <- x4, traps <- x5, status <- x6, handed <- x7

\* One arithmetic instruction on every pair of words.
KaneInstrs ==
    {Ins(op, 1, 2, 3, 0) : op \in AddOps \cup SubOps \cup DivOps \cup MultOps}
    \cup {Ins(op, 1, 2, 3, e) : op \in {"ADDI"}, e \in {-1, 1}}
Pairs == {Registers(a, b) : a \in Words, b \in Words}
Kane == INSTANCE Mips WITH
    Instrs <- KaneInstrs, StartRegs <- Pairs, StartMem <- Memory, MaxSteps <- 1, MaxTraps <- 0,
    cpu <- x1, mem <- x2, ref <- x3, steps <- x4, traps <- x5, status <- x6, handed <- x7

\* Every instruction.
AllInstrs ==
    {Ins(op, 1, 2, 1, 0) : op \in {"ADD", "ADDU", "SUB", "SUBU", "AND", "OR", "XOR", "NOR", "SLT",
                                   "SLTU", "SLLV", "SRLV", "SRAV"}}
    \cup {Ins(op, 2, 1, 0, 0) : op \in {"ADDU", "NOR", "JALR"}}
    \cup {Ins(op, 0, 2, 3, 1) : op \in {"SLL", "SRL", "SRA"}}
    \cup {Ins(op, 1, 2, 0, 0) : op \in DivOps \cup MultOps}
    \cup {Ins(op, 0, 0, 3, 0) : op \in {"MFHI", "MFLO"}}
    \cup {Ins(op, 2, 0, 0, 0) : op \in {"MTHI", "MTLO"}}
    \cup {Ins(op, 1, 2, 0, e) : op \in {"BEQ", "BNE"}, e \in {-2, 1}}
    \cup {Ins(op, 1, 0, 0, 1) : op \in {"BGEZ", "BGTZ", "BLEZ", "BLTZ"}}
    \cup {Ins(op, 3, 0, 0, 1) : op \in {"BGEZAL", "BLTZAL"}}
    \cup {Ins(op, 0, 0, 0, 1) : op \in {"J", "JAL"}}
    \cup {Ins("JR", 1, 0, 0, 0), Ins("JALR", 1, 0, 3, 0)}
    \cup {Ins(op, 1, 2, 0, e) : op \in {"ADDI", "SLTI", "SLTIU", "LUI"}, e \in {-1, 1}}
    \cup {Ins(op, 2, 1, 0, 1) : op \in {"ADDIU", "ANDI", "ORI", "XORI"}}
    \cup {Ins(op, 1, 2, 0, 0) : op \in {"LB", "LBU", "LH", "LHU", "LW", "LWL", "SB", "SH", "SW"}}
    \cup {Ins(op, 1, 2, 0, -1) : op \in {"ANDI", "ORI", "XORI"}}
    \cup {Ins("LWR", 1, 2, 0, 0), Ins("ADDU", 0, 2, 3, 0), Ins("LW", 1, 0, 0, 0),
          Ins("LW", 2, 0, 0, 0), Ins("LB", 2, 3, 0, -1)}
SomeRegs == {Registers(a, b) : a \in {2, 4, 13}, b \in {0, 4, 11}}
Interpreting == INSTANCE Interpreter WITH
    Instrs <- AllInstrs, StartRegs <- SomeRegs, StartMem <- Memory, MaxSteps <- 3,
    cpu <- x1, mem <- x2, ex <- x3, steps <- x4

\* Every operation code, every funct of SPECIAL and every rt of BCOND, with
\* immediates on both sides of the sign bit.
Encoded(op, rs, rt, rd, shamt, funct) ==
    [op |-> op, rs |-> rs, rt |-> rt, rd |-> rd, shamt |-> shamt, funct |-> funct]
EncodedWords ==
    {Encoded(0, 5, 6, 7, s, f) : s \in {0, 31}, f \in 0 .. 63}
    \cup {Encoded(1, 5, t, d, 0, 1) : t \in 0 .. 31, d \in {0, 31}}
    \cup {Encoded(op, r, 31, d, 31, f) : op \in 2 .. 63, r \in {0, 31}, d \in {0, 15, 16, 31}, f \in {0, 63}}
Decoding == INSTANCE Decoder WITH Fetched <- EncodedWords, word <- x1, decoded <- x2

-----------------------------------------------------------------------------
(* Object files: three different sections, some empty, laid out in order,  *)
(* with or without a gap; for Coff2Flat the headers may be out of order.   *)

Sections(names, sizes) ==
    {s \in [name : names, size : sizes, gap : {0, 1}, short : BOOLEAN] : s.short => s.gap = 0}
Laid(q) ==
    LET end[n \in 0 .. Len(q)] == IF n = 0 THEN 0 ELSE end[n - 1] + q[n].gap + q[n].size
    IN  [n \in 1 .. Len(q) |-> [name |-> q[n].name, size |-> q[n].size, short |-> q[n].short,
                                paddr |-> end[n - 1] + q[n].gap]]
Distinct(q) == \A m, n \in 1 .. Len(q) : m # n => q[m].name # q[n].name
ObjectFiles(second) ==
    {Laid(q) : q \in {r \in {<<u, v, w>> :
        u \in {s \in Sections({".text", ".rdata"}, {0, 2}) : s.gap = 0},
        v \in Sections(second, 0 .. 2),
        w \in Sections({".sbss", ".data", ".text"}, {1, 2})} : Distinct(r)}}
NoffInputs == ObjectFiles({".data", ".bss", ".other"})
InOrder == ObjectFiles({".data", ".bss"})
FlatInputs == InOrder \cup {<<q[1], q[3], q[2]>> : q \in InOrder}

ToNoff == INSTANCE Coff2Noff WITH Inputs <- NoffInputs, HeaderSize <- 2, FileSize <- 12,
    sections <- x1, goodMagic <- x2, i <- x3, hdr <- x4, written <- x5, pos <- x6, out <- x7,
    exists <- x8, status <- x9
ToFlat == INSTANCE Coff2Flat WITH Inputs <- FlatInputs, StackSize <- 4, FileSize <- 12,
    sections <- x1, i <- x2, top <- x3, pos <- x4, out <- x5, status <- x6

-----------------------------------------------------------------------------
(* The kernel's machine and data structures *)

Rotating == INSTANCE DiskLatency WITH
    SectorsPerTrack <- 3, NumTracks <- 3, RotationTime <- 3, SeekTime <- 2, MaxTicks <- 40,
    totalTicks <- x1, lastSector <- x2, bufferInit <- x3, ticks <- x4, arrived <- x5

Heap == {a1, a2, a3}
TwoItems == {i1, i2}
ThreeKeys == 0 .. 2
Linked == INSTANCE List WITH Addresses <- Heap, Items <- TwoItems, Keys <- ThreeKeys,
    heap <- x1, allocated <- x2, first <- x3, last <- x4

TwoValues == {1, 2}
Inheriting == INSTANCE InheritStack WITH Value <- TwoValues, size <- 3, Addresses <- Heap,
    stack <- x1, top <- x2, element <- x3, first <- x4, last <- x5, popped <- x6, pc <- x7,
    toPush <- x8, count <- x9

Template == INSTANCE TemplateStack WITH MaxT <- 2, size <- 3,
    stack <- x1, top <- x2, popped <- x3, pc <- x4, count <- x5

ASSUME InstancesAreLegal ==
    /\ Linked!ListAssumption /\ Inheriting!AddressAssumption
    /\ Template!SizeAssumption /\ Template!TypeAssumption
    /\ FirstAssumption

-----------------------------------------------------------------------------
Unused8 == x8 = 0 /\ x9 = 0
Unused7 == x7 = 0 /\ Unused8
Unused6 == x6 = 0 /\ Unused7
Unused5 == x5 = 0 /\ Unused6
Unused3 == x3 = 0 /\ x4 = 0 /\ Unused5
Unused1 == x1 = 0 /\ x2 = 0 /\ Unused3

MCInit ==
    /\ Init
    /\ \/ part = "preemption" /\ Unused1
       \/ /\ slice = 3
          /\ \/ part = "processor" /\ Processor!Init /\ Unused8
             \/ part = "arithmetic" /\ Kane!Init /\ Unused8
             \/ part = "interpreters" /\ Interpreting!Init /\ Unused5
             \/ part = "decoders" /\ Decoding!Init /\ Unused3
             \/ part = "coff2noff" /\ ToNoff!Init
             \/ part = "coff2flat" /\ ToFlat!Init /\ Unused7
             \/ part = "disk" /\ Rotating!Init /\ Unused6
             \/ part = "list" /\ Linked!Init /\ Unused5
             \/ part = "stacks" /\ Inheriting!Init
             \/ part = "template" /\ Template!Init /\ Unused6

Kept1 == UNCHANGED <<part, x1, x2, x3, x4, x5, x6, x7, x8, x9>>
Kept3 == UNCHANGED <<part, x3, x4, x5, x6, x7, x8, x9>>
Kept5 == UNCHANGED <<part, x5, x6, x7, x8, x9>>
Kept6 == UNCHANGED <<part, x6, x7, x8, x9>>
Kept7 == UNCHANGED <<part, x7, x8, x9>>
Kept8 == UNCHANGED <<part, x8, x9>>

\* All but the clients of the list and of the stacks come to an end.
Rest == part \notin {"list", "stacks", "template"} /\ UNCHANGED MCvars

MCNext ==
    \/ part = "preemption" /\ Next /\ Kept1
    \/ /\ UNCHANGED vars
       /\ \/ part = "processor" /\ Processor!Next /\ Kept8
          \/ part = "arithmetic" /\ Kane!Next /\ Kept8
          \/ part = "interpreters" /\ Interpreting!Next /\ Kept5
          \/ part = "decoders" /\ Decoding!Next /\ Kept3
          \/ part = "coff2noff" /\ ToNoff!Next /\ UNCHANGED part
          \/ part = "coff2flat" /\ ToFlat!Next /\ Kept7
          \/ part = "disk" /\ Rotating!Next /\ Kept6
          \/ part = "list" /\ Linked!Next /\ Kept5
          \/ part = "stacks" /\ Inheriting!Next /\ UNCHANGED part
          \/ part = "template" /\ Template!Next /\ Kept6
    \/ Rest

MCSpec == MCInit /\ [][MCNext]_MCvars

-----------------------------------------------------------------------------
\* OneInstruction: programs compute the same with misses, system calls and
\* interrupts at any access, in the delay slots of branches and loads too, and
\* register 0 reads as zero at every instruction and every trap handler.
TrapsAreTransparent == part = "processor" => Processor!TypeOK /\ Processor!TrapsAreTransparent

\* ADD, ADDI and SUB of mipssim.cc write the exact result, or trap if and only if
\* there is none; Mult gives the double-length product; DIV leaves a quotient and
\* a remainder that give the dividend back; RaiseException applies a delayed load
\* before a handler looks at the registers.
InstructionsAreExact ==
    /\ [][part = "arithmetic" =>
             /\ Kane!ArithmeticIsExactStep
             /\ Kane!MultIsProductStep
             /\ Kane!DivisionIsExactStep]_MCvars
    /\ [][part = "processor" => Processor!HandlerSeesLoadsStep]_MCvars

\* mipssim.cc and bin/execute.c take a program through the same states, as long
\* as it consists of instructions to which both sources give the same meaning
\* (SameMeaning, which leaves out OR, some shifts, products, partial loads and
\* jumps); each of the others leaves them apart in its own destination only.  The
\* tables of mipssim.h and the codes of bin/encode.h give every word the same
\* operation and operands.
InterpretersAgree ==
    /\ part = "interpreters" => Interpreting!InterpretersAgree /\ Interpreting!DivergenceIsConfined
    /\ part = "decoders" => Decoding!DecodersAgree /\ Decoding!OperandsAgree

\* Whatever fails in coff2noff and whenever it is killed, a file with the NOFF
\* magic number puts every byte of code and data where it was linked for, in
\* segments that overlap neither each other nor the header.  The file coff2flat
\* writes is the memory image when the sections begin at address 0, leave no gap
\* and the uninitialised ones come last; in any order and with gaps the blank word
\* at its end lies a stack above every section and overwrites none of their bytes.
LoadedIsLinked ==
    /\ part = "coff2noff" => ToNoff!LoadedIsLinked /\ ToNoff!SegmentsAreApart
    /\ part = "coff2flat" => ToFlat!BlankWordIsApart /\ ToFlat!AdjacentIsImage

\* Disk::ComputeLatency is the time until the sector has passed under the head for
\* the first time after the seek, and the track buffer holds exactly the sectors
\* that have begun and passed since the head came to the track.
LatencyIsFirstPass ==
    part = "disk" => Rotating!LatencyIsFirstPass /\ Rotating!BufferHoldsWhatPassed

\* List is a sequence into which SortedInsert inserts stably, and from first one
\* comes to last through all elements, once each.
ImplementsSortedList ==
    /\ part = "list" => Linked!Abstract!Init
    /\ [](part = "list" => Linked!WellLinked)
    /\ [][part = "list" => [Linked!Abstract!Next]_(Linked!Abstracted)]_MCvars

\* Stack<T> is a bounded LIFO stack, in which what lies above top never shows, and
\* SelfTest leaves it empty.  ArrayStack and ListStack driven by the same calls
\* cannot be told apart, and the list under ListStack frees every element it
\* gives up.
ImplementsLifo ==
    /\ part = "template" => Template!Lifo!LifoInit
    /\ [](part = "template" => Template!TypeOK)
    /\ [](part = "stacks" => Inheriting!SameStack /\ Inheriting!NoLeak)
    /\ [][part = "template" =>
             [Template!Lifo!LifoNext]_(Template!Lifo!lifoVars) /\ Template!SelfTestEmptiesStep]_MCvars
=============================================================================
