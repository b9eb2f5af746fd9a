---------------------------- MODULE Interpreter ----------------------------
(***************************************************************************)
(* bin/execute.c: the stand-alone MIPS interpreter of the tool directory,  *)
(* beside the CPU of mipssim.cc.  runprogram has no delayed loads, no      *)
(* overflow traps and no memory faults; pc, npc and xpc are kept another   *)
(* way.  e is its state (Reg, HI, LO, pc, npc, mem), named as in MipsInstr.*)
(* The two run the same instructions side by side, over those to which the *)
(* sources give the same meaning (SameMeaning); what the others do is      *)
(* compared from every state reached (DivergenceIsConfined).               *)
(***************************************************************************)
EXTENDS MipsInstr

CONSTANTS Instrs, StartRegs, StartMem, MaxSteps

VARIABLES cpu, mem, ex, steps

vars == <<cpu, mem, ex, steps>>

HalfBits == 2 * ByteBits

\* The shifts: amounts in a register are not masked, and C leaves it open what
\* one of a word or more gives; SameMeaning excludes those.
Shifts(e, i) ==
    LET b == e.r[i.rt]
        n == IF i.op \in {"SLL", "SRL", "SRA"} THEN i.extra ELSE e.r[i.rs]
    IN  [e EXCEPT !.r[i.rd] = CASE i.op \in {"SLL", "SLLV"} -> ShiftLeft(b, n)
                                [] i.op \in {"SRL", "SRLV"} -> ShiftRight(b, n)
                                [] i.op \in {"SRA", "SRAV"} -> ShiftRightArith(b, n)]

\* JR and JALR: npc is read before the link is written.
JumpRegister(e, i, xpc) ==
    LET e1 == [e EXCEPT !.npc = e.r[i.rs]]
    IN  IF i.op = "JALR" THEN [e1 EXCEPT !.r[i.rd] = Wrap(xpc + 8)] ELSE e1

MovesHiLo(e, i) ==
    CASE i.op = "MFHI" -> [e EXCEPT !.r[i.rd] = e.hi]
      [] i.op = "MFLO" -> [e EXCEPT !.r[i.rd] = e.lo]
      [] i.op = "MTHI" -> [e EXCEPT !.hi = e.r[i.rs]]
      [] i.op = "MTLO" -> [e EXCEPT !.lo = e.r[i.rs]]

\* HI from three of the four partial products of half words, as an int.
HighWord(t1, t2) ==
    LET h(t) == t \div HalfMod
        l(t) == t % HalfMod
        Cross(p) == Signed(ShiftRightArith(Wrap(p), HalfBits))
    IN  Wrap(h(t1) * h(t2) + Cross(h(t1) * l(t2)) + Cross(h(t2) * l(t1)))

\* MULT: signs first, complement last.
Mults(e, i) ==
    LET a == e.r[i.rs]
        b == e.r[i.rt]
        Pos(w) == IF Negative(w) THEN Wrap(0 - w) ELSE w
        lo == Wrap(Pos(a) * Pos(b))
        neg == Wrap(Complement(lo) + 1)
    IN  IF SignsDiffer(a, b)
        THEN [e EXCEPT !.lo = neg,
                       !.hi = Wrap(Complement(HighWord(Pos(a), Pos(b))) + BitOf(neg = 0))]
        ELSE [e EXCEPT !.lo = lo, !.hi = HighWord(Pos(a), Pos(b))]

Multus(e, i) ==
    [e EXCEPT !.lo = Wrap(e.r[i.rs] * e.r[i.rt]), !.hi = HighWord(e.r[i.rs], e.r[i.rt])]

\* Divisions, of a divisor that is not zero.
Divides(e, i) ==
    LET a == e.r[i.rs]
        b == e.r[i.rt]
    IN  IF i.op = "DIVU" THEN [e EXCEPT !.lo = a \div b, !.hi = a % b]
        ELSE [e EXCEPT !.lo = Wrap(Quot(Signed(a), Signed(b))),
                       !.hi = Wrap(Rem(Signed(a), Signed(b)))]

\* I_ADD .. I_SLTU.
ThreeRegisters(e, i) ==
    LET a == e.r[i.rs]
        b == e.r[i.rt]
    IN  [e EXCEPT !.r[i.rd] = CASE i.op \in {"ADD", "ADDU"} -> Wrap(a + b)
                                [] i.op \in {"SUB", "SUBU"} -> Wrap(a - b)
                                [] i.op = "AND" -> a & b
                                [] i.op = "OR" -> a | b
                                [] i.op = "XOR" -> a ^^ b
                                [] i.op = "NOR" -> Complement(a | b)
                                [] i.op = "SLT" -> BitOf(Signed(a) < Signed(b))
                                [] i.op = "SLTU" -> BitOf(a < b)]

\* I_BCOND: the linking ones write register 31 before they test rs.
Bconds(e, i, xpc) ==
    LET e1 == IF i.op \in LinkOps THEN [e EXCEPT !.r[R31] = Wrap(xpc + 8)] ELSE e
    IN  IF Negative(e1.r[i.rs]) = (i.op \in {"BLTZ", "BLTZAL"})
        THEN [e1 EXCEPT !.npc = Wrap(xpc + 4 + 4 * i.extra)] ELSE e1

\* I_J and I_JAL: the region of xpc.
Jumps(e, i, xpc) ==
    LET e1 == IF i.op = "JAL" THEN [e EXCEPT !.r[R31] = Wrap(xpc + 8)] ELSE e
    IN  [e1 EXCEPT !.npc = Wrap(Region(xpc) + 4 * i.extra)]

Branches(e, i, xpc) ==
    LET a == e.r[i.rs]
        taken == \/ i.op = "BEQ" /\ a = e.r[i.rt]
                 \/ i.op = "BNE" /\ a # e.r[i.rt]
                 \/ i.op = "BLEZ" /\ Signed(a) <= 0
                 \/ i.op = "BGTZ" /\ Signed(a) > 0
    IN  IF taken THEN [e EXCEPT !.npc = Wrap(xpc + 4 + 4 * i.extra)] ELSE e

\* I_ADDI .. I_LUI: every immediate is extended with its sign.
Immediates(e, i) ==
    LET a == e.r[i.rs]
        x == Wrap(i.extra)
    IN  [e EXCEPT !.r[i.rt] = CASE i.op \in {"ADDI", "ADDIU"} -> Wrap(a + x)
                                [] i.op = "SLTI" -> BitOf(Signed(a) < Signed(x))
                                [] i.op = "SLTIU" -> BitOf(a < x)
                                [] i.op = "ANDI" -> a & x
                                [] i.op = "ORI" -> a | x
                                [] i.op = "XORI" -> a ^^ x
                                [] i.op = "LUI" -> Wrap(i.extra * HalfMod)]

\* I_LB .. I_LWR, at an aligned address; LWL keeps all bits of the register
\* ((-1 >> n) is -1) and LWR none.
Loads(e, i) ==
    LET at == Address(e, i)
        w == BytesAt(e.mem, at, 4)
        h == BytesAt(e.mem, at, 2)
        b == BytesAt(e.mem, at, 1)
    IN  [e EXCEPT !.r[i.rt] = CASE i.op = "LB" -> Extend(b, ByteMod)
                                [] i.op = "LBU" -> b
                                [] i.op = "LH" -> Extend(h, HalfMod)
                                [] i.op = "LHU" -> h
                                [] i.op \in {"LW", "LWR"} -> w
                                [] i.op = "LWL" -> @ | w]

Stores(e, i) ==
    LET n == CASE i.op = "SB" -> 1 [] i.op = "SH" -> 2 [] i.op = "SW" -> 4
    IN  [e EXCEPT !.mem = WithBytes(@, Address(e, i), n, e.r[i.rt])]

\* Mutant: register 0 not cleared.
TopKeepingR0(e) == [e EXCEPT !.pc = e.npc, !.npc = Wrap(e.npc + 4)]

\* The top of the loop: xpc = pc; pc = npc; npc = pc + 4; Reg[0] = 0.
Top(e) == [e EXCEPT !.pc = e.npc, !.npc = Wrap(e.npc + 4), !.r[0] = 0]

\* One turn of the loop in runprogram.
Interpret(e0, i) ==
    LET e == Top(e0)
        xpc == e0.pc
    IN  CASE i.op \in LeftShiftOps \cup RightShiftOps -> Shifts(e, i)
          [] i.op \in {"JR", "JALR"} -> JumpRegister(e, i, xpc)
          [] i.op \in HiLoOps -> MovesHiLo(e, i)
          [] i.op = "MULT" -> Mults(e, i)
          [] i.op = "MULTU" -> Multus(e, i)
          [] i.op \in DivOps -> Divides(e, i)
          [] i.op \in {"ADD", "ADDU", "SUB", "SUBU", "AND", "OR", "XOR", "NOR", "SLT", "SLTU"} ->
                ThreeRegisters(e, i)
          [] i.op \in {"BLTZ", "BGEZ", "BLTZAL", "BGEZAL"} -> Bconds(e, i, xpc)
          [] i.op \in {"J", "JAL"} -> Jumps(e, i, xpc)
          [] i.op \in {"BEQ", "BNE", "BLEZ", "BGTZ"} -> Branches(e, i, xpc)
          [] i.op \in {"ADDI", "ADDIU", "SLTI", "SLTIU", "ANDI", "ORI", "XORI", "LUI"} ->
                Immediates(e, i)
          [] i.op \in LoadOps \cup LoadPartOps -> Loads(e, i)
          [] i.op \in StoreOps -> Stores(e, i)

\* Where runprogram ends: a division by zero stops the host program, and the
\* partial stores are not implemented.
Stops(c, i) == (i.op \in DivOps /\ c.r[i.rt] = 0) \/ i.op \in StorePartOps

\* The register an instruction whose meanings differ writes.
Destination(i) ==
    IF i.op \in {"ANDI", "ORI", "XORI"} \cup LoadPartOps THEN {i.rt}
    ELSE IF i.op \in LinkOps THEN {R31}
    ELSE IF i.op \in {"OR", "SRL", "SLLV", "SRLV", "SRAV", "JALR"} THEN {i.rd}
    ELSE {}

\* Where the two sources give an instruction the same meaning.  They part on
\* the OR and the logical right shifts of mipssim.cc, on what execute.c does
\* with register shift amounts of a word or more, negative logical immediates,
\* the lower partial products of MULT and MULTU, zero divisors, LWL and LWR,
\* and on code no compiler emits: JALR of its own link register, jumps in
\* delay slots or across regions.
Small(w) == Abs(Signed(w)) < HalfMod
SameMeaning(c, i) ==
    LET a == c.r[i.rs]
        b == c.r[i.rt]
    IN  /\ i.op = "OR" => (a | b) = a
        /\ i.op \in {"SRL", "SRLV"} => ~Negative(b)
        /\ i.op \in {"SLLV", "SRLV", "SRAV"} => a < WordBits
        /\ i.op \in {"ANDI", "ORI", "XORI"} => i.extra >= 0
        /\ i.op = "MULT" => Small(a) /\ Small(b)
        /\ i.op = "MULTU" => a < HalfMod /\ b < HalfMod
        /\ i.op = "LWL" => Settled(c)[i.rt] = 0
        /\ i.op # "LWR" /\ ~Stops(c, i)
        /\ i.op = "JALR" => i.rd # i.rs
        /\ i.op \in BranchOps \cup JumpOps => c.npc = Wrap(c.pc + 4)
        /\ i.op \in {"J", "JAL"} => Region(c.pc) = Region(Wrap(c.npc + 4))

Init ==
    /\ \E r \in StartRegs :
          /\ cpu = [r |-> r, hi |-> 0, lo |-> 0, pc |-> 0, npc |-> 4, lreg |-> 0, lval |-> 0]
          /\ ex = [r |-> r, hi |-> 0, lo |-> 0, pc |-> 0, npc |-> 4, mem |-> StartMem]
    /\ mem = StartMem
    /\ steps = 0

\* One instruction on both.
Both(i) ==
    LET o == Perform(cpu, mem, i)
    IN  /\ steps < MaxSteps
        /\ ObeysLoadDelay(cpu, i) /\ SameMeaning(cpu, i)
        /\ o.status = "ok"
        /\ cpu' = Complete(cpu, o)
        /\ mem' = o.mem
        /\ ex' = Interpret(ex, i)
        /\ steps' = steps + 1

Next == \E i \in Instrs : Both(i)

Spec == Init /\ [][Next]_vars

-----------------------------------------------------------------------------
\* OneInstruction with its delay slots and runprogram without delayed loads
\* take a program of such instructions through the same registers, memory and
\* program counters, once the load pending in the first has arrived.
InterpretersAgree ==
    /\ Settled(cpu) = [ex.r EXCEPT ![0] = 0]
    /\ <<cpu.hi, cpu.lo, cpu.pc, cpu.npc>> = <<ex.hi, ex.lo, ex.pc, ex.npc>>
    /\ mem = ex.mem

\* The two part in one place only, over all instructions that both carry out.
\* From a state in which they agree, an instruction they give different
\* meanings leaves different values in no more than its own destination: one
\* register, HI of a product (LO is the same for all operands), or the target
\* and the link of a jump in a delay slot or across regions.  Memory and all
\* other registers stay the same.
DivergenceIsConfined ==
    \A i \in {j \in Instrs : ~SameMeaning(cpu, j) /\ ~Stops(cpu, j) /\ ObeysLoadDelay(cpu, j)} :
        LET o == Perform(cpu, mem, i)
            c == Complete(cpu, o)
            e == Interpret(ex, i)
        IN  o.status = "ok" =>
                /\ \A r \in Regs \ (Destination(i) \cup {0}) : Settled(c)[r] = e.r[r]
                /\ <<c.lo, c.pc, o.mem>> = <<e.lo, e.pc, e.mem>>
                /\ i.op \notin MultOps => c.hi = e.hi
                /\ i.op \notin BranchOps \cup JumpOps => c.npc = e.npc
=============================================================================
