----------------------------- MODULE MipsInstr -----------------------------
(***************************************************************************)
(* What each instruction of machine/mipssim.cc computes: the switch of     *)
(* Machine::OneInstruction, one operator per group of its cases.  c is the *)
(* CPU (registers r, hi, lo, pc, npc, the pending load lreg and lval), mm  *)
(* the memory, i a decoded instruction; a, b and x are registers[rs],      *)
(* registers[rt] and the extended immediate.                               *)
(***************************************************************************)
EXTENDS Integers, Bitwise

CONSTANTS ByteBits,     \* width of a byte (8 in the code)
          R31,          \* the link register, and the last one
          TargetBits    \* width of a jump target (26 in the code)

ASSUME ByteBitsAssumption == ByteBits \in Nat \ {0}

\* A word is four bytes, a half word two; they are kept as unsigned numbers, and
\* Signed reads one in two's complement.
ByteMod == 2 ^ ByteBits
HalfMod == ByteMod ^ 2
WordBits == 4 * ByteBits
WordMod == 2 ^ WordBits
SignBit == WordMod \div 2
Words == 0 .. WordMod - 1

Wrap(x) == x % WordMod
Negative(w) == w >= SignBit
Signed(w) == IF Negative(w) THEN w - WordMod ELSE w

\* The low part of a word modulo m, with and without its sign.
Extend(v, m) == IF v % m >= m \div 2 THEN Wrap((v % m) - m) ELSE v % m

Complement(w) == WordMod - 1 - w
ShiftLeft(w, n) == Wrap(w * 2 ^ n)
ShiftRight(w, n) == w \div 2 ^ n
ShiftRightArith(w, n) == Wrap(Signed(w) \div 2 ^ n)
BitOf(b) == IF b THEN 1 ELSE 0

\* C division of signed numbers truncates towards zero.
Abs(x) == IF x < 0 THEN -x ELSE x
Quot(a, b) == (IF (a < 0) = (b < 0) THEN 1 ELSE -1) * (Abs(a) \div Abs(b))
Rem(a, b) == a - b * Quot(a, b)

\* n bytes of a little-endian memory, read and written.
BytesAt(mem, addr, n) ==
    LET Part(k) == IF k < n THEN mem[Wrap(addr + k)] * ByteMod ^ k ELSE 0
    IN  Part(0) + Part(1) + Part(2) + Part(3)
WithBytes(mem, addr, n, v) ==
    [a \in DOMAIN mem |->
        LET k == Wrap(a - addr)
        IN  IF k < n THEN (v \div ByteMod ^ k) % ByteMod ELSE mem[a]]

-----------------------------------------------------------------------------
Regs == 0 .. R31

\* What an instruction leaves: nothing changed yet, and pcAfter.
Begun(c, mm) ==
    [status |-> "ok", r |-> c.r, hi |-> c.hi, lo |-> c.lo,
     after |-> Wrap(c.npc + 4), lreg |-> 0, lval |-> 0, mem |-> mm]
Put(o, reg, v) == [o EXCEPT !.r[reg] = v]
PutHiLo(o, h, l) == [o EXCEPT !.hi = h, !.lo = l]
Stop(o, why) == [o EXCEPT !.status = why]

SignsDiffer(v, w) == Negative(v) # Negative(w)

AddOps == {"ADD", "ADDI", "ADDIU", "ADDU", "AND", "ANDI"}
AddAnd(o, i, a, b, x) ==
    CASE i.op = "ADD" ->
            IF ~SignsDiffer(a, b) /\ SignsDiffer(a, Wrap(a + b))
            THEN Stop(o, "OverflowException") ELSE Put(o, i.rd, Wrap(a + b))
      [] i.op = "ADDI" ->
            IF ~SignsDiffer(a, x) /\ SignsDiffer(x, Wrap(a + x))
            THEN Stop(o, "OverflowException") ELSE Put(o, i.rt, Wrap(a + x))
      [] i.op = "ADDIU" -> Put(o, i.rt, Wrap(a + x))
      [] i.op = "ADDU" -> Put(o, i.rd, Wrap(a + b))
      [] i.op = "AND" -> Put(o, i.rd, a & b)
      [] i.op = "ANDI" -> Put(o, i.rt, a & (x % HalfMod))

SubOps == {"SUB", "SUBU"}

\* SUB traps on overflow, SUBU does not.
Sub(o, i, a, b) ==
    IF i.op = "SUB" /\ SignsDiffer(a, b) /\ SignsDiffer(a, Wrap(a - b))
    THEN Stop(o, "OverflowException") ELSE Put(o, i.rd, Wrap(a - b))

LogicOps == {"NOR", "OR", "ORI"}
Logic(o, i, a, b, x) ==
    CASE i.op = "NOR" -> Put(o, i.rd, Complement(a | b))
      [] i.op = "OR" -> Put(o, i.rd, a | a)
      [] i.op = "ORI" -> Put(o, i.rt, a | (x % HalfMod))

XorOps == {"XOR", "XORI"}
Xors(o, i, a, b, x) ==
    IF i.op = "XOR" THEN Put(o, i.rd, a ^^ b) ELSE Put(o, i.rt, a ^^ (x % HalfMod))

CompareOps == {"SLT", "SLTI", "SLTIU", "SLTU"}
Compare(o, i, a, b, x) ==
    CASE i.op = "SLT" -> Put(o, i.rd, BitOf(Signed(a) < Signed(b)))
      [] i.op = "SLTI" -> Put(o, i.rt, BitOf(Signed(a) < Signed(x)))
      [] i.op = "SLTIU" -> Put(o, i.rt, BitOf(a < x))
      [] i.op = "SLTU" -> Put(o, i.rd, BitOf(a < b))

LeftShiftOps == {"SLL", "SLLV"}
LeftShift(o, i, a, b) ==
    Put(o, i.rd, ShiftLeft(b, IF i.op = "SLL" THEN i.extra ELSE a % WordBits))

\* tmp is an int: the four right shifts all copy the sign.
RightShiftOps == {"SRA", "SRAV", "SRL", "SRLV"}
RightShift(o, i, a, b) ==
    Put(o, i.rd, ShiftRightArith(b, IF i.op \in {"SRA", "SRL"} THEN i.extra ELSE a % WordBits))

HiLoOps == {"MFHI", "MFLO", "MTHI", "MTLO"}
MoveHiLo(o, i, a) ==
    CASE i.op = "MFHI" -> Put(o, i.rd, o.hi)
      [] i.op = "MFLO" -> Put(o, i.rd, o.lo)
      [] i.op = "MTHI" -> [o EXCEPT !.hi = a]
      [] i.op = "MTLO" -> [o EXCEPT !.lo = a]

\* The smallest number divided by -1 is a fault of the host.
DivOps == {"DIV", "DIVU"}
Divide(o, i, a, b) ==
    CASE b = 0 -> PutHiLo(o, 0, 0)
      [] b # 0 /\ i.op = "DIV" ->
            IF a = SignBit /\ Signed(b) = -1 THEN Stop(o, "HostFault")
            ELSE PutHiLo(o, Wrap(Rem(Signed(a), Signed(b))), Wrap(Quot(Signed(a), Signed(b))))
      [] b # 0 /\ i.op = "DIVU" -> PutHiLo(o, a % b, a \div b)

\* The loop of Mult: a's bits one at a time, adding a shifted b; a is shifted
\* as an int, so the sign of an unsigned a is copied in from the left.
RECURSIVE MultLoop(_, _)
MultLoop(s, n) ==
    LET odd == s.a % 2 = 1
        lo == IF odd THEN Wrap(s.lo + s.bLo) ELSE s.lo
        carry == BitOf(odd /\ lo < s.bLo)
        hi == IF odd THEN Wrap(s.hi + carry + s.bHi) ELSE s.hi
    IN  IF n = WordBits THEN [hi |-> s.hi, lo |-> s.lo]
        ELSE IF s.a = 1 THEN [hi |-> hi, lo |-> lo]
        ELSE MultLoop([a |-> ShiftRightArith(s.a, 1), bLo |-> ShiftLeft(s.bLo, 1),
                       bHi |-> Wrap(2 * s.bHi + BitOf(Negative(s.bLo))),
                       lo |-> lo, hi |-> hi], n + 1)

\* Mutant: without the carry from the complemented low word.
MultNoCarry(a, b, signedArith) ==
    LET Pos(w) == IF signedArith /\ Negative(w) THEN Wrap(0 - w) ELSE w
        p == MultLoop([a |-> Pos(a), bLo |-> Pos(b), bHi |-> 0, lo |-> 0, hi |-> 0], 0)
    IN  IF signedArith /\ SignsDiffer(a, b)
        THEN [hi |-> Complement(p.hi), lo |-> Wrap(Complement(p.lo) + 1)]
        ELSE p

\* Mult: signs first, then the unsigned product, then the two's complement.
Mult(a, b, signedArith) ==
    LET Pos(w) == IF signedArith /\ Negative(w) THEN Wrap(0 - w) ELSE w
        p == MultLoop([a |-> Pos(a), bLo |-> Pos(b), bHi |-> 0, lo |-> 0, hi |-> 0], 0)
        lo == Wrap(Complement(p.lo) + 1)
    IN  IF a = 0 \/ b = 0 THEN [hi |-> 0, lo |-> 0]
        ELSE IF signedArith /\ SignsDiffer(a, b)
        THEN [hi |-> Wrap(Complement(p.hi) + BitOf(lo = 0)), lo |-> lo]
        ELSE p

\* The two multiplications of OneInstruction.
MultOps == {"MULT", "MULTU"}
Multiply(o, i, a, b) ==
    LET p == Mult(a, b, i.op = "MULT") IN PutHiLo(o, p.hi, p.lo)

\* Branches: the linking ones write R31 before they test rs.
LinkOps == {"BGEZAL", "BLTZAL", "JAL"}
BranchOps == {"BEQ", "BGEZAL", "BGEZ", "BGTZ", "BLEZ", "BLTZAL", "BLTZ", "BNE"}
Branch(c, o, i) ==
    LET p == IF i.op \in LinkOps THEN Put(o, R31, Wrap(c.npc + 4)) ELSE o
        a == p.r[i.rs]
        b == p.r[i.rt]
        taken == \/ i.op = "BEQ" /\ a = b
                 \/ i.op = "BNE" /\ a # b
                 \/ i.op \in {"BGEZAL", "BGEZ"} /\ ~Negative(a)
                 \/ i.op \in {"BLTZAL", "BLTZ"} /\ Negative(a)
                 \/ i.op = "BGTZ" /\ Signed(a) > 0
                 \/ i.op = "BLEZ" /\ Signed(a) <= 0
    IN  IF taken THEN [p EXCEPT !.after = Wrap(c.npc + 4 * i.extra)] ELSE p

\* Jumps; JALR writes rd before it reads rs.
JumpOps == {"J", "JAL", "JALR", "JR"}
Region(w) == w - (w % 2 ^ (TargetBits + 2))
Jump(c, o, i) ==
    LET link == Wrap(c.npc + 4)
        p == CASE i.op = "JAL" -> Put(o, R31, link)
               [] i.op = "JALR" -> Put(o, i.rd, link)
               [] i.op \in {"J", "JR"} -> o
    IN  [p EXCEPT !.after = IF i.op \in {"J", "JAL"} THEN Wrap(Region(o.after) + 4 * i.extra)
                            ELSE p.r[i.rs]]

Address(c, i) == Wrap(c.r[i.rs] + i.extra)

\* LB, LBU, LH, LHU and LW: the value arrives one instruction later.
LoadOps == {"LB", "LBU", "LH", "LHU", "LW"}
Load(c, o, i) ==
    LET n == CASE i.op \in {"LB", "LBU"} -> 1 [] i.op \in {"LH", "LHU"} -> 2 [] i.op = "LW" -> 4
        v == BytesAt(o.mem, Address(c, i), n)
    IN  IF Address(c, i) % n # 0 THEN Stop(o, "AddressErrorException")
        ELSE [o EXCEPT !.lreg = i.rt,
                       !.lval = IF i.op \in {"LB", "LH"} THEN Extend(v, ByteMod ^ n) ELSE v]

\* LWL and LWR: an assertion leaves only aligned addresses, and they merge
\* with the load still pending for their register.
LoadPartOps == {"LWL", "LWR"}
LoadPart(c, o, i) ==
    LET v == BytesAt(o.mem, Address(c, i), 4)
        old == IF c.lreg = i.rt THEN c.lval ELSE c.r[i.rt]
    IN  IF Address(c, i) % 4 # 0 THEN Stop(o, "Assert")
        ELSE [o EXCEPT !.lreg = i.rt,
                       !.lval = IF i.op = "LWL" THEN v
                                ELSE old - (old % ByteMod) + v \div ByteMod ^ 3]

\* SB, SH and SW; Translate checks the alignment.
StoreOps == {"SB", "SH", "SW"}
Store(c, o, i, b) ==
    LET n == CASE i.op = "SB" -> 1 [] i.op = "SH" -> 2 [] i.op = "SW" -> 4
    IN  IF Address(c, i) % n # 0 THEN Stop(o, "AddressErrorException")
        ELSE [o EXCEPT !.mem = WithBytes(@, Address(c, i), n, b)]

\* SWL and SWR: read, merge, write back.
StorePartOps == {"SWL", "SWR"}
StorePart(c, o, i, b) ==
    LET v == BytesAt(o.mem, Address(c, i), 4)
        merged == IF i.op = "SWL" THEN b ELSE (v % ByteMod ^ 3) + (b % ByteMod) * ByteMod ^ 3
    IN  IF Address(c, i) % 4 # 0 THEN Stop(o, "Assert")
        ELSE [o EXCEPT !.mem = WithBytes(@, Address(c, i), 4, merged)]

LuiOps == {"LUI"}
Lui(o, i) == Put(o, i.rt, Wrap(i.extra * HalfMod))

\* The switch of OneInstruction.
Perform(c, mm, i) ==
    LET o == Begun(c, mm)
        a == c.r[i.rs]
        b == c.r[i.rt]
        x == Wrap(i.extra)
    IN  CASE i.op \in AddOps -> AddAnd(o, i, a, b, x)
          [] i.op \in SubOps -> Sub(o, i, a, b)
          [] i.op \in LogicOps -> Logic(o, i, a, b, x)
          [] i.op \in XorOps -> Xors(o, i, a, b, x)
          [] i.op \in CompareOps -> Compare(o, i, a, b, x)
          [] i.op \in LeftShiftOps -> LeftShift(o, i, a, b)
          [] i.op \in RightShiftOps -> RightShift(o, i, a, b)
          [] i.op \in HiLoOps -> MoveHiLo(o, i, a)
          [] i.op \in DivOps -> Divide(o, i, a, b)
          [] i.op \in MultOps -> Multiply(o, i, a, b)
          [] i.op \in BranchOps -> Branch(c, o, i)
          [] i.op \in JumpOps -> Jump(c, o, i)
          [] i.op \in LoadOps -> Load(c, o, i)
          [] i.op \in LoadPartOps -> LoadPart(c, o, i)
          [] i.op \in StoreOps -> Store(c, o, i, b)
          [] i.op \in StorePartOps -> StorePart(c, o, i, b)
          [] i.op \in LuiOps -> Lui(o, i)
          [] i.op = "SYSCALL" -> Stop(o, "SyscallException")
          [] i.op \in {"RES", "UNIMP"} -> Stop(o, "IllegalInstrException")

\* Machine::DelayedLoad: the pending load is applied, the next one recorded.
DelayedLoad(c, nextReg, nextValue) ==
    [c EXCEPT !.r = [[@ EXCEPT ![c.lreg] = c.lval] EXCEPT ![0] = 0],
              !.lreg = nextReg, !.lval = nextValue]

\* The end of OneInstruction: delayed load, then the program counters.
Complete(c, o) ==
    [DelayedLoad([c EXCEPT !.r = o.r, !.hi = o.hi, !.lo = o.lo], o.lreg, o.lval)
        EXCEPT !.pc = c.npc, !.npc = o.after]

\* The registers once the pending load has arrived.
Settled(c) == DelayedLoad(c, 0, 0).r

\* The registers an instruction may not touch while a load of them is
\* pending; LWL and LWR may, to complete an unaligned load.
Touches(i) ==
    IF i.op \in LoadPartOps THEN {i.rs}
    ELSE {i.rs, i.rt, i.rd} \cup (IF i.op \in LinkOps THEN {R31} ELSE {})
ObeysLoadDelay(c, i) == c.lreg = 0 \/ c.lreg \notin Touches(i)
=============================================================================
