------------------------------ MODULE Decoder ------------------------------
(***************************************************************************)
(* Instruction::Decode of machine/mipssim.cc with the tables of mipssim.h, *)
(* and the other decoder of the repository: the switch of bin/execute.c on *)
(* the codes of bin/encode.h and the field macros of bin/instr.h.  A word  *)
(* is kept as its fields, at full width:                                   *)
(*    op (6) rs (5) rt (5) rd (5) shamt (5) funct (6).                     *)
(***************************************************************************)
EXTENDS Integers, Sequences

CONSTANT Fetched        \* the instruction words a program may hold

VARIABLES word, decoded

vars == <<word, decoded>>

Res(n) == [k \in 1 .. n |-> "RES"]
Unimp(n) == [k \in 1 .. n |-> "UNIMP"]

\* mipssim.h, opTable (bits 31:26) and specialTable (the funct field).
opTable ==
    <<"SPECIAL", "BCOND", "J", "JAL", "BEQ", "BNE", "BLEZ", "BGTZ", "ADDI", "ADDIU", "SLTI",
      "SLTIU", "ANDI", "ORI", "XORI", "LUI">>
    \o Unimp(4) \o Res(12)
    \o <<"LB", "LH", "LWL", "LW", "LBU", "LHU", "LWR", "RES", "SB", "SH", "SWL", "SW",
         "RES", "RES", "SWR", "RES">>
    \o Unimp(4) \o Res(4) \o Unimp(4) \o Res(4)

\* mipssim.h, specialTable.
specialTable ==
    <<"SLL", "RES", "SRL", "SRA", "SLLV", "RES", "SRLV", "SRAV", "JR", "JALR", "RES", "RES",
      "SYSCALL", "UNIMP", "RES", "RES", "MFHI", "MTHI", "MFLO", "MTLO">> \o Res(4)
    \o <<"MULT", "MULTU", "DIV", "DIVU">> \o Res(4)
    \o <<"ADD", "ADDU", "SUB", "SUBU", "AND", "OR", "XOR", "NOR", "RES", "RES", "SLT", "SLTU">>
    \o Res(20)

Format(op) == CASE op = "SPECIAL" -> "RFMT" [] op \in {"J", "JAL"} -> "JFMT"
                [] op \notin {"SPECIAL", "J", "JAL"} -> "IFMT"

\* The low 16 and the low 26 bits of a word.
Low16(w) == w.rd * 2 ^ 11 + w.shamt * 2 ^ 6 + w.funct
Low26(w) == w.rs * 2 ^ 21 + w.rt * 2 ^ 16 + Low16(w)

\* Instruction::Decode, extra: immediates are sign-extended.
Extra(w, op) ==
    CASE Format(op) = "IFMT" -> IF Low16(w) >= 2 ^ 15 THEN Low16(w) - 2 ^ 16 ELSE Low16(w)
      [] Format(op) = "RFMT" -> w.shamt
      [] Format(op) = "JFMT" -> Low26(w)

\* Instruction::Decode, opCode.
OpCode(w) ==
    LET op == opTable[w.op + 1]
    IN  CASE op = "SPECIAL" -> specialTable[w.funct + 1]
          [] op = "BCOND" /\ w.rt = 0 -> "BLTZ"
          [] op = "BCOND" /\ w.rt = 1 -> "BGEZ"
          [] op = "BCOND" /\ w.rt = 16 -> "BLTZAL"
          [] op = "BCOND" /\ w.rt = 17 -> "BGEZAL"
          [] op = "BCOND" /\ w.rt \notin {0, 1, 16, 17} -> "UNIMP"
          [] op \notin {"SPECIAL", "BCOND"} -> op

Init ==
    /\ word \in Fetched
    /\ decoded = [op |-> "none", rs |-> 0, rt |-> 0, rd |-> 0, extra |-> 0]

\* Instruction::Decode.
Decode ==
    /\ decoded.op = "none"
    /\ decoded' = [op |-> OpCode(word), rs |-> word.rs, rt |-> word.rt, rd |-> word.rd,
                   extra |-> Extra(word, opTable[word.op + 1])]
    /\ UNCHANGED word

Next == Decode

Spec == Init /\ [][Next]_vars

-----------------------------------------------------------------------------
\* bin/encode.h: the codes of bits 31:26, of the funct and of the rt field.
normalOpcodes ==
    [SPECIAL |-> 0, BCOND |-> 1, J |-> 2, JAL |-> 3, BEQ |-> 4, BNE |-> 5, BLEZ |-> 6, BGTZ |-> 7,
     ADDI |-> 8, ADDIU |-> 9, SLTI |-> 10, SLTIU |-> 11, ANDI |-> 12, ORI |-> 13, XORI |-> 14,
     LUI |-> 15, COP0 |-> 16, COP1 |-> 17, COP2 |-> 18, COP3 |-> 19,
     LB |-> 32, LH |-> 33, LWL |-> 34, LW |-> 35, LBU |-> 36, LHU |-> 37, LWR |-> 38,
     SB |-> 40, SH |-> 41, SWL |-> 42, SW |-> 43, SWR |-> 46,
     LWC0 |-> 48, LWC1 |-> 49, LWC2 |-> 50, LWC3 |-> 51,
     SWC0 |-> 56, SWC1 |-> 57, SWC2 |-> 58, SWC3 |-> 59]
specialOpcodes ==
    [SLL |-> 0, SRL |-> 2, SRA |-> 3, SLLV |-> 4, SRLV |-> 6, SRAV |-> 7, JR |-> 8, JALR |-> 9,
     SYSCALL |-> 12, BREAK |-> 13, MFHI |-> 16, MTHI |-> 17, MFLO |-> 18, MTLO |-> 19,
     MULT |-> 24, MULTU |-> 25, DIV |-> 26, DIVU |-> 27, ADD |-> 32, ADDU |-> 33, SUB |-> 34,
     SUBU |-> 35, AND |-> 36, OR |-> 37, XOR |-> 38, NOR |-> 39, SLT |-> 42, SLTU |-> 43]
bcondOpcodes == [BLTZ |-> 0, BGEZ |-> 1, BLTZAL |-> 16, BGEZAL |-> 17]

\* The case a switch on these codes takes; "default" for u().
Case(codes, n) ==
    IF \E k \in DOMAIN codes : codes[k] = n THEN CHOOSE k \in DOMAIN codes : codes[k] = n
    ELSE "default"

\* execute.c: the switches of runprogram.
Dispatch(w) ==
    LET op == Case(normalOpcodes, w.op)
    IN  CASE op = "SPECIAL" -> Case(specialOpcodes, w.funct)
          [] op = "BCOND" -> Case(bcondOpcodes, w.rt)
          [] op \notin {"SPECIAL", "BCOND"} -> op

\* instr.h: immed, shamt and the 26 bits of off26.
Immed(w) == IF (Low16(w) \div 2 ^ 15) % 2 = 1 THEN Low16(w) - 2 ^ 16 ELSE Low16(w) % 2 ^ 15
Operand(w) ==
    CASE w.op = 0 -> w.shamt
      [] w.op \in {normalOpcodes.J, normalOpcodes.JAL} -> Low26(w)
      [] w.op \notin {0, normalOpcodes.J, normalOpcodes.JAL} -> Immed(w)

\* What mipssim.cc has no instruction for (breakpoints and coprocessors).
Unsupported == {"default", "BREAK", "COP0", "COP1", "COP2", "COP3", "LWC0", "LWC1", "LWC2", "LWC3",
                "SWC0", "SWC1", "SWC2", "SWC3"}

\* The tables of mipssim.h and the codes of encode.h, written apart, give each
\* word the same operation; RES and UNIMP are exactly what is left.
DecodersAgree ==
    decoded.op # "none" =>
        IF decoded.op \in {"RES", "UNIMP"} THEN Dispatch(word) \in Unsupported
        ELSE Dispatch(word) = decoded.op

\* "Immediates are sign-extended" (machine.h): both decoders read the same
\* immediate, shift amount or target out of a word, at the sign boundary too.
OperandsAgree == decoded.op # "none" => decoded.extra = Operand(word)
=============================================================================
