-------------------------------- MODULE Mips --------------------------------
(***************************************************************************)
(* The user-mode CPU of machine/mipssim.cc under traps: one instruction at *)
(* a time, with its branch delay slot (PC, NextPC) and its load delay slot *)
(* (LoadReg, LoadValue), the misses that cut an instruction short, the     *)
(* system calls and the interrupts between two instructions.  The memory   *)
(* is the virtual memory of the program: translation is the business of    *)
(* AddrSpaces and Paging, here any access may miss.  PrevPC, written for   *)
(* debugging only, is left out.                                            *)
(*                                                                         *)
(* `ref' executes the same instructions with no miss and no interrupt.  It *)
(* is no part of the code: the properties compare the machine with it.     *)
(***************************************************************************)
EXTENDS MipsInstr

CONSTANTS Instrs,       \* the decoded instructions a program may hold
          StartRegs,    \* the register files it may start with
          StartMem,     \* its memory
          MaxSteps,     \* bound on the instructions executed
          MaxTraps      \* bound on misses and interrupts

VARIABLES cpu, mem, ref, steps, traps, status, handed

vars == <<cpu, mem, ref, steps, traps, status, handed>>

\* A program starts at PC 0, NextPC 4, with nothing pending.
Init ==
    /\ \E r \in StartRegs :
          cpu = [r |-> r, hi |-> 0, lo |-> 0, pc |-> 0, npc |-> 4,
                 lreg |-> 0, lval |-> 0, badv |-> 0]
    /\ mem = StartMem
    /\ ref = [cpu |-> cpu, mem |-> mem]
    /\ steps = 0 /\ traps = 0
    /\ status = "run"
    /\ handed = cpu.r

\* The memory accesses of an instruction, each of which may miss.
Accesses(i) ==
    {"fetch"} \cup (IF i.op \in LoadOps \cup LoadPartOps \cup StorePartOps THEN {"read"} ELSE {})
              \cup (IF i.op \in StoreOps \cup StorePartOps THEN {"write"} ELSE {})

\* Machine::RaiseException: the failing address, and any load in progress.
RaiseException(c, bad) == DelayedLoad([c EXCEPT !.badv = bad], 0, 0)

\* Mutant: forgetting the jump that a system call in a delay slot must still take.
returnFromSystemCallPlain(c) == [c EXCEPT !.pc = Wrap(c.pc + 4), !.npc = Wrap(c.pc + 8)]

\* exception.cc, returnFromSystemCall: PC, NextPC.
returnFromSystemCall(c) == [c EXCEPT !.pc = c.npc, !.npc = Wrap(c.npc + 4)]

\* A whole instruction, on the machine and on the reference.
Execute(i) ==
    LET o == Perform(cpu, mem, i)
        p == Perform(ref.cpu, ref.mem, i)
    IN  /\ status = "run" /\ steps < MaxSteps
        /\ o.status = "ok"
        /\ cpu' = Complete(cpu, o)
        /\ mem' = o.mem
        /\ ref' = IF p.status = "ok" THEN [cpu |-> Complete(ref.cpu, p), mem |-> p.mem] ELSE ref
        /\ steps' = steps + 1
        /\ UNCHANGED <<traps, status, handed>>

\* An access misses: the trap is taken, the handler loads the TLB, and Run
\* starts the instruction again.
Miss(i, at) ==
    /\ status = "run" /\ steps < MaxSteps /\ traps < MaxTraps
    /\ at \in Accesses(i)
    /\ at # "fetch" => Perform(cpu, mem, i).status = "ok"
    /\ cpu' = RaiseException(cpu, IF at = "fetch" THEN cpu.pc ELSE Address(cpu, i))
    /\ traps' = traps + 1
    /\ UNCHANGED <<mem, ref, steps, status, handed>>

\* A system call: the handler is handed the registers and moves the PC on.
Syscall(i) ==
    LET c == RaiseException(cpu, 0)
    IN  /\ status = "run" /\ steps < MaxSteps
        /\ Perform(cpu, mem, i).status = "SyscallException"
        /\ handed' = c.r
        /\ cpu' = returnFromSystemCall(c)
        /\ ref' = [ref EXCEPT !.cpu = Complete(ref.cpu, Begun(ref.cpu, ref.mem))]
        /\ steps' = steps + 1
        /\ UNCHANGED <<mem, traps, status>>

\* Any other exception, a failed assertion or a host fault ends the run:
\* ExceptionHandler asserts false.
Fails(i) ==
    LET o == Perform(cpu, mem, i)
    IN  /\ status = "run" /\ steps < MaxSteps
        /\ o.status \notin {"ok", "SyscallException"}
        /\ status' = o.status
        /\ cpu' = IF o.status \in {"Assert", "HostFault"} THEN cpu
                  ELSE RaiseException(cpu, IF o.status = "AddressErrorException"
                                           THEN Address(cpu, i) ELSE 0)
        /\ UNCHANGED <<mem, ref, steps, traps, handed>>

\* CheckIfDue delivers an interrupt after an instruction: OneTick in Run.
Interrupted ==
    /\ status = "run" /\ traps < MaxTraps /\ steps > 0
    /\ cpu' = DelayedLoad(cpu, 0, 0)
    /\ traps' = traps + 1
    /\ UNCHANGED <<mem, ref, steps, status, handed>>

\* Machine::Run.  The compiler keeps the delay slot of a load free of it.
Next ==
    \/ \E i \in Instrs :
          /\ ObeysLoadDelay(ref.cpu, i)
          /\ \/ Execute(i)
             \/ \E at \in {"fetch", "read", "write"} : Miss(i, at)
             \/ Syscall(i)
             \/ Fails(i)
    \/ Interrupted

Spec == Init /\ [][Next]_vars

-----------------------------------------------------------------------------
\* Register 0 reads as zero at every instruction and every trap handler,
\* whatever was written or loaded into it ("always make sure R0 stays zero").
TypeOK ==
    /\ cpu.r \in [Regs -> Words] /\ cpu.r[0] = 0 /\ handed[0] = 0
    /\ cpu.hi \in Words /\ cpu.lo \in Words
    /\ cpu.pc \in Words /\ cpu.npc \in Words
    /\ cpu.lreg \in Regs /\ cpu.lval \in Words /\ cpu.badv \in Words
    /\ mem \in [Words -> 0 .. ByteMod - 1]
    /\ steps \in 0 .. MaxSteps /\ traps \in 0 .. MaxTraps

\* "This allows us to re-start the instruction execution from the beginning"
\* (OneInstruction): however many accesses miss and interrupts come, between
\* or in the middle of instructions, in delay slots of branches and of loads,
\* the program computes what it computes undisturbed.
TrapsAreTransparent ==
    /\ Settled(cpu) = Settled(ref.cpu)
    /\ <<cpu.hi, cpu.lo, cpu.pc, cpu.npc>> = <<ref.cpu.hi, ref.cpu.lo, ref.cpu.pc, ref.cpu.npc>>
    /\ mem = ref.mem

\* "any delayed load must get applied before we trap to the kernel"
\* (DelayedLoad): the registers handed to a system call are those of the
\* undisturbed program with its last load arrived.
HandlerSeesLoadsStep ==
    \A i \in Instrs : Syscall(i) => handed' = Settled(ref.cpu)

-----------------------------------------------------------------------------
(* The instructions against the architecture they simulate ("Execute the   *)
(* instruction (cf. Kane's book)", mipssim.cc): results are stated on      *)
(* integers, not by the tricks of the code.                                *)

\* The instructions of the given kinds, and their operands.
Of(ops) == {i \in Instrs : i.op \in ops}
Rs(i) == cpu.r[i.rs]
Rt(i) == cpu.r[i.rt]

\* The integer an addition or subtraction is to give.
Exact(i) ==
    CASE i.op = "ADD" -> Signed(Rs(i)) + Signed(Rt(i))
      [] i.op = "ADDI" -> Signed(Rs(i)) + i.extra
      [] i.op = "SUB" -> Signed(Rs(i)) - Signed(Rt(i))

\* ADD, ADDI and SUB write the exact signed result, and trap only if there is
\* none, leaving the registers alone.
ArithmeticIsExactStep ==
    \A i \in Of({"ADD", "ADDI", "SUB"}) :
       /\ Execute(i) => Signed(cpu'.r[IF i.op = "ADDI" THEN i.rt ELSE i.rd]) = Exact(i)
       /\ Fails(i) => Exact(i) \notin -SignBit .. SignBit - 1 /\ cpu'.r = cpu.r

\* "The words at *hiPtr and *loPtr are overwritten with the double-length
\* result of the multiplication" (Mult), signed and unsigned.
MultIsProductStep ==
    /\ \A i \in Of({"MULT"}) : Execute(i) =>
          Signed(cpu'.hi) * WordMod + cpu'.lo = Signed(Rs(i)) * Signed(Rt(i))
    /\ \A i \in Of({"MULTU"}) : Execute(i) =>
          cpu'.hi * WordMod + cpu'.lo = Rs(i) * Rt(i)

\* A division leaves quotient and remainder: together they give the dividend
\* back, and the remainder has its sign and is smaller than the divisor.
DivisionIsExactStep ==
    \A i \in Of({"DIV"}) : Execute(i) /\ Rt(i) # 0 =>
       /\ Signed(Rs(i)) = Signed(cpu'.lo) * Signed(Rt(i)) + Signed(cpu'.hi)
       /\ Abs(Signed(cpu'.hi)) < Abs(Signed(Rt(i)))
       /\ Signed(cpu'.hi) * Signed(Rs(i)) >= 0
=============================================================================
