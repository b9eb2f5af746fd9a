----------------------------- MODULE Preemptive -----------------------------
(***************************************************************************)
(* threads/preemptive.cc: the parent process single-steps Nachos with      *)
(* ptrace and, every timeSliceLength instructions, makes it call           *)
(* ContextSwitch in the middle of whatever it was doing.                   *)
(*                                                                         *)
(* reg is the registers of the host CPU; each kernel thread has its pc and *)
(* its stack of calls to ContextSwitch (where to return to, and what was   *)
(* pushed).  A thread computes something in reg in one instruction ("set") *)
(* and uses it in the next ("use").  The steps of ContextSwitch and of     *)
(* Thread::Yield are single instructions here.  The flags register, which  *)
(* ContextSwitch does not save, is left out.                               *)
(* The word PTRACE_PEEKDATA reads at inContextSwitch is taken to hold      *)
(* nothing else, and signals other than the single step are left out.      *)
(***************************************************************************)
EXTENDS Integers, Sequences, FiniteSets

CONSTANTS Threads, First,
          Slices,       \* the values timeSliceLength may have
          MaxDepth,     \* bound on calls to ContextSwitch on one stack
          Junk          \* a register value no thread computes

FirstAssumption == First \in Threads

VARIABLES pc, stack, ready, current, reg, level, inContextSwitch,
          yieldOnReturn, counter, slice, turn, child, monitor

mon == <<counter, slice, monitor>>
vars == <<pc, stack, ready, current, reg, level, inContextSwitch,
          yieldOnReturn, counter, slice, turn, child, monitor>>

\* SetUp: fork; the child raises a signal and stops, the parent waits.
Init ==
    /\ pc = [t \in Threads |-> IF t = First THEN "set" ELSE "none"]
    /\ stack = [t \in Threads |-> <<>>]
    /\ ready = <<>>
    /\ current = First
    /\ reg = Junk
    /\ level = "IntOn"
    /\ inContextSwitch = FALSE /\ yieldOnReturn = FALSE
    /\ counter = 1 /\ slice \in Slices
    /\ turn = "monitor" /\ child = "runs" /\ monitor = "waits"

-----------------------------------------------------------------------------
\* The child: one instruction, then it stops.
Step(from, to) ==
    /\ turn = "child" /\ child = "runs" /\ pc[current] = from
    /\ pc' = [pc EXCEPT ![current] = to]
    /\ turn' = "monitor"
    /\ UNCHANGED <<child, mon>>
Top == stack[current][Len(stack[current])]

Compute == Step("set", "use") /\ reg' = current
           /\ UNCHANGED <<stack, ready, current, level, inContextSwitch, yieldOnReturn>>
Use == Step("use", "set") /\ UNCHANGED <<stack, ready, current, reg, level, inContextSwitch, yieldOnReturn>>

\* Thread::Fork: interrupts off, a new ready thread, interrupts back on.
ForkOff ==
    /\ \E t \in Threads : pc[t] = "none"
    /\ Step("set", "fork")
    /\ level' = "IntOff"
    /\ UNCHANGED <<stack, ready, current, reg, inContextSwitch, yieldOnReturn>>
ForkReady == \E t \in Threads :
    /\ turn = "child" /\ child = "runs" /\ pc[current] = "fork" /\ pc[t] = "none"
    /\ pc' = [pc EXCEPT ![current] = "on", ![t] = "on"]
    /\ ready' = Append(ready, t)
    /\ turn' = "monitor"
    /\ UNCHANGED <<stack, current, reg, level, inContextSwitch, yieldOnReturn, child, mon>>

\* push %rax; ...
Push ==
    /\ Step("push", "mark")
    /\ stack' = [stack EXCEPT ![current][Len(stack[current])].reg = reg]
    /\ UNCHANGED <<ready, current, reg, level, inContextSwitch, yieldOnReturn>>

\* inContextSwitch = true
Mark == Step("mark", "test") /\ inContextSwitch' = TRUE
        /\ UNCHANGED <<stack, ready, current, reg, level, yieldOnReturn>>

\* if (interrupt->getLevel() == IntOn)
Test ==
    /\ Step("test", IF level = "IntOn" THEN "clear" ELSE "ask")
    /\ reg' = Junk
    /\ UNCHANGED <<stack, ready, current, level, inContextSwitch, yieldOnReturn>>

\* Mutant: the mark left standing when the thread yields.
ClearNot == Step("clear", "off") /\ UNCHANGED <<stack, ready, current, reg, level, inContextSwitch, yieldOnReturn>>

\* inContextSwitch = false; currentThread->Yield(): interrupts off ...
Clear == Step("clear", "off") /\ inContextSwitch' = FALSE
         /\ UNCHANGED <<stack, ready, current, reg, level, yieldOnReturn>>
Off == Step("off", "switch") /\ level' = "IntOff"
       /\ UNCHANGED <<stack, ready, current, reg, inContextSwitch, yieldOnReturn>>

\* ... the next ready thread, if there is one, until this one runs again ...
Switch ==
    /\ Step("switch", "on")
    /\ IF ready = <<>> THEN UNCHANGED <<current, ready>>
       ELSE current' = Head(ready) /\ ready' = Append(Tail(ready), current)
    /\ reg' = Junk
    /\ UNCHANGED <<stack, level, inContextSwitch, yieldOnReturn>>

\* ... and interrupts back on (a new thread does it in ThreadRoot).
On == Step("on", "tick") /\ level' = "IntOn"
      /\ UNCHANGED <<stack, ready, current, reg, inContextSwitch, yieldOnReturn>>

\* OneTick: a yield that was asked for takes place now.
Tick ==
    /\ Step("tick", IF yieldOnReturn THEN "off"
                    ELSE IF stack[current] = <<>> THEN "set" ELSE "pop")
    /\ yieldOnReturn' = FALSE
    /\ UNCHANGED <<stack, ready, current, reg, level, inContextSwitch>>

\* interrupt->YieldOnReturn(); inContextSwitch = false
Ask == Step("ask", "unmark") /\ yieldOnReturn' = TRUE
       /\ UNCHANGED <<stack, ready, current, reg, level, inContextSwitch>>
Unmark == Step("unmark", "pop") /\ inContextSwitch' = FALSE
          /\ UNCHANGED <<stack, ready, current, reg, level, yieldOnReturn>>

\* Mutant: the registers not taken back.
PopNot == Step("pop", "return") /\ UNCHANGED <<stack, ready, current, reg, level, inContextSwitch, yieldOnReturn>>

\* pop %r15; ...
Pop == Step("pop", "return") /\ reg' = Top.reg
       /\ UNCHANGED <<stack, ready, current, level, inContextSwitch, yieldOnReturn>>

\* ret
Return ==
    /\ Len(stack[current]) > 0
    /\ Step("return", Top.ret)
    /\ stack' = [stack EXCEPT ![current] = SubSeq(@, 1, Len(@) - 1)]
    /\ UNCHANGED <<ready, current, reg, level, inContextSwitch, yieldOnReturn>>

\* Nachos halts.
Exit ==
    /\ turn = "child" /\ child = "runs" /\ pc[current] = "set" /\ stack[current] = <<>>
    /\ child' = "exited" /\ turn' = "monitor"
    /\ UNCHANGED <<pc, stack, ready, current, reg, level, inContextSwitch, yieldOnReturn, mon>>

ChildStep ==
    \/ Compute \/ Use \/ ForkOff \/ ForkReady \/ Push \/ Mark \/ Test \/ Clear \/ Off \/ Switch \/ On
    \/ Tick \/ Ask \/ Unmark \/ Pop \/ Return

-----------------------------------------------------------------------------
\* MonitorProcess: wait returned; counter is kept modulo the time slice.
Counted == (counter + 1) % slice

Resume ==
    /\ turn = "monitor" /\ child = "runs" /\ monitor = "waits"
    /\ Counted = 0 => inContextSwitch \/ Len(stack[current]) >= MaxDepth
    /\ counter' = Counted
    /\ turn' = "child"
    /\ UNCHANGED <<pc, stack, ready, current, reg, level, inContextSwitch, yieldOnReturn, slice, child, monitor>>

\* The return address on top of the stack, and a jump to ContextSwitch.
Inject ==
    /\ turn = "monitor" /\ child = "runs" /\ monitor = "waits"
    /\ Counted = 0 /\ ~inContextSwitch /\ Len(stack[current]) < MaxDepth
    /\ stack' = [stack EXCEPT ![current] = Append(@, [ret |-> pc[current], reg |-> Junk])]
    /\ pc' = [pc EXCEPT ![current] = "push"]
    /\ counter' = Counted
    /\ turn' = "child"
    /\ UNCHANGED <<ready, current, reg, level, inContextSwitch, yieldOnReturn, slice, child, monitor>>

\* WIFEXITED: exit(0).
Exits ==
    /\ turn = "monitor" /\ child = "exited" /\ monitor = "waits"
    /\ monitor' = "finished"
    /\ UNCHANGED <<pc, stack, ready, current, reg, level, inContextSwitch, yieldOnReturn, counter, slice, turn, child>>

Next == ChildStep \/ Exit \/ Resume \/ Inject \/ Exits

Spec == Init /\ [][Next]_vars

\* ptrace resumes the child and wait returns: both processes go on.  That
\* Nachos halts at all is not assumed.
LiveSpec == Spec /\ WF_vars(ChildStep) /\ WF_vars(Resume) /\ WF_vars(Inject) /\ WF_vars(Exits)

-----------------------------------------------------------------------------
\* "prevent register loss: save all registers" (preemptive.cc): however calls
\* of ContextSwitch nest on a stack and threads are switched under them, a
\* thread finds in the register what it computed there.
FoundAsLeft == pc[current] = "use" => reg = current

\* inContextSwitch protects the decision: while one activation is between the
\* test of the interrupt level and what follows from it, no second one is
\* forced into it, on this stack or on another.
Deciding == {"test", "clear", "ask", "unmark"}
NotReentered ==
    /\ \A t \in Threads : \A n \in DOMAIN stack[t] : stack[t][n].ret \notin Deciding
    /\ Cardinality({t \in Threads : pc[t] \in Deciding}) = IF inContextSwitch THEN 1 ELSE 0

\* ContextSwitch saves what the interrupted thread had in the registers, however
\* its calls nest on a stack and threads are switched under them; the part that
\* inContextSwitch marks is executed by one call at a time.
RegistersSurvive == FoundAsLeft /\ NotReentered

\* The monitor process ends when Nachos does.
Halted == child = "exited"
Finished == monitor = "finished"

\* With a time slice longer than ContextSwitch, every thread that was forked is run
\* again and again, though none ever gives up the processor.
Forked(t) == pc[t] # "none"
RunsOrEnds(t) == current = t \/ child = "exited"
=============================================================================
