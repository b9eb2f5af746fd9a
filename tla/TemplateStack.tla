---------------------------- MODULE TemplateStack ----------------------------
(***************************************************************************)
(* Stack<T> of c++example/templatestack.cc (stack.cc is the same class for *)
(* T = int).  The array is not cleared by Pop, so what lies above top is   *)
(* stale.  A client calls Push and Pop within their assertions, or         *)
(* SelfTest, a public member that may find elements on the stack.          *)
(***************************************************************************)
EXTENDS Integers, Sequences

CONSTANTS MaxT,     \* the largest value of the element type
          size

SizeAssumption == size \in Nat \ {0}
TypeAssumption == MaxT \in Nat

T == 0 .. MaxT

VARIABLES stack, top,
          popped,           \* the value Pop returned last
          pc, count         \* of SelfTest

vars == <<stack, top, popped, pc, count>>

\* new T[size] leaves the elements undefined.
Init ==
    /\ stack \in [0 .. size - 1 -> T]
    /\ top = 0
    /\ popped \in T
    /\ pc = "client" /\ count = 0

Full == top = size
Empty == top = 0

\* Mutant: stack[++top].
PushPreIncrement(v) ==
    /\ ~Full
    /\ stack' = [stack EXCEPT ![IF top + 1 = size THEN 0 ELSE top + 1] = v]
    /\ top' = top + 1
    /\ UNCHANGED popped

Push(v) ==
    /\ ~Full
    /\ stack' = [stack EXCEPT ![top] = v]
    /\ top' = top + 1
    /\ UNCHANGED popped

Pop ==
    /\ ~Empty
    /\ top' = top - 1
    /\ popped' = stack[top - 1]
    /\ UNCHANGED stack

\* count++, which wraps around
Successor(v) == IF v = MaxT THEN 0 ELSE v + 1

ClientPush == pc = "client" /\ (\E v \in T : Push(v)) /\ UNCHANGED <<pc, count>>
ClientPop == pc = "client" /\ Pop /\ UNCHANGED <<pc, count>>

SelfTest(start) ==
    /\ pc = "client"
    /\ pc' = "push" /\ count' = start
    /\ UNCHANGED <<stack, top, popped>>

SelfTestPush == pc = "push" /\ Push(count) /\ count' = Successor(count) /\ UNCHANGED pc
SelfTestFull == pc = "push" /\ Full /\ pc' = "pop" /\ UNCHANGED <<stack, top, popped, count>>
SelfTestPop == pc = "pop" /\ Pop /\ UNCHANGED <<pc, count>>

SelfTestEnd ==
    /\ pc = "pop" /\ Empty
    /\ pc' = "client" /\ count' = 0
    /\ UNCHANGED <<stack, top, popped>>

SelfTestStep == SelfTestPush \/ SelfTestFull \/ SelfTestPop \/ SelfTestEnd

Next == ClientPush \/ ClientPop \/ (\E v \in T : SelfTest(v)) \/ SelfTestStep

\* SelfTest is sequential code: once called it runs.
Spec == Init /\ [][Next]_vars /\ WF_vars(SelfTestStep)

-----------------------------------------------------------------------------
TypeOK ==
    /\ stack \in [0 .. size - 1 -> T]
    /\ top \in 0 .. size
    /\ popped \in T
    /\ pc \in {"client", "push", "pop"}
    /\ count \in T

\* The elements below top, seen from outside as a sequence, are a bounded LIFO
\* stack; the stale ones above never show.
Lifo == INSTANCE LifoStack WITH
    Value <- T, Capacity <- size, items <- [i \in 1 .. top |-> stack[i - 1]]

ImplementsLifo == Lifo!LifoSpec

\* SelfTest takes off everything it finds: it returns, and at that moment the
\* stack is empty.
SelfTestEmptiesStep == pc = "pop" /\ pc' = "client" => top = 0
InSelfTest == pc # "client"
=============================================================================
