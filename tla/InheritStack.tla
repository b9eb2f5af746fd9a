---------------------------- MODULE InheritStack ----------------------------
(***************************************************************************)
(* c++example/inheritstack.cc: the abstract class Stack with its two       *)
(* implementations, ArrayStack and ListStack over the list of list.cc.     *)
(* The same client program drives one object of each class, call by call,  *)
(* and the objects must be told apart by nothing but Full.                 *)
(***************************************************************************)
EXTENDS Integers, Sequences, FiniteSets

CONSTANTS Value,
          size,         \* of the ArrayStack
          Addresses,      \* of list elements
          NULL

AddressAssumption == NULL \notin Addresses /\ Cardinality(Addresses) = size

VARIABLES stack, top,           \* ArrayStack
          element, first, last, \* List: element[a] is a ListElement, or NoElement
          popped,               \* what the last Pop of each object returned
          pc, toPush, count     \* of SelfTest

arrayVars == <<stack, top>>
listVars == <<element, first, last>>
vars == <<stack, top, element, first, last, popped, pc, toPush, count>>

NoElement == [item |-> 0, next |-> NULL]

Init ==
    /\ stack = [i \in 0 .. size - 1 |-> 0] /\ top = 0
    /\ element = [a \in Addresses |-> NoElement] /\ first = NULL /\ last = NULL
    /\ popped = [array |-> 0, list |-> 0]
    /\ pc = "client" /\ toPush = 0 /\ count = 0

\* ArrayStack
ArrayFull == top = size
ArrayEmpty == top = 0
ArrayPush(v) ==
    /\ ~ArrayFull
    /\ stack' = [stack EXCEPT ![top] = v]
    /\ top' = top + 1

\* List of list.cc
Empty == first = NULL

\* The addresses in use: what can be reached from first.
InUse ==
    LET reach[n \in 0 .. size] ==
            IF n = 0 THEN {first} \ {NULL}
            ELSE reach[n - 1] \cup ({element[a].next : a \in reach[n - 1]} \ {NULL})
    IN  reach[size]

Prepend(v) ==
    \E a \in Addresses \ InUse :
        /\ element' = [element EXCEPT ![a] = [item |-> v, next |-> IF Empty THEN NULL ELSE first]]
        /\ first' = a
        /\ last' = IF Empty THEN a ELSE last

Remove ==
    /\ ~Empty
    /\ IF first = last THEN first' = NULL /\ last' = NULL
       ELSE first' = element[first].next /\ UNCHANGED last
    /\ element' = [element EXCEPT ![first] = NoElement]

\* ListStack
ListEmpty == Empty
ListPush(v) == Prepend(v)
ListPop == ~ListEmpty /\ Remove

\* ArrayStack::Pop; popped also gets what the other object's Pop returns.
ArrayPop ==
    /\ ~ArrayEmpty
    /\ top' = top - 1 /\ UNCHANGED stack
    /\ popped' = [array |-> stack[top - 1], list |-> element[first].item]

\* Push and Pop, virtual calls, on each object.
Push(v) == ArrayPush(v) /\ ListPush(v) /\ UNCHANGED popped
Pop == ArrayPop /\ ListPop

ClientPush == pc = "client" /\ (\E v \in Value : Push(v)) /\ UNCHANGED <<pc, toPush, count>>
ClientPop == pc = "client" /\ Pop /\ UNCHANGED <<pc, toPush, count>>

\* SelfTest(numToPush); the numbers it pushes begin at 17.
SelfTest(numToPush) ==
    /\ pc = "client"
    /\ pc' = "push" /\ toPush' = numToPush /\ count' = 17
    /\ UNCHANGED <<arrayVars, listVars, popped>>

SelfTestPush ==
    /\ pc = "push" /\ toPush > 0
    /\ Push(count)
    /\ toPush' = toPush - 1 /\ count' = count + 1
    /\ UNCHANGED pc

\* ASSERT(!Full()) fails in the SelfTest of the ArrayStack, and the program ends.
SelfTestAborts ==
    /\ pc = "push" /\ toPush > 0 /\ ArrayFull
    /\ pc' = "aborted"
    /\ UNCHANGED <<arrayVars, listVars, popped, toPush, count>>

Aborted == pc = "aborted" /\ UNCHANGED vars

SelfTestPushed ==
    /\ pc = "push" /\ toPush = 0
    /\ pc' = "pop"
    /\ UNCHANGED <<arrayVars, listVars, popped, toPush, count>>

SelfTestPop == pc = "pop" /\ ~ArrayEmpty /\ Pop /\ UNCHANGED <<pc, toPush, count>>

SelfTestEnd ==
    /\ pc = "pop" /\ ArrayEmpty
    /\ pc' = "client" /\ count' = 0
    /\ UNCHANGED <<arrayVars, listVars, popped, toPush>>

Next ==
    \/ ClientPush \/ ClientPop
    \/ \E n \in 0 .. size : SelfTest(n)
    \/ SelfTestPush \/ SelfTestAborts \/ Aborted \/ SelfTestPushed \/ SelfTestPop \/ SelfTestEnd

Spec == Init /\ [][Next]_vars

-----------------------------------------------------------------------------
\* What inheritstack.cc says of SelfTest, "it doesn't matter whether this is an
\* ArrayStack or a ListStack": after the same calls both are empty or neither is,
\* and the last Pop returned the same value from both.
SameStack == popped.array = popped.list /\ (ArrayEmpty <=> ListEmpty)

\* The list holds as many elements as the array, and no element is lost: a slot
\* that cannot be reached from first has been deleted.
NoLeak ==
    /\ Cardinality(InUse) = top
    /\ \A a \in Addresses \ InUse : element[a] = NoElement
=============================================================================
