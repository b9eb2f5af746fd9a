-------------------------------- MODULE List --------------------------------
(***************************************************************************)
(* The singly linked list of threads/list.h (and of c++example/list.cc,    *)
(* which has Prepend and Remove only), on a heap of list elements whose    *)
(* addresses are reused.  Interrupt and Scheduler use a list with          *)
(* interrupts off and SynchList under a lock, so an operation is a step.   *)
(***************************************************************************)
EXTENDS Integers, Sequences, FiniteSets

CONSTANTS
    Addresses,  \* of list elements; as many as elements can exist
    NULL,
    Items, Keys

ListAssumption == NULL \notin Addresses /\ Keys \subseteq Int

VARIABLES
    heap,           \* address |-> element
    allocated,      \* addresses of elements that exist
    first, last

vars == <<heap, allocated, first, last>>

Element(i, k, n) == [item |-> i, key |-> k, next |-> n]
Anything == CHOOSE i \in Items : TRUE

Init ==
    /\ heap = [a \in Addresses |-> Element(Anything, 0, NULL)]
    /\ allocated = {}
    /\ first = NULL /\ last = NULL

IsEmpty == first = NULL

\* new ListNode(item, key): the address is any free one.
New(a) == a \notin allocated /\ allocated' = allocated \cup {a}

\* The element becomes the only one.
Only(a, e) ==
    /\ first' = a /\ last' = a
    /\ heap' = [heap EXCEPT ![a] = e]

AtEnd(a, e) ==
    /\ last' = a
    /\ heap' = [heap EXCEPT ![a] = e, ![last].next = a]
    /\ UNCHANGED first

AtFront(a, e) ==
    /\ first' = a
    /\ heap' = [heap EXCEPT ![a] = [e EXCEPT !.next = first]]
    /\ UNCHANGED last

AppendItem(i) ==
    \E a \in Addresses :
        /\ New(a)
        /\ IF IsEmpty THEN Only(a, Element(i, 0, NULL)) ELSE AtEnd(a, Element(i, 0, NULL))

Prepend(i) ==
    \E a \in Addresses :
        /\ New(a)
        /\ IF IsEmpty THEN Only(a, Element(i, 0, NULL)) ELSE AtFront(a, Element(i, 0, NULL))

\* The walk of SortedInsert: ptr, the element after which the new one goes.
Step(ptr) == heap[ptr].next

\* Mutant: the new element goes before those with an equal key.
WalkNotAfterEqual(k) ==
    LET stops(ptr) == Step(ptr) = NULL \/ k <= heap[Step(ptr)].key
        walk[n \in 0 .. Cardinality(Addresses)] ==
            IF n = 0 THEN first
            ELSE IF stops(walk[n - 1]) THEN walk[n - 1] ELSE Step(walk[n - 1])
    IN  walk[Cardinality(Addresses)]

Walk(k) ==
    LET stops(ptr) == Step(ptr) = NULL \/ k < heap[Step(ptr)].key
        walk[n \in 0 .. Cardinality(Addresses)] ==
            IF n = 0 THEN first
            ELSE IF stops(walk[n - 1]) THEN walk[n - 1] ELSE Step(walk[n - 1])
    IN  walk[Cardinality(Addresses)]

After(a, e, ptr) ==
    /\ heap' = [heap EXCEPT ![a] = [e EXCEPT !.next = Step(ptr)], ![ptr].next = a]
    /\ UNCHANGED <<first, last>>

SortedInsert(i, k) ==
    \E a \in Addresses :
        LET e == Element(i, k, NULL) IN
        /\ New(a)
        /\ IF IsEmpty THEN Only(a, e)
           ELSE IF k < heap[first].key THEN AtFront(a, e)
           ELSE IF Step(Walk(k)) = NULL THEN AtEnd(a, e)
           ELSE After(a, e, Walk(k))

\* delete: the contents of a freed element are not used again.
Delete(a) ==
    /\ allocated' = allocated \ {a}
    /\ heap' = [heap EXCEPT ![a] = Element(Anything, 0, NULL)]

SortedRemove ==
    /\ ~IsEmpty
    /\ IF first = last THEN first' = NULL /\ last' = NULL
       ELSE first' = heap[first].next /\ UNCHANGED last
    /\ Delete(first)

RemoveFromEmpty == IsEmpty /\ UNCHANGED vars

Next ==
    \/ \E i \in Items : AppendItem(i) \/ Prepend(i) \/ \E k \in Keys : SortedInsert(i, k)
    \/ SortedRemove \/ RemoveFromEmpty

Spec == Init /\ [][Next]_vars

-----------------------------------------------------------------------------
\* The elements from first on, at most n of them.
Chain ==
    LET chain[n \in 0 .. Cardinality(Addresses)] ==
            IF n = 0 THEN IF first = NULL THEN <<>> ELSE <<first>>
            ELSE LET c == chain[n - 1] IN
                 IF c = <<>> THEN c
                 ELSE IF heap[c[Len(c)]].next = NULL THEN c
                 ELSE Append(c, heap[c[Len(c)]].next)
    IN  chain[Cardinality(Addresses)]

\* The links form one chain without repetition from first to last, through all
\* the elements that exist and no deleted one: nothing dangles and nothing leaks,
\* although addresses of removed elements are reused.
WellLinked ==
    LET c == Chain IN
    /\ {c[j] : j \in DOMAIN c} = allocated
    /\ Len(c) = Cardinality(allocated)
    /\ IF c = <<>> THEN first = NULL /\ last = NULL ELSE last = c[Len(c)] /\ heap[last].next = NULL

\* The linked list is the abstract list: in particular SortedInsert keeps the
\* order of items with equal keys, which gives interrupts due at the same time
\* their FIFO order.
Abstracted ==
    [j \in 1 .. Len(Chain) |-> [item |-> heap[Chain[j]].item, key |-> heap[Chain[j]].key]]

Abstract == INSTANCE SortedList WITH items <- Abstracted
=============================================================================
