------------------------------ MODULE LifoStack ------------------------------
(***************************************************************************)
(* What the stack classes of c++example promise: last in, first out, with  *)
(* no more than a given number of elements.                                *)
(***************************************************************************)
EXTENDS Naturals, Sequences

CONSTANTS Value, Capacity

VARIABLES items,    \* bottom first
          popped    \* the value the last Pop returned

lifoVars == <<items, popped>>

LifoInit == items = <<>> /\ popped \in Value

LifoPush(v) ==
    /\ Len(items) < Capacity
    /\ items' = Append(items, v)
    /\ UNCHANGED popped

LifoPop ==
    /\ items # <<>>
    /\ popped' = items[Len(items)]
    /\ items' = SubSeq(items, 1, Len(items) - 1)

LifoNext == LifoPop \/ \E v \in Value : LifoPush(v)

LifoSpec == LifoInit /\ [][LifoNext]_lifoVars
=============================================================================
