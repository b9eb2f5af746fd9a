----------------------------- MODULE SortedList -----------------------------
(***************************************************************************)
(* What List<Item> promises: a sequence of items with keys.  Append and    *)
(* Prepend use key 0, SortedInsert puts the item before the first item     *)
(* with a larger key, Remove takes the first item or nothing.              *)
(***************************************************************************)
EXTENDS Integers, Sequences

CONSTANTS Items, Keys

VARIABLE items

Entry(i, k) == [item |-> i, key |-> k]

Init == items = <<>>

Append0(i) == items' = Append(items, Entry(i, 0))
Prepend0(i) == items' = <<Entry(i, 0)>> \o items

\* The items before the place of key k.
Before(k) == CHOOSE n \in 0 .. Len(items) :
                /\ \A j \in 1 .. n : items[j].key <= k
                /\ n < Len(items) => items[n + 1].key > k

Insert(i, k) ==
    items' = SubSeq(items, 1, Before(k)) \o <<Entry(i, k)>>
             \o SubSeq(items, Before(k) + 1, Len(items))

Remove == items # <<>> /\ items' = Tail(items)

Next ==
    \/ \E i \in Items : Append0(i) \/ Prepend0(i) \/ \E k \in Keys : Insert(i, k)
    \/ Remove

Spec == Init /\ [][Next]_items
=============================================================================
