------------------------- MODULE MonitorClientProofs -------------------------
(***************************************************************************)
(* Proofs about two users of Lock and Condition, which behave as module    *)
(* MesaMonitor says (theorem MesaRefined of MonitorProofs).                *)
(*                                                                         *)
(* DinningPh: neighbours do not eat at the same time, and who waits is     *)
(* waiting for a neighbour that eats.                                      *)
(*                                                                         *)
(* SynchList (Shared): items are removed once and in order, nothing comes  *)
(* between the calls of Apply's function, and no Remove is left waiting    *)
(* for an item, for any finite set of threads and any calls they make.     *)
(***************************************************************************)
EXTENDS DinningPh, Sequences, FiniteSetTheorems, TLAPS

-----------------------------------------------------------------------------
(* The philosophers *)

\* Types, and that a philosopher's state and place tell the same.
StateIsPlace ==
    /\ state \in [Philosopher -> {"Thinking", "Hungry", "Eating"}]
    /\ pc \in [Philosopher -> {"think", "wait", "signalled", "eat"}]
    /\ \A i \in Philosopher : pc[i] = "think" <=> state[i] = "Thinking"
    /\ \A i \in Philosopher : pc[i] = "wait" <=> state[i] = "Hungry"
    /\ \A i \in Philosopher : pc[i] \in {"signalled", "eat"} <=> state[i] = "Eating"

\* No two neighbours eat.
EatersApart ==
    \A i \in Philosopher :
       state[i] = "Eating" => state[Left(i)] # "Eating" /\ state[Right(i)] # "Eating"

\* A hungry philosopher has a neighbour that eats.
HungryIsBlocked ==
    \A i \in Philosopher :
       state[i] = "Hungry" => state[Left(i)] = "Eating" \/ state[Right(i)] = "Eating"

IInv == StateIsPlace /\ EatersApart /\ HungryIsBlocked

\* The table is a ring of five: (i + 4) % 5 and (i + 1) % 5 are the two
\* neighbours of i (dinningph.cc:33-43).
LEMMA Ring ==
    \A i \in Philosopher :
       /\ Left(i) \in Philosopher /\ Right(i) \in Philosopher
       /\ Left(i) # i /\ Right(i) # i /\ Left(i) # Right(i)
       /\ Left(Right(i)) = i /\ Right(Left(i)) = i
       /\ Right(Right(i)) # Left(i) /\ Left(Left(i)) # Right(i)
       /\ Left(Left(i)) # i /\ Right(Right(i)) # i
<1> SUFFICES ASSUME NEW i \in Philosopher
             PROVE  /\ Left(i) \in Philosopher /\ Right(i) \in Philosopher
                    /\ Left(i) # i /\ Right(i) # i /\ Left(i) # Right(i)
                    /\ Left(Right(i)) = i /\ Right(Left(i)) = i
                    /\ Right(Right(i)) # Left(i) /\ Left(Left(i)) # Right(i)
                    /\ Left(Left(i)) # i /\ Right(Right(i)) # i
  OBVIOUS
<1>1. i = 0 \/ i = 1 \/ i = 2 \/ i = 3 \/ i = 4
  BY DEF Philosopher
<1> QED BY <1>1 DEF Philosopher, Left, Right

\* Who is the neighbour of whom is symmetric.
LEMMA Neighbours ==
    ASSUME NEW i \in Philosopher, NEW j \in Philosopher
    PROVE  (Left(i) = j <=> i = Right(j)) /\ (Right(i) = j <=> i = Left(j))
  BY Ring

\* pickup, up to its Wait or Release, keeps the invariant (dinningph.cc:19-30).
LEMMA PickupKeeps ==
    ASSUME IInv, NEW who \in Philosopher, Pickup(who) PROVE IInv'
<1> DEFINE hungry == [state EXCEPT ![who] = "Hungry"]
<1>1. pc[who] = "think" /\ state[who] = "Thinking"
  BY DEF Pickup, IInv, StateIsPlace
<1>2. /\ Left(who) \in Philosopher /\ Right(who) \in Philosopher
      /\ Left(who) # who /\ Right(who) # who
  BY Ring
<1>3. MayEat(hungry, who) <=> state[Left(who)] # "Eating" /\ state[Right(who)] # "Eating"
  BY <1>2 DEF MayEat, IInv, StateIsPlace
<1>4. CASE MayEat(hungry, who)
  <2>1. state' = [state EXCEPT ![who] = "Eating"]
    BY <1>4 DEF Pickup, Tested, IInv, StateIsPlace
  <2>2. pc' = [pc EXCEPT ![who] = "eat"]
    BY <2>1, Zenon DEF Pickup, IInv, StateIsPlace
  <2>3. StateIsPlace'
    BY <2>1, <2>2 DEF IInv, StateIsPlace
  <2>4. EatersApart'
    BY <1>2, <1>3, <1>4, <2>1, Ring, Neighbours DEF IInv, StateIsPlace, EatersApart
  <2>5. HungryIsBlocked'
    BY <1>1, <2>1, Ring DEF IInv, StateIsPlace, HungryIsBlocked
  <2> QED BY <2>3, <2>4, <2>5 DEF IInv
<1>5. CASE ~MayEat(hungry, who)
  <2>1. state' = [state EXCEPT ![who] = "Hungry"]
    BY <1>5 DEF Pickup, Tested
  <2>2. pc' = [pc EXCEPT ![who] = "wait"]
    BY <2>1 DEF Pickup, IInv, StateIsPlace
  <2>3. StateIsPlace'
    BY <2>1, <2>2 DEF IInv, StateIsPlace
  <2>4. EatersApart'
    BY <2>1, Ring DEF IInv, StateIsPlace, EatersApart
  <2>5. HungryIsBlocked'
    BY <1>1, <1>2, <1>3, <1>5, <2>1, Ring DEF IInv, StateIsPlace, HungryIsBlocked
  <2> QED BY <2>3, <2>4, <2>5 DEF IInv
<1> QED BY <1>4, <1>5

\* putdown, with the tests of both neighbours, keeps it (dinningph.cc:33-43).
LEMMA PutdownKeeps ==
    ASSUME IInv, NEW who \in Philosopher, Putdown(who) PROVE IInv'
<1> DEFINE thinking == [state EXCEPT ![who] = "Thinking"]
           left     == Tested(thinking, Left(who))
           away     == [pc EXCEPT ![who] = "think"]
<1>1. PICK l \in Philosopher, r \in Philosopher :
         /\ l = Left(who) /\ r = Right(who)
         /\ l # who /\ r # who /\ l # r
         /\ Left(r) = who /\ Right(l) = who
         /\ Left(l) \in Philosopher \ {l, r, who} /\ Right(r) \in Philosopher \ {l, r, who}
  BY Ring
<1>2. state[who] = "Eating" /\ state[l] # "Eating" /\ state[r] # "Eating"
  BY <1>1 DEF Putdown, IInv, StateIsPlace, EatersApart
<1>3. MayEat(thinking, l) <=> state[l] = "Hungry" /\ state[Left(l)] # "Eating"
  BY <1>1 DEF MayEat, IInv, StateIsPlace
<1>4. left \in [Philosopher -> {"Thinking", "Hungry", "Eating"}]
      /\ left = [thinking EXCEPT ![l] = IF MayEat(thinking, l) THEN "Eating" ELSE state[l]]
  BY <1>1, Zenon DEF Tested, IInv, StateIsPlace
<1>5. MayEat(left, r) <=> state[r] = "Hungry" /\ state[Right(r)] # "Eating"
  BY <1>1, <1>4 DEF MayEat, IInv, StateIsPlace
<1>6. state' = [state EXCEPT ![who] = "Thinking",
                             ![l] = IF MayEat(thinking, l) THEN "Eating" ELSE state[l],
                             ![r] = IF MayEat(left, r) THEN "Eating" ELSE state[r]]
  BY <1>1, <1>4, Zenon DEF Putdown, Tested, IInv, StateIsPlace
<1>7. pc' = [pc EXCEPT ![who] = "think",
                       ![l] = IF MayEat(thinking, l) THEN "signalled" ELSE pc[l],
                       ![r] = IF MayEat(left, r) THEN "signalled" ELSE pc[r]]
  <2>1. MayEat(thinking, l) => pc[l] = "wait"
    BY <1>3 DEF IInv, StateIsPlace
  <2>2. MayEat(left, r) => pc[r] = "wait"
    BY <1>5 DEF IInv, StateIsPlace
  <2>3. pc' = Signalled(left, Signalled(thinking, away, l), r)
    BY <1>1 DEF Putdown
  <2>4. Signalled(thinking, away, l)
          = [away EXCEPT ![l] = IF MayEat(thinking, l) THEN "signalled" ELSE pc[l]]
    BY <1>1, <2>1, Zenon DEF Signalled, IInv, StateIsPlace
  <2> QED BY <1>1, <2>2, <2>3, <2>4, ZenonT(60) DEF Signalled, IInv, StateIsPlace
<1> HIDE DEF thinking, left, away
<1>8. StateIsPlace'
  BY <1>1, <1>3, <1>5, <1>6, <1>7 DEF IInv, StateIsPlace
<1>9. \A i \in Philosopher : Left(i) \in Philosopher /\ Right(i) \in Philosopher
  BY Ring
<1>10. EatersApart'
  <2> SUFFICES ASSUME NEW i \in Philosopher, state'[i] = "Eating"
               PROVE  state'[Left(i)] # "Eating" /\ state'[Right(i)] # "Eating"
    BY DEF EatersApart
  <2>1. (Left(i) = l <=> i = who) /\ (Left(i) = r <=> i = Right(r))
        /\ (Right(i) = l <=> i = Left(l)) /\ (Right(i) = r <=> i = who)
    BY <1>1, Neighbours
  <2> QED BY <1>1, <1>2, <1>3, <1>5, <1>6, <1>9, <2>1 DEF IInv, StateIsPlace, EatersApart
<1>11. HungryIsBlocked'
  <2> SUFFICES ASSUME NEW i \in Philosopher, state'[i] = "Hungry"
               PROVE  state'[Left(i)] = "Eating" \/ state'[Right(i)] = "Eating"
    BY DEF HungryIsBlocked
  <2>1. (Left(i) = who <=> i = r) /\ (Right(i) = who <=> i = l)
    BY <1>1, Neighbours
  <2>2. state[i] = "Hungry" /\ i # who
    BY <1>1, <1>6 DEF IInv, StateIsPlace
  <2>3. \A j \in Philosopher : state[j] = "Eating" /\ j # who => state'[j] = "Eating"
    BY <1>1, <1>2, <1>6 DEF IInv, StateIsPlace
  <2>4. CASE i = l
    BY <1>1, <1>2, <1>3, <1>6, <2>2, <2>3, <2>4 DEF IInv, StateIsPlace
  <2>5. CASE i = r
    BY <1>1, <1>2, <1>5, <1>6, <2>2, <2>3, <2>5 DEF IInv, StateIsPlace
  <2>6. CASE i # l /\ i # r
    BY <1>9, <2>1, <2>2, <2>3, <2>6 DEF IInv, HungryIsBlocked
  <2> QED BY <2>4, <2>5, <2>6
<1> QED BY <1>8, <1>10, <1>11 DEF IInv

\* The invariant holds of every behaviour of the five philosophers.
LEMMA DinningInv == Spec => []IInv
<1>1. Init => IInv
  BY Ring DEF Init, IInv, StateIsPlace, EatersApart, HungryIsBlocked
<1>2. IInv /\ [Next]_vars => IInv'
  <2> SUFFICES ASSUME IInv, [Next]_vars PROVE IInv'
    OBVIOUS
  <2>1. ASSUME NEW i \in Philosopher, Pickup(i) PROVE IInv'
    BY <2>1, PickupKeeps
  <2>2. ASSUME NEW i \in Philosopher, PickupReturns(i) PROVE IInv'
    BY <2>2 DEF PickupReturns, IInv, StateIsPlace, EatersApart, HungryIsBlocked
  <2>3. ASSUME NEW i \in Philosopher, Putdown(i) PROVE IInv'
    BY <2>3, PutdownKeeps
  <2>4. CASE UNCHANGED vars
    BY <2>4 DEF vars, IInv, StateIsPlace, EatersApart, HungryIsBlocked
  <2> QED BY <2>1, <2>2, <2>3, <2>4 DEF Next
<1> QED BY <1>1, <1>2, PTL DEF Spec

\* Neighbours never hold their sticks together (dinningph.cc:19-30).
THEOREM SticksAreExclusive == Spec => []NeighboursExclude
<1>1. IInv => NeighboursExclude
  BY Ring DEF IInv, StateIsPlace, EatersApart, NeighboursExclude
<1> QED BY <1>1, DinningInv, PTL

\* The "if" around Wait in pickup is enough here: whoever returns from pickup
\* is Eating (dinningph.cc:25).
THEOREM ReturnsOnlyToEat == Spec => []PickupReturnsEating
<1>1. IInv => PickupReturnsEating
  BY DEF IInv, StateIsPlace, PickupReturnsEating
<1> QED BY <1>1, DinningInv, PTL

\* No signal is missed: whoever waits has a neighbour whose putdown will test
\* them (dinningph.cc:33-43).
THEOREM WaitersAreBlocked == Spec => []WaitsForNeighbour
<1>1. IInv => WaitsForNeighbour
  BY DEF IInv, StateIsPlace, HungryIsBlocked, WaitsForNeighbour
<1> QED BY <1>1, DinningInv, PTL

-----------------------------------------------------------------------------
(* The synchronized list *)

CONSTANTS Thread, NULL, Calls
VARIABLES holder, at, waiting, entering, list, appended, calls, removed, seen

Shared == INSTANCE SynchList WITH pc <- at

\* A sequence is a function on its positions.
LEMMA SeqIsFunction == ASSUME NEW S, NEW s \in Seq(S) PROVE s \in [1 .. Len(s) -> S]
  OBVIOUS

SharedTypes ==
    /\ holder \in Thread \cup {NULL} /\ entering \subseteq Thread /\ waiting \in Seq(Thread)
    /\ at \in [Thread -> {"out", "entering", "in", "signal", "waiting", "release"}]
    /\ list \in Seq(Nat) /\ removed \in Seq(Nat) /\ appended \in Nat
    /\ seen \in [Thread -> Seq(Nat)]
    /\ calls \in [Thread -> Seq({"Append", "Remove", "Apply"})]

\* The holder of the lock is the thread inside an operation, which is a call to make.
InsideHolds ==
    \A t \in Thread : /\ at[t] \in {"in", "signal", "release"} => holder = t
                      /\ at[t] # "out" => calls[t] # <<>>

\* The items are numbered in the order of the Appends, over removed and list.
Numbered ==
    /\ Len(removed) + Len(list) = appended
    /\ \A i \in 1 .. Len(removed) : removed[i] = i
    /\ \A i \in 1 .. Len(list) : list[i] = Len(removed) + i

\* Only Apply collects items, and what it has is the beginning of the list.
Collected ==
    \A t \in Thread :
        /\ at[t] \in {"out", "entering", "waiting"} => seen[t] = <<>>
        /\ at[t] = "in" =>
              /\ Head(calls[t]) # "Apply" => seen[t] = <<>>
              /\ Len(seen[t]) <= Len(list)
              /\ \A i \in 1 .. Len(seen[t]) : seen[t][i] = list[i]

ListInv == SharedTypes /\ InsideHolds /\ Numbered /\ Collected

\* A new SynchList satisfies the invariant (synchlist.h).
LEMMA ListInit == Shared!SynchListAssumption /\ Shared!Init => ListInv
<1> SUFFICES ASSUME Shared!SynchListAssumption, Shared!Init PROVE ListInv
  OBVIOUS
<1>1. holder = NULL /\ waiting = <<>> /\ entering = {} /\ list = <<>> /\ removed = <<>>
  BY DEF Shared!Init, Shared!M!AbsInit
<1>2. Len(list) = 0 /\ Len(removed) = 0
  BY <1>1
<1>3. SharedTypes /\ InsideHolds
  BY <1>1 DEF Shared!Init, SharedTypes, InsideHolds, Shared!SynchListAssumption
<1>4. Numbered
  BY <1>2 DEF Shared!Init, Numbered
<1>5. Collected
  BY DEF Shared!Init, Collected
<1> QED BY <1>3, <1>4, <1>5 DEF ListInv

\* Every step of an operation keeps it: one case per action, those that leave the list
\* alone together.
LEMMA ListStep == Shared!SynchListAssumption /\ ListInv /\ [Shared!Next]_(Shared!vars) => ListInv'
<1> SUFFICES ASSUME Shared!SynchListAssumption, ListInv, [Shared!Next]_(Shared!vars) PROVE ListInv'
  OBVIOUS
<1>0. SharedTypes /\ InsideHolds /\ Numbered /\ Collected /\ NULL \notin Thread
  BY DEF ListInv, Shared!SynchListAssumption
<1>1. ASSUME NEW t \in Thread, Shared!Acquire(t) \/ Shared!Enter(t)
      PROVE  ListInv'
  <2>1. /\ UNCHANGED <<list, appended, removed, seen, calls, waiting>>
        /\ entering' \subseteq entering \cup {t}
        /\ at[t] \in {"out", "entering", "waiting"} /\ (at[t] = "out" => calls[t] # <<>>)
        /\ \/ at' = [at EXCEPT ![t] = "in"] /\ holder = NULL /\ holder' = t
           \/ at' = [at EXCEPT ![t] = "entering"] /\ holder' = holder
    BY <1>1 DEF Shared!Acquire, Shared!Enter, Shared!dataVars, Shared!Goto,
                Shared!M!Enter, Shared!M!Request
  <2>2. SharedTypes'
    BY <1>0, <2>1, Zenon DEF SharedTypes
  <2>3. InsideHolds'
    BY <1>0, <2>1 DEF SharedTypes, InsideHolds
  <2>4. Numbered'
    BY <1>0, <2>1 DEF Numbered
  <2>5. Collected'
    <3>1. seen[t] = <<>> /\ Len(seen[t]) = 0
      BY <1>0, <2>1 DEF Collected
    <3>2. Len(list) \in Nat
      BY <1>0 DEF SharedTypes
    <3> QED BY <1>0, <2>1, <3>1, <3>2, SMTT(30) DEF SharedTypes, Collected
  <2> QED BY <2>2, <2>3, <2>4, <2>5 DEF ListInv
<1>2. ASSUME NEW t \in Thread, Shared!Signal(t) \/ Shared!Wait(t) \/ Shared!ApplyEnd(t)
      PROVE  ListInv'
  <2>1. /\ UNCHANGED <<list, appended, removed, seen, calls>>
        /\ at[t] \in {"in", "signal"}
        /\ \/ at' = [at EXCEPT ![t] = "release"] /\ holder' = holder
           \/ /\ at' = [at EXCEPT ![t] = "waiting"] /\ holder' = NULL
              /\ at[t] = "in" /\ Head(calls[t]) # "Apply"
    BY <1>2 DEF Shared!Signal, Shared!Wait, Shared!ApplyEnd, Shared!dataVars, Shared!Goto,
                Shared!monitorVars, Shared!M!Notify, Shared!M!StartWaiting
  <2>2. entering' \subseteq Thread /\ waiting' \in Seq(Thread)
    <3>1. CASE UNCHANGED <<waiting, entering>>
      BY <1>0, <3>1 DEF SharedTypes
    <3>2. CASE Shared!M!Notify(t)
      <4>1. waiting # <<>> /\ waiting' = Tail(waiting) /\ entering' = entering \cup {Head(waiting)}
        BY <3>2 DEF Shared!M!Notify
      <4> QED BY <1>0, <4>1 DEF SharedTypes
    <3>3. CASE Shared!M!StartWaiting(t)
      BY <1>0, <3>3 DEF Shared!M!StartWaiting, SharedTypes
    <3> QED BY <1>2, <3>1, <3>2, <3>3
            DEF Shared!Signal, Shared!Wait, Shared!ApplyEnd, Shared!monitorVars
  <2>3. SharedTypes'
    BY <1>0, <2>1, <2>2, Zenon DEF SharedTypes
  <2>4. InsideHolds'
    BY <1>0, <2>1 DEF SharedTypes, InsideHolds
  <2>5. Numbered'
    BY <1>0, <2>1 DEF Numbered
  <2>6. Collected'
    BY <1>0, <2>1 DEF SharedTypes, Collected
  <2> QED BY <2>3, <2>4, <2>5, <2>6 DEF ListInv
<1>3. ASSUME NEW t \in Thread, Shared!AppendItem(t)
      PROVE  ListInv'
  <2>1. /\ list' = Append(list, appended + 1) /\ appended' = appended + 1
        /\ at[t] = "in" /\ at' = [at EXCEPT ![t] = "signal"]
        /\ UNCHANGED <<holder, waiting, entering, calls, removed, seen>>
    BY <1>3 DEF Shared!AppendItem, Shared!Goto, Shared!monitorVars
  <2>2. /\ Len(list) \in Nat /\ Len(removed) \in Nat /\ Len(list') = Len(list) + 1
        /\ list' \in Seq(Nat) /\ list'[Len(list) + 1] = appended + 1
        /\ \A i \in 1 .. Len(list) : list'[i] = list[i]
    BY <1>0, <2>1 DEF SharedTypes
  <2>3. SharedTypes'
    BY <1>0, <2>1, <2>2 DEF SharedTypes
  <2>4. InsideHolds'
    BY <1>0, <2>1 DEF SharedTypes, InsideHolds
  <2>5. Numbered'
    <3>1. /\ Len(removed) + Len(list) = appended /\ appended \in Nat
          /\ \A i \in 1 .. Len(list) : list[i] = Len(removed) + i
      BY <1>0 DEF Numbered, SharedTypes
    <3>2. ASSUME NEW i \in 1 .. Len(list') PROVE list'[i] = Len(removed) + i
      <4>1. i = Len(list) + 1 \/ i \in 1 .. Len(list)
        BY <2>2
      <4>2. CASE i = Len(list) + 1
        <5>1. appended + 1 = Len(removed) + (Len(list) + 1)
          BY <2>2, <3>1
        <5> QED BY <2>2, <4>2, <5>1, SMTT(30)
      <4>3. CASE i \in 1 .. Len(list)
        BY <2>2, <3>1, <4>3
      <4> QED BY <4>1, <4>2, <4>3
    <3> QED BY <1>0, <2>1, <2>2, <3>1, <3>2 DEF Numbered
  <2>6. \A u \in Thread : at'[u] = "in" => FALSE
    BY <1>0, <2>1 DEF SharedTypes, InsideHolds
  <2>7. Collected'
    BY <1>0, <2>1, <2>6 DEF SharedTypes, Collected
  <2> QED BY <2>3, <2>4, <2>5, <2>7 DEF ListInv
<1>4. ASSUME NEW t \in Thread, Shared!RemoveItem(t)
      PROVE  ListInv'
  <2>1. /\ list # <<>> /\ list' = Tail(list) /\ removed' = Append(removed, Head(list))
        /\ at[t] = "in" /\ at' = [at EXCEPT ![t] = "release"]
        /\ UNCHANGED <<holder, waiting, entering, calls, appended, seen>>
    BY <1>4 DEF Shared!RemoveItem, Shared!Goto, Shared!monitorVars
  <2>2. /\ Len(list) \in Nat \ {0} /\ Len(removed) \in Nat /\ Len(list') = Len(list) - 1
        /\ list' \in Seq(Nat) /\ Head(list) = list[1] /\ list[1] \in Nat
        /\ \A i \in 1 .. Len(list) - 1 : list'[i] = list[i + 1]
    BY <1>0, <2>1 DEF SharedTypes
  <2>3. /\ removed' \in Seq(Nat) /\ Len(removed') = Len(removed) + 1
        /\ removed'[Len(removed) + 1] = list[1]
        /\ \A i \in 1 .. Len(removed) : removed'[i] = removed[i]
    BY <1>0, <2>1, <2>2 DEF SharedTypes
  <2>4. SharedTypes'
    BY <1>0, <2>1, <2>2, <2>3 DEF SharedTypes
  <2>5. InsideHolds'
    BY <1>0, <2>1 DEF SharedTypes, InsideHolds
  <2>6. Numbered'
    <3>1. /\ Len(removed) + Len(list) = appended
          /\ \A i \in 1 .. Len(removed) : removed[i] = i
          /\ \A i \in 1 .. Len(list) : list[i] = Len(removed) + i
      BY <1>0 DEF Numbered
    <3>2. ASSUME NEW i \in 1 .. Len(removed') PROVE removed'[i] = i
      <4>1. i = Len(removed) + 1 \/ i \in 1 .. Len(removed)
        BY <2>2, <2>3
      <4>2. CASE i = Len(removed) + 1
        BY <2>2, <2>3, <3>1, <4>2
      <4>3. CASE i \in 1 .. Len(removed)
        BY <2>3, <3>1, <4>3
      <4> QED BY <4>1, <4>2, <4>3
    <3>3. \A i \in 1 .. Len(list') : list'[i] = Len(removed') + i
      BY <2>2, <2>3, <3>1
    <3> QED BY <2>1, <2>2, <2>3, <3>1, <3>2, <3>3 DEF Numbered
  <2>7. \A u \in Thread : at'[u] = "in" => FALSE
    BY <1>0, <2>1 DEF SharedTypes, InsideHolds
  <2>8. Collected'
    BY <1>0, <2>1, <2>7 DEF SharedTypes, Collected
  <2> QED BY <2>4, <2>5, <2>6, <2>8 DEF ListInv
<1>5. ASSUME NEW t \in Thread, Shared!ApplyItem(t)
      PROVE  ListInv'
  <2>1. /\ at[t] = "in" /\ Head(calls[t]) = "Apply" /\ Len(seen[t]) < Len(list)
        /\ seen' = [seen EXCEPT ![t] = Append(seen[t], list[Len(seen[t]) + 1])]
        /\ UNCHANGED <<holder, waiting, entering, at, calls, list, appended, removed>>
    BY <1>5 DEF Shared!ApplyItem, Shared!monitorVars
  <2>2. Len(seen[t]) \in Nat /\ Len(list) \in Nat /\ list[Len(seen[t]) + 1] \in Nat
    BY <1>0, <2>1 DEF SharedTypes
  <2>3. /\ seen'[t] = Append(seen[t], list[Len(seen[t]) + 1])
        /\ seen'[t] \in Seq(Nat) /\ Len(seen'[t]) = Len(seen[t]) + 1
        /\ seen'[t][Len(seen[t]) + 1] = list[Len(seen[t]) + 1]
        /\ \A i \in 1 .. Len(seen[t]) : seen'[t][i] = seen[t][i]
    BY <1>0, <2>1, <2>2 DEF SharedTypes
  <2>4. SharedTypes'
    BY <1>0, <2>1, <2>3 DEF SharedTypes
  <2>5. InsideHolds' /\ Numbered'
    BY <1>0, <2>1 DEF InsideHolds, Numbered
  <2>6. \A u \in Thread : u # t => seen'[u] = seen[u]
    BY <1>0, <2>1 DEF SharedTypes
  <2>7. \A i \in 1 .. Len(seen'[t]) : seen'[t][i] = list[i]
    BY <1>0, <2>1, <2>2, <2>3 DEF Collected
  <2>8. Collected'
    BY <1>0, <2>1, <2>2, <2>3, <2>6, <2>7 DEF Collected
  <2> QED BY <2>4, <2>5, <2>8 DEF ListInv
<1>6. ASSUME NEW t \in Thread, Shared!Release(t)
      PROVE  ListInv'
  <2>1. /\ at[t] = "release" /\ at' = [at EXCEPT ![t] = "out"] /\ holder' = NULL
        /\ seen' = [seen EXCEPT ![t] = <<>>] /\ calls' = [calls EXCEPT ![t] = Tail(@)]
        /\ UNCHANGED <<waiting, entering, list, appended, removed>>
    BY <1>6 DEF Shared!Release, Shared!M!Exit, Shared!Goto
  <2>2. Tail(calls[t]) \in Seq({"Append", "Remove", "Apply"})
    BY <1>0, <2>1 DEF SharedTypes, InsideHolds
  <2>3. SharedTypes'
    BY <1>0, <2>1, <2>2 DEF SharedTypes
  <2>4. InsideHolds'
    BY <1>0, <2>1 DEF SharedTypes, InsideHolds
  <2>5. Numbered'
    BY <1>0, <2>1 DEF Numbered
  <2>6. Collected'
    BY <1>0, <2>1 DEF SharedTypes, Collected
  <2> QED BY <2>3, <2>4, <2>5, <2>6 DEF ListInv
<1>7. CASE UNCHANGED Shared!vars
  BY <1>0, <1>7 DEF Shared!vars, ListInv, SharedTypes, InsideHolds, Numbered, Collected
<1> QED BY <1>1, <1>2, <1>3, <1>4, <1>5, <1>6, <1>7 DEF Shared!Next, Shared!Step

\* ListInv holds whichever threads call and wherever they are interrupted.
LEMMA ListInvariance == ASSUME Shared!SynchListAssumption PROVE Shared!Spec => []ListInv
<1>1. Shared!Init => ListInv
  BY ListInit
<1>2. ListInv /\ [Shared!Next]_(Shared!vars) => ListInv'
  BY ListStep
<1> QED BY <1>1, <1>2, PTL DEF Shared!Spec

\* synchlist.h: Remove returns every item once, in the order of the Appends.
THEOREM ItemsComeInOrder == ASSUME Shared!SynchListAssumption PROVE Shared!Spec => []Shared!OnceInOrder
<1>1. ListInv => Shared!OnceInOrder
  <2> SUFFICES ASSUME ListInv PROVE removed \o list = [i \in 1 .. appended |-> i]
    BY DEF Shared!OnceInOrder
  <2>1. /\ Len(removed) + Len(list) = appended /\ list \in Seq(Nat) /\ removed \in Seq(Nat)
        /\ \A i \in 1 .. Len(removed) : removed[i] = i
        /\ \A i \in 1 .. Len(list) : list[i] = Len(removed) + i
    BY DEF ListInv, SharedTypes, Numbered
  <2>2. /\ Len(removed) \in Nat /\ Len(list) \in Nat /\ appended \in Nat
        /\ removed \o list \in Seq(Nat) /\ Len(removed \o list) = appended
    BY <2>1
  <2>3. \A i \in 1 .. appended :
           (removed \o list)[i] = IF i <= Len(removed) THEN removed[i] ELSE list[i - Len(removed)]
    BY <2>1, <2>2
  <2>4. \A i \in 1 .. appended : (removed \o list)[i] = i
    <3> SUFFICES ASSUME NEW i \in 1 .. appended PROVE (removed \o list)[i] = i
      BY Zenon
    <3>1. CASE i <= Len(removed)
      BY <2>1, <2>2, <2>3, <3>1
    <3>2. CASE ~(i <= Len(removed))
      <4>1. i - Len(removed) \in 1 .. Len(list)
        BY <2>1, <2>2, <3>2
      <4> QED BY <2>1, <2>2, <2>3, <3>2, <4>1
    <3> QED BY <3>1, <3>2, Zenon
  <2>5. removed \o list \in [1 .. appended -> Nat]
    BY <2>2, SeqIsFunction, Zenon
  <2> QED BY <2>4, <2>5, Zenon
<1> QED BY <1>1, ListInvariance, PTL

\* synchlist.h: no Append and no Remove comes between the calls of Apply's function.
THEOREM ApplyIsAtomic == ASSUME Shared!SynchListAssumption PROVE Shared!Spec => []Shared!ApplySeesOneList
<1>1. ListInv => Shared!ApplySeesOneList
  <2> SUFFICES ASSUME ListInv, NEW t \in Thread, at[t] = "in"
               PROVE  Len(seen[t]) <= Len(list) /\ seen[t] = SubSeq(list, 1, Len(seen[t]))
    BY DEF Shared!ApplySeesOneList
  <2>1. /\ Len(seen[t]) <= Len(list) /\ \A i \in 1 .. Len(seen[t]) : seen[t][i] = list[i]
        /\ seen[t] \in Seq(Nat) /\ list \in Seq(Nat) /\ Len(seen[t]) \in Nat /\ Len(list) \in Nat
    BY DEF ListInv, Collected, SharedTypes
  <2>2. seen[t] \in [1 .. Len(seen[t]) -> Nat]
    BY <2>1
  <2>3. SubSeq(list, 1, Len(seen[t])) = [i \in 1 .. Len(seen[t]) |-> list[i]]
    BY <2>1
  <2> QED BY <2>1, <2>2, <2>3
<1> QED BY <1>1, ListInvariance, PTL

\* The threads that will take an item, or wake one that will.
Takers ==
    {t \in Thread : \/ at[t] = "signal"
                    \/ (t \in entering \/ at[t] = "in") /\ Head(calls[t]) = "Remove"}

\* A thread on the queue of listEmpty is in Remove, once, and not yet signalled.
QueueIsWaiting ==
    /\ \A t \in entering : at[t] \in {"entering", "waiting"}
    /\ \A i \in 1 .. Len(waiting) :
          /\ at[waiting[i]] = "waiting" /\ waiting[i] \notin entering
          /\ Head(calls[waiting[i]]) = "Remove"
    /\ \A i, j \in 1 .. Len(waiting) : waiting[i] = waiting[j] => i = j

\* While threads wait every item has a taker.
ItemsHaveTakers == waiting # <<>> => Len(list) <= Cardinality(Takers)

WakeInv == ListInv /\ QueueIsWaiting /\ ItemsHaveTakers

\* Threads are finitely many.
LEMMA ThreadsFinite == Shared!SynchListAssumption => IsFiniteSet(Thread)
<1>1. \A S : Shared!IsFiniteSet(S) = IsFiniteSet(S)
  BY DEF Shared!IsFiniteSet, IsFiniteSet
<1> QED BY <1>1 DEF Shared!SynchListAssumption

\* The takers are finitely many, and more of them count for more.
LEMMA TakersFinite ==
  ASSUME Shared!SynchListAssumption
  PROVE  /\ IsFiniteSet(Takers) /\ Cardinality(Takers) \in Nat
         /\ IsFiniteSet(Takers') /\ Cardinality(Takers') \in Nat
         /\ Takers \subseteq Takers' => Cardinality(Takers) <= Cardinality(Takers')
<1>1. IsFiniteSet(Thread) /\ Takers \subseteq Thread /\ Takers' \subseteq Thread
  BY ThreadsFinite DEF Takers
<1>2. IsFiniteSet(Takers) /\ IsFiniteSet(Takers')
  BY <1>1, FS_Subset
<1> QED BY <1>2, FS_CardinalityType, FS_Subset

\* Every step keeps it: whoever takes an item was counted as a taker, and an Append or
\* a Signal that leaves somebody waiting makes one more.
LEMMA WakeStep == Shared!SynchListAssumption /\ WakeInv /\ [Shared!Next]_(Shared!vars) => WakeInv'
<1> SUFFICES ASSUME Shared!SynchListAssumption, WakeInv, [Shared!Next]_(Shared!vars)
             PROVE  QueueIsWaiting' /\ ItemsHaveTakers'
  BY ListStep DEF WakeInv
<1>0. /\ SharedTypes /\ InsideHolds /\ QueueIsWaiting /\ ItemsHaveTakers
      /\ Len(list) \in Nat /\ \A i \in 1 .. Len(waiting) : waiting[i] \in Thread
  BY DEF WakeInv, ListInv, SharedTypes
<1>1. ASSUME Takers \subseteq Takers', UNCHANGED <<list, waiting>>
      PROVE  ItemsHaveTakers'
  BY <1>0, <1>1, TakersFinite DEF ItemsHaveTakers
<1>2. ASSUME NEW t \in Thread, Shared!Acquire(t) \/ Shared!Enter(t)
      PROVE  QueueIsWaiting' /\ ItemsHaveTakers'
  <2>1. /\ UNCHANGED <<list, calls, waiting>> /\ t \notin {waiting[i] : i \in 1 .. Len(waiting)}
        /\ at[t] \in {"out", "entering", "waiting"}
        /\ \/ at' = [at EXCEPT ![t] = "in"] /\ entering' = entering \ {t}
           \/ at' = [at EXCEPT ![t] = "entering"] /\ entering' = entering \cup {t}
    BY <1>0, <1>2 DEF Shared!Acquire, Shared!Enter, Shared!dataVars, Shared!Goto,
                Shared!M!Enter, Shared!M!Request, Shared!M!Outside, QueueIsWaiting
  <2>2. QueueIsWaiting'
    BY <1>0, <2>1, SMTT(30) DEF SharedTypes, QueueIsWaiting
  <2>3. Takers \subseteq Takers'
    BY <1>0, <2>1 DEF SharedTypes, Takers
  <2> QED BY <1>1, <2>1, <2>2, <2>3
<1>3. ASSUME NEW t \in Thread, Shared!AppendItem(t)
      PROVE  QueueIsWaiting' /\ ItemsHaveTakers'
  <2>1. /\ at[t] = "in" /\ Head(calls[t]) = "Append" /\ at' = [at EXCEPT ![t] = "signal"]
        /\ list' = Append(list, appended + 1)
        /\ UNCHANGED <<calls, waiting, entering>>
    BY <1>3 DEF Shared!AppendItem, Shared!Goto, Shared!monitorVars
  <2>2. QueueIsWaiting'
    BY <1>0, <2>1 DEF SharedTypes, QueueIsWaiting
  <2>3. t \notin Takers /\ Takers' = Takers \cup {t}
    BY <1>0, <2>1 DEF SharedTypes, QueueIsWaiting, Takers
  <2>4. Cardinality(Takers') = Cardinality(Takers) + 1
    BY <2>3, TakersFinite, FS_AddElement
  <2>5. Len(list') = Len(list) + 1
    BY <1>0, <2>1 DEF SharedTypes
  <2> QED BY <1>0, <2>1, <2>2, <2>4, <2>5, TakersFinite DEF ItemsHaveTakers
<1>4. ASSUME NEW t \in Thread, Shared!Signal(t)
      PROVE  QueueIsWaiting' /\ ItemsHaveTakers'
  <2>1. /\ at[t] = "signal" /\ at' = [at EXCEPT ![t] = "release"]
        /\ UNCHANGED <<calls, list>>
    BY <1>4 DEF Shared!Signal, Shared!dataVars, Shared!Goto
  <2>2. CASE waiting = <<>>
    <3>1. UNCHANGED <<waiting, entering>>
      BY <1>4, <2>2 DEF Shared!Signal, Shared!monitorVars
    <3> QED BY <1>0, <2>1, <2>2, <3>1 DEF SharedTypes, QueueIsWaiting, ItemsHaveTakers
  <2>3. CASE waiting # <<>>
    <3>1. waiting' = Tail(waiting) /\ entering' = entering \cup {Head(waiting)}
      BY <1>4, <2>3 DEF Shared!Signal, Shared!M!Notify
    <3>2. /\ Len(waiting) \in Nat \ {0} /\ Head(waiting) = waiting[1] /\ 1 \in 1 .. Len(waiting)
          /\ Len(waiting') = Len(waiting) - 1
          /\ \A i \in 1 .. Len(waiting') : waiting'[i] = waiting[i + 1]
      BY <1>0, <2>3, <3>1 DEF SharedTypes
    <3>3. \A i \in 1 .. Len(waiting') : i + 1 \in 1 .. Len(waiting) /\ i + 1 # 1
      BY <3>2
    <3>4. \A i \in 1 .. Len(waiting') :
            /\ at[waiting'[i]] = "waiting" /\ waiting'[i] \notin entering'
            /\ Head(calls[waiting'[i]]) = "Remove" /\ waiting'[i] \in Thread
      BY <1>0, <3>1, <3>2, <3>3 DEF QueueIsWaiting
    <3>5. \A i, j \in 1 .. Len(waiting') : waiting'[i] = waiting'[j] => i = j
      BY <1>0, <3>2, <3>3 DEF QueueIsWaiting
    <3>6. \A u \in entering' : at[u] \in {"entering", "waiting"} /\ u \in Thread
      BY <1>0, <3>1, <3>2 DEF QueueIsWaiting, SharedTypes
    <3>7. QueueIsWaiting'
      BY <1>0, <2>1, <3>4, <3>5, <3>6 DEF QueueIsWaiting, SharedTypes
    <3>8. /\ t \in Takers /\ waiting[1] \notin Takers
          /\ (Takers \ {t}) \cup {waiting[1]} \subseteq Takers'
      BY <1>0, <2>1, <3>1, <3>2 DEF QueueIsWaiting, SharedTypes, Takers
    <3>9. Cardinality(Takers) <= Cardinality(Takers')
      <4> DEFINE Others == Takers \ {t}
      <4>1. IsFiniteSet(Others) /\ Cardinality(Others) = Cardinality(Takers) - 1
        BY <3>8, TakersFinite, FS_RemoveElement
      <4>2. /\ IsFiniteSet(Others \cup {waiting[1]})
            /\ Cardinality(Others \cup {waiting[1]}) = Cardinality(Others) + 1
        BY <3>8, <4>1, FS_AddElement
      <4>3. Cardinality(Others \cup {waiting[1]}) <= Cardinality(Takers')
        BY <3>8, TakersFinite, FS_Subset
      <4> HIDE DEF Others
      <4> QED BY <4>1, <4>2, <4>3, TakersFinite
    <3> QED BY <1>0, <2>1, <2>3, <3>7, <3>9, TakersFinite DEF ItemsHaveTakers
  <2> QED BY <2>2, <2>3
<1>5. ASSUME NEW t \in Thread, Shared!Wait(t)
      PROVE  QueueIsWaiting' /\ ItemsHaveTakers'
  <2>1. /\ at[t] = "in" /\ Head(calls[t]) = "Remove" /\ list = <<>>
        /\ at' = [at EXCEPT ![t] = "waiting"] /\ waiting' = Append(waiting, t)
        /\ UNCHANGED <<calls, list, entering>>
    BY <1>5 DEF Shared!Wait, Shared!M!StartWaiting, Shared!dataVars, Shared!Goto
  <2>2. /\ Len(waiting) \in Nat /\ Len(waiting') = Len(waiting) + 1
        /\ waiting'[Len(waiting) + 1] = t
        /\ \A i \in 1 .. Len(waiting) : waiting'[i] = waiting[i] /\ waiting[i] # t
    BY <1>0, <2>1 DEF SharedTypes, QueueIsWaiting
  <2>3. \A i \in 1 .. Len(waiting') : i \in 1 .. Len(waiting) \/ i = Len(waiting) + 1
    BY <2>2
  <2>4. QueueIsWaiting'
    <3>1. \A u \in entering' : at'[u] \in {"entering", "waiting"}
      BY <1>0, <2>1 DEF SharedTypes, QueueIsWaiting
    <3>2. \A i \in 1 .. Len(waiting) :
             /\ at'[waiting'[i]] = "waiting" /\ waiting'[i] \notin entering'
             /\ Head(calls'[waiting'[i]]) = "Remove"
      BY <1>0, <2>1, <2>2 DEF SharedTypes, QueueIsWaiting
    <3>3. /\ at'[t] = "waiting" /\ t \notin entering' /\ Head(calls'[t]) = "Remove"
      BY <1>0, <2>1 DEF SharedTypes, QueueIsWaiting
    <3>4. \A i, j \in 1 .. Len(waiting') : waiting'[i] = waiting'[j] => i = j
      BY <1>0, <2>2, <2>3 DEF QueueIsWaiting
    <3> QED BY <2>2, <2>3, <3>1, <3>2, <3>3, <3>4 DEF QueueIsWaiting
  <2>5. Len(list') = 0
    BY <2>1
  <2> QED BY <2>4, <2>5, TakersFinite DEF ItemsHaveTakers
<1>6. ASSUME NEW t \in Thread, Shared!RemoveItem(t)
      PROVE  QueueIsWaiting' /\ ItemsHaveTakers'
  <2>1. /\ at[t] = "in" /\ Head(calls[t]) = "Remove" /\ list # <<>> /\ list' = Tail(list)
        /\ at' = [at EXCEPT ![t] = "release"] /\ UNCHANGED <<calls, waiting, entering>>
    BY <1>6 DEF Shared!RemoveItem, Shared!Goto, Shared!monitorVars
  <2>2. QueueIsWaiting'
    BY <1>0, <2>1, Zenon DEF SharedTypes, QueueIsWaiting
  <2>3. t \in Takers /\ Takers' = Takers \ {t}
    BY <1>0, <2>1, Zenon DEF SharedTypes, QueueIsWaiting, Takers
  <2>4. Cardinality(Takers') = Cardinality(Takers) - 1
    BY <2>3, TakersFinite, FS_RemoveElement
  <2>5. Len(list') = Len(list) - 1
    BY <1>0, <2>1 DEF SharedTypes
  <2> QED BY <1>0, <2>1, <2>2, <2>4, <2>5, TakersFinite DEF ItemsHaveTakers
<1>7. ASSUME NEW t \in Thread, Shared!ApplyEnd(t) \/ Shared!Release(t)
      PROVE  QueueIsWaiting' /\ ItemsHaveTakers'
  <2>1. /\ UNCHANGED <<waiting, entering, list>>
        /\ at[t] = "release" \/ (at[t] = "in" /\ Head(calls[t]) = "Apply")
        /\ at' = [at EXCEPT ![t] = "out"] \/ at' = [at EXCEPT ![t] = "release"]
        /\ calls' = calls \/ calls' = [calls EXCEPT ![t] = Tail(@)]
    BY <1>7 DEF Shared!ApplyEnd, Shared!Release, Shared!M!Exit, Shared!Goto, Shared!dataVars,
                Shared!monitorVars
  <2>2. \A u \in Thread \ {t} : at'[u] = at[u] /\ calls'[u] = calls[u]
    BY <1>0, <2>1 DEF SharedTypes
  <2>3. t \notin Takers /\ t \notin entering /\ \A i \in 1 .. Len(waiting) : waiting[i] # t
    BY <1>0, <2>1 DEF QueueIsWaiting, Takers
  <2>4. QueueIsWaiting'
    BY <1>0, <2>1, <2>2, <2>3, ZenonT(60) DEF SharedTypes, QueueIsWaiting
  <2>5. Takers \subseteq Takers'
    BY <2>1, <2>2, <2>3 DEF Takers
  <2> QED BY <1>1, <2>1, <2>4, <2>5
<1>8. ASSUME UNCHANGED <<at, waiting, entering, list, calls>>
      PROVE  QueueIsWaiting' /\ ItemsHaveTakers'
  <2>1. Takers' = Takers
    BY <1>8 DEF Takers
  <2> QED BY <1>0, <1>8, <2>1 DEF QueueIsWaiting, ItemsHaveTakers
<1>9. ASSUME NEW t \in Thread, Shared!ApplyItem(t)
      PROVE  QueueIsWaiting' /\ ItemsHaveTakers'
  BY <1>8, <1>9 DEF Shared!ApplyItem, Shared!monitorVars
<1>10. CASE UNCHANGED Shared!vars
  BY <1>8, <1>10 DEF Shared!vars
<1> QED BY <1>2, <1>3, <1>4, <1>5, <1>6, <1>7, <1>9, <1>10 DEF Shared!Next, Shared!Step

\* synchlist.h: a Remove is not left waiting when there are more items than threads
\* that will take one: the signal of an Append is not lost, although another thread
\* may take the item before the woken one has the lock again.
THEOREM RemoveIsWoken == ASSUME Shared!SynchListAssumption PROVE Shared!Spec => []Shared!NoLostWakeUp
<1>1. Shared!Init => WakeInv
  <2> SUFFICES ASSUME Shared!Init PROVE QueueIsWaiting /\ ItemsHaveTakers
    BY ListInit DEF WakeInv
  <2>1. waiting = <<>> /\ entering = {} /\ Len(waiting) = 0
    BY DEF Shared!Init, Shared!M!AbsInit
  <2> QED BY <2>1 DEF QueueIsWaiting, ItemsHaveTakers
<1>2. WakeInv /\ [Shared!Next]_(Shared!vars) => WakeInv'
  BY WakeStep
<1>3. WakeInv => Shared!NoLostWakeUp
  <2>0. \A S : Shared!Cardinality(S) = Cardinality(S)
    BY DEF Shared!Cardinality, Cardinality
  <2> SUFFICES ASSUME WakeInv, waiting # <<>>
               PROVE  Len(list) <= Cardinality(Shared!Unsignalled \cup entering
                         \cup {t \in Thread : t = holder /\ at[t] = "in"})
    BY <2>0 DEF Shared!NoLostWakeUp
  <2> DEFINE All == Shared!Unsignalled \cup entering \cup {t \in Thread : t = holder /\ at[t] = "in"}
  <2>1. Takers \subseteq All /\ All \subseteq Thread
    BY DEF WakeInv, ListInv, SharedTypes, InsideHolds, Takers, Shared!Unsignalled
  <2>2. IsFiniteSet(All) /\ Cardinality(All) \in Nat /\ Cardinality(Takers) <= Cardinality(All)
    <3>1. IsFiniteSet(All)
      BY <2>1, ThreadsFinite, FS_Subset
    <3> QED BY <2>1, <3>1, FS_Subset, FS_CardinalityType
  <2>3. Len(list) <= Cardinality(Takers) /\ Len(list) \in Nat
    BY DEF WakeInv, ListInv, SharedTypes, ItemsHaveTakers
  <2> HIDE DEF All
  <2>4. Len(list) <= Cardinality(All)
    BY <2>2, <2>3, TakersFinite
  <2> QED BY <2>4 DEF All
<1> QED BY <1>1, <1>2, <1>3, PTL DEF Shared!Spec
=============================================================================
