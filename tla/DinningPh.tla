------------------------------ MODULE DinningPh ------------------------------
(***************************************************************************)
(* The monitor of threads/dinningph.cc and the philosophers of             *)
(* threads/threadtest.cc that call it.  The code between Acquire and the   *)
(* next Release or Wait runs under the lock "dp", which excludes (theorem  *)
(* LockExcludes of MonitorProofs), so each such section is one action.     *)
(* Signal only makes the waiter compete for the lock again (MesaMonitor),  *)
(* so others may enter between the signal and the return from Wait, and    *)
(* pickup does not test its condition again.                               *)
(***************************************************************************)
EXTENDS Integers

VARIABLES state,   \* DinningPh::state
          pc       \* where the philosopher is: "think", "wait" in
                   \* self[who]->Wait, "signalled" and not back from it, "eat"
                   \* between pickup and putdown

vars == <<state, pc>>

Philosopher == 0..4
Left(i) == (i + 4) % 5
Right(i) == (i + 1) % 5

Init ==
    /\ state = [i \in Philosopher |-> "Thinking"]
    /\ pc = [i \in Philosopher |-> "think"]

\* Mutant: test looks at one neighbour only.
MayEatOneSide(s, i) == s[Left(i)] # "Eating" /\ s[i] = "Hungry"

\* The condition of test(i) in state s.
MayEat(s, i) ==
    /\ s[Left(i)] # "Eating"
    /\ s[i] = "Hungry"
    /\ s[Right(i)] # "Eating"

\* test(i): the new states.
Tested(s, i) == IF MayEat(s, i) THEN [s EXCEPT ![i] = "Eating"] ELSE s

\* test(i): self[i]->Signal.  Nobody but philosopher i waits on self[i].
Signalled(s, p, i) ==
    IF MayEat(s, i) /\ p[i] = "wait" THEN [p EXCEPT ![i] = "signalled"] ELSE p

\* pickup(who), up to Wait or Release.
Pickup(who) ==
    /\ pc[who] = "think"
    /\ LET hungry == [state EXCEPT ![who] = "Hungry"]
       IN  state' = Tested(hungry, who)
    /\ pc' = [pc EXCEPT ![who] = IF state'[who] = "Hungry" THEN "wait" ELSE "eat"]

\* Wait returns in pickup, which releases the lock and returns.
PickupReturns(who) ==
    /\ pc[who] = "signalled"
    /\ pc' = [pc EXCEPT ![who] = "eat"]
    /\ UNCHANGED state

\* Mutant: putdown does not test the right neighbour.
PutdownForgetsRight(who) ==
    /\ pc[who] = "eat"
    /\ LET thinking == [state EXCEPT ![who] = "Thinking"]
           away     == [pc EXCEPT ![who] = "think"]
       IN  /\ state' = Tested(thinking, Left(who))
           /\ pc' = Signalled(thinking, away, Left(who))

\* Mutant: putdown signals the left neighbour without testing.
PutdownUntested(who) ==
    /\ pc[who] = "eat"
    /\ LET thinking == [state EXCEPT ![who] = "Thinking"]
           away     == [pc EXCEPT ![who] = "think",
                                  ![Left(who)] = IF @ = "wait" THEN "signalled" ELSE @]
       IN  /\ state' = Tested(thinking, Right(who))
           /\ pc' = Signalled(thinking, away, Right(who))

\* putdown(who).
Putdown(who) ==
    /\ pc[who] = "eat"
    /\ LET thinking == [state EXCEPT ![who] = "Thinking"]
           away     == [pc EXCEPT ![who] = "think"]
           left     == Tested(thinking, Left(who))
       IN  /\ state' = Tested(left, Right(who))
           /\ pc' = Signalled(left, Signalled(thinking, away, Left(who)), Right(who))

Next == \E i \in Philosopher : Pickup(i) \/ PickupReturns(i) \/ Putdown(i)

Spec == Init /\ [][Next]_vars

\* A signalled philosopher gets the lock back and an eating one puts the sticks
\* down (Philo sleeps a bounded time); thinking may take for ever.
Fairness == \A i \in Philosopher : WF_vars(PickupReturns(i)) /\ WF_vars(Putdown(i))

FairSpec == Spec /\ Fairness
-----------------------------------------------------------------------------
\* No two neighbours have their sticks at the same time, also while one of
\* them is on its way out of Wait (dinningph.cc:19-30).
NeighboursExclude ==
    \A i \in Philosopher :
       pc[i] \in {"signalled", "eat"} => pc[Right(i)] \notin {"signalled", "eat"}

\* The state says who eats: pickup waits in an "if" and does not test again
\* after Wait (dinningph.cc:25), and still returns only to a philosopher whose
\* state is Eating, since the signaller set it and nobody but the philosopher
\* resets it.
PickupReturnsEating ==
    \A i \in Philosopher : pc[i] \in {"signalled", "eat"} <=> state[i] = "Eating"

\* No missed signal: a philosopher waits only while a neighbour eats, so that
\* neighbour's putdown will test the waiter (dinningph.cc:33-43).
WaitsForNeighbour ==
    \A i \in Philosopher :
       pc[i] = "wait" => state[Left(i)] = "Eating" \/ state[Right(i)] = "Eating"

\* A philosopher starves only between two that keep eating: one that waits
\* for ever has a left and a right neighbour that each eat again and again.
\* (Those two can alternate, so that every philosopher eats is not promised.)
StarvesOnlyBetweenEaters ==
    \A i \in Philosopher :
       <>[](pc[i] = "wait") => []<>(pc[Left(i)] = "eat") /\ []<>(pc[Right(i)] = "eat")
=============================================================================
