------------------------------ MODULE Semaphore ------------------------------
(***************************************************************************)
(* One Semaphore of threads/synch.cc: its value, its queue of sleeping     *)
(* threads and the threads that use it.  P, V and Destroy run with         *)
(* interrupts disabled, so each is one action up to the point where the    *)
(* caller sleeps; a thread that returns from Thread::Sleep continues at    *)
(* the "while" test.  Between these sections the threads interleave in     *)
(* any order (module Kernel has the scheduler that orders them).           *)
(***************************************************************************)
EXTENDS Integers, Sequences, FiniteSets

CONSTANTS Thread,         \* the threads that use the semaphore
          InitialValue,   \* the constructor's initialValue
          MaxValue        \* bound on "value": no V is taken at this value

ASSUME SemaphoreAssumption ==
    /\ InitialValue \in Nat
    /\ MaxValue \in Nat
    /\ IsFiniteSet(Thread)

VARIABLES value,   \* Semaphore::value
          queue,   \* Semaphore::queue
          pc       \* where each thread stands with respect to P

vars == <<value, queue, pc>>

(***************************************************************************)
(* "out": not inside P.  "blocked": asleep, on the queue.  "woken": taken  *)
(* off the queue by V, has not tested value again.  "freed": the same, but *)
(* taken off the queue by Destroy.                                         *)
(***************************************************************************)
Location == {"out", "blocked", "woken", "freed"}

Woken == {t \in Thread : pc[t] \in {"woken", "freed"}}

Init ==
    /\ value = InitialValue
    /\ queue = <<>>
    /\ pc = [t \in Thread |-> "out"]

\* P finds value = 0: the thread queues up and sleeps.
PBlocks(t) ==
    /\ pc[t] # "blocked"
    /\ value = 0
    /\ queue' = Append(queue, t)
    /\ pc' = [pc EXCEPT ![t] = "blocked"]
    /\ UNCHANGED value

\* P finds value # 0: it consumes one unit and returns.
PTakes(t) ==
    /\ pc[t] # "blocked"
    /\ value # 0
    /\ value' = value - 1
    /\ pc' = [pc EXCEPT ![t] = "out"]
    /\ UNCHANGED queue

P(t) == PBlocks(t) \/ PTakes(t)

\* Mutant: V wakes a waiter only when the value was 0.
VWakesAtZero ==
    /\ value < MaxValue
    /\ value' = value + 1
    /\ IF queue # <<>> /\ value = 0
       THEN /\ queue' = Tail(queue)
            /\ pc' = [pc EXCEPT ![Head(queue)] = "woken"]
       ELSE UNCHANGED <<queue, pc>>

\* Mutant: V counts its unit once for the thread it wakes and once more for
\* the semaphore.
VCountsTwice ==
    /\ value < MaxValue
    /\ IF queue # <<>>
       THEN /\ queue' = Tail(queue)
            /\ pc' = [pc EXCEPT ![Head(queue)] = "woken"]
            /\ value' = value + 2
       ELSE value' = value + 1 /\ UNCHANGED <<queue, pc>>

\* V, called by a thread or by an interrupt handler: the first waiter, if any,
\* becomes ready, and in either case value grows.
V ==
    /\ value < MaxValue
    /\ value' = value + 1
    /\ IF queue # <<>>
       THEN /\ queue' = Tail(queue)
            /\ pc' = [pc EXCEPT ![Head(queue)] = "woken"]
       ELSE UNCHANGED <<queue, pc>>

\* Mutant: Destroy readies the waiters but leaves them on the queue.
DestroyKeepsQueue ==
    /\ queue # <<>>
    /\ pc' = [t \in Thread |-> IF pc[t] = "blocked" THEN "freed" ELSE pc[t]]
    /\ UNCHANGED <<value, queue>>

\* Destroy: every waiter becomes ready; value stays as it is.
Destroy ==
    /\ queue # <<>>
    /\ queue' = <<>>
    /\ pc' = [t \in Thread |-> IF pc[t] = "blocked" THEN "freed" ELSE pc[t]]
    /\ UNCHANGED value

Next ==
    \/ \E t \in Thread : PBlocks(t) \/ PTakes(t)
    \/ V
    \/ Destroy

Spec == Init /\ [][Next]_vars

\* A thread on the ready list gets the processor and goes on inside P: this
\* is what ReadyRuns of module Kernel shows of the scheduler.
Fairness == \A t \in Thread : WF_vars(t \in Woken /\ P(t))

FairSpec == Spec /\ Fairness
-----------------------------------------------------------------------------
\* Types: value is a natural number (synch.h:52, "always >= 0").
TypeOK ==
    /\ value \in Nat
    /\ queue \in Seq(Thread)
    /\ pc \in [Thread -> Location]

\* Sleeping in P and being on the queue are the same thing, and no thread is
\* on the queue twice: a thread that V takes off the queue (synch.cc:93) is
\* never left behind on it, and nobody sleeps where no V can find them.
QueueIsBlocked ==
    /\ \A i, j \in 1..Len(queue) : queue[i] = queue[j] => i = j
    /\ \A t \in Thread :
          pc[t] = "blocked" <=> \E i \in 1..Len(queue) : queue[i] = t

\* No wakeup is lost: while threads sleep on the queue, every available unit
\* is matched by a thread that was made ready and will test value again.  V
\* increments value and wakes at most one thread (synch.cc:93-96), threads
\* that never slept may take units from under the woken ones, and woken ones
\* may queue up again, in any order.
NoLostWakeup == queue # <<>> => Cardinality(Woken) >= value

\* Every step of the semaphore is a step of the counting semaphore or none,
\* and a unit does not stay available for ever while some thread waits in P.
Abstract == INSTANCE CountingSemaphore
                WITH avail <- value, waiting <- {t \in Thread : pc[t] # "out"}

ImplementsCounting == Abstract!AbsSpec

\* The comment on synch.cc:94, "make thread ready, consuming the V
\* immediately": a thread made ready by V owns the unit of that V, so it
\* never has to sleep again before P returns to it.
VIsConsumedByWoken ==
    [][\A t \in Thread : pc[t] = "woken" => pc'[t] # "blocked"]_vars

\* The comment on synch.cc:103, "Destroy the semaphore, freeing the waiting
\* threads": a thread that Destroy woke gets out of P.
DestroyFreesWaiters == \A t \in Thread : pc[t] = "freed" ~> pc[t] = "out"

=============================================================================
