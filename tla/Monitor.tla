------------------------------- MODULE Monitor -------------------------------
(***************************************************************************)
(* One Lock and one Condition of threads/synch.cc.  The lock is a          *)
(* semaphore "mutex" plus lockHolder; a condition is a list of private     *)
(* semaphores, one per call of Wait.  The semaphores behave as module      *)
(* Semaphore says.  Between two statements that run with interrupts        *)
(* enabled any other thread may run, so each semaphore operation and each  *)
(* assignment to shared state is an action of its own.                     *)
(*                                                                         *)
(* The clients are threads that use the classes as synch.h tells them to:  *)
(* Wait, Signal, Broadcast and Release only between Acquire and Release.   *)
(***************************************************************************)
EXTENDS Integers, Sequences, FiniteSets

CONSTANTS Thread, NULL

ASSUME MonitorAssumption == NULL \notin Thread

VARIABLES mutexValue, mutexQueue,   \* Lock::mutex
          lockHolder,               \* Lock::lockHolder
          waitQueue,                \* Condition::waitQueue; a waiter's semaphore
                                    \* is named after its thread
          waiter,                   \* value of the thread's "waiter" semaphore,
                                    \* NoSemaphore when it does not exist
          target,                   \* the waiter Signal has removed, before its V
          pc

vars == <<mutexValue, mutexQueue, lockHolder, waitQueue, waiter, target, pc>>

NoSemaphore == -1

(***************************************************************************)
(* out            not in the monitor                                       *)
(* lockAsleep     asleep in mutex->P()                                     *)
(* lockWoken      woken in mutex->P()                                      *)
(* lockTaken      mutex->P() has returned in Acquire                       *)
(* in             holds the lock, runs client code                         *)
(* release        in Release, lockHolder is NULL, before mutex->V()        *)
(* wait           in Wait, waiter queued, before Release                   *)
(* waitRelease    in Wait's Release, before mutex->V()                     *)
(* waitSleep      in Wait, before waiter->P()                              *)
(* waitAsleep     asleep in waiter->P()                                    *)
(* waitWoken      woken in waiter->P()                                     *)
(* waitAcquire    in Wait, before Acquire                                  *)
(* signal, broadcast  in Signal / Broadcast, before the V of the target    *)
(***************************************************************************)
OwnsMutex == {"lockTaken", "in", "release", "wait", "waitRelease", "signal", "broadcast"}
Location == OwnsMutex \cup {"out", "lockAsleep", "lockWoken", "waitSleep",
                            "waitAsleep", "waitWoken", "waitAcquire"}

Goto(t, place) == pc' = [pc EXCEPT ![t] = place]

\* Mutant: the lock's semaphore is created with two units.
InitTwoUnits ==
    /\ mutexValue = 2
    /\ mutexQueue = <<>>
    /\ lockHolder = NULL
    /\ waitQueue = <<>>
    /\ waiter = [t \in Thread |-> NoSemaphore]
    /\ target = [t \in Thread |-> NULL]
    /\ pc = [t \in Thread |-> "out"]

Init ==
    /\ mutexValue = 1
    /\ mutexQueue = <<>>
    /\ lockHolder = NULL
    /\ waitQueue = <<>>
    /\ waiter = [t \in Thread |-> NoSemaphore]
    /\ target = [t \in Thread |-> NULL]
    /\ pc = [t \in Thread |-> "out"]
-----------------------------------------------------------------------------
\* mutex->P() in Acquire, called by the client or by Wait.
MutexP(t) ==
    /\ pc[t] \in {"out", "waitAcquire", "lockWoken"}
    /\ IF mutexValue = 0
       THEN /\ mutexQueue' = Append(mutexQueue, t)
            /\ Goto(t, "lockAsleep")
            /\ UNCHANGED mutexValue
       ELSE /\ mutexValue' = mutexValue - 1
            /\ Goto(t, "lockTaken")
            /\ UNCHANGED mutexQueue
    /\ UNCHANGED <<lockHolder, waitQueue, waiter, target>>

\* mutex->V(); the caller goes on to "next".
MutexV(t, next) ==
    /\ mutexValue' = mutexValue + 1
    /\ IF mutexQueue # <<>>
       THEN /\ mutexQueue' = Tail(mutexQueue)
            /\ pc' = [pc EXCEPT ![t] = next, ![Head(mutexQueue)] = "lockWoken"]
       ELSE Goto(t, next) /\ UNCHANGED mutexQueue

\* The end of Acquire: "lockHolder = currentThread"; in Wait, "delete waiter".
SetHolder(t) ==
    /\ pc[t] = "lockTaken"
    /\ lockHolder' = t
    /\ waiter' = [waiter EXCEPT ![t] = NoSemaphore]
    /\ Goto(t, "in")
    /\ UNCHANGED <<mutexValue, mutexQueue, waitQueue, target>>

\* Release has two steps: "first" on entry, "second" on the way out.
InRelease(t, first, second) ==
    \/ pc[t] \in {"in", "wait"} /\ first
    \/ pc[t] \in {"release", "waitRelease"} /\ second

\* The step of Release that assigns NULL to lockHolder, and the one that calls
\* mutex->V(); the thread goes to "next".
ClearHolder(t, next) ==
    /\ lockHolder' = NULL
    /\ Goto(t, next)
    /\ UNCHANGED <<mutexValue, mutexQueue>>

ReleaseMutex(t, next) == MutexV(t, next) /\ UNCHANGED lockHolder

Entered(t) == IF pc[t] = "in" THEN "release" ELSE "waitRelease"
Left(t) == IF pc[t] = "release" THEN "out" ELSE "waitSleep"

\* Mutant: lockHolder is set to NULL after mutex->V().
ReleaseClearsLast(t) ==
    /\ InRelease(t, ReleaseMutex(t, Entered(t)), ClearHolder(t, Left(t)))
    /\ UNCHANGED <<waitQueue, waiter, target>>

\* Release, called by the client or by Wait.
Release(t) ==
    /\ InRelease(t, ClearHolder(t, Entered(t)), ReleaseMutex(t, Left(t)))
    /\ UNCHANGED <<waitQueue, waiter, target>>
-----------------------------------------------------------------------------
\* Mutant: the waiter goes to the front of the wait queue.
StartWaitInFront(t) ==
    /\ pc[t] = "in"
    /\ waiter' = [waiter EXCEPT ![t] = 0]
    /\ waitQueue' = <<t>> \o waitQueue
    /\ Goto(t, "wait")
    /\ UNCHANGED <<mutexValue, mutexQueue, lockHolder, target>>

\* Wait, up to Release: a new semaphore goes to the end of the wait queue.
StartWait(t) ==
    /\ pc[t] = "in"
    /\ waiter' = [waiter EXCEPT ![t] = 0]
    /\ waitQueue' = Append(waitQueue, t)
    /\ Goto(t, "wait")
    /\ UNCHANGED <<mutexValue, mutexQueue, lockHolder, target>>

\* waiter->P() in Wait.
WaiterP(t) ==
    /\ pc[t] \in {"waitSleep", "waitWoken"}
    /\ IF waiter[t] = 0
       THEN Goto(t, "waitAsleep") /\ UNCHANGED waiter
       ELSE /\ waiter' = [waiter EXCEPT ![t] = @ - 1]
            /\ Goto(t, "waitAcquire")
    /\ UNCHANGED <<mutexValue, mutexQueue, lockHolder, waitQueue, target>>

\* Mutant: Signal looks at the first waiter and leaves it on the queue.
SignalPeeks(t, how) ==
    /\ pc[t] = "in"
    /\ waitQueue # <<>>
    /\ target' = [target EXCEPT ![t] = Head(waitQueue)]
    /\ Goto(t, how)
    /\ UNCHANGED <<mutexValue, mutexQueue, lockHolder, waitQueue, waiter>>

\* Signal, or the first round of Broadcast, up to the V: with an empty queue
\* neither does anything.
Signal(t, how) ==
    /\ pc[t] = "in"
    /\ waitQueue # <<>>
    /\ target' = [target EXCEPT ![t] = Head(waitQueue)]
    /\ waitQueue' = Tail(waitQueue)
    /\ Goto(t, how)
    /\ UNCHANGED <<mutexValue, mutexQueue, lockHolder, waiter>>

\* Where the threads are after the V on w's semaphore.
SignalledPc(t, w, again) ==
    [u \in Thread |-> IF u = t THEN (IF again THEN "broadcast" ELSE "in")
                      ELSE IF u = w /\ pc[u] = "waitAsleep" THEN "waitWoken"
                      ELSE pc[u]]

\* Mutant: V on a semaphore nobody sleeps on leaves no trace.
WaiterVForgets(t) ==
    /\ pc[t] \in {"signal", "broadcast"}
    /\ LET w     == target[t]
           again == pc[t] = "broadcast" /\ waitQueue # <<>>
       IN  /\ waiter' = [waiter EXCEPT ![w] = IF pc[w] = "waitAsleep" THEN @ + 1 ELSE @]
           /\ target' = [target EXCEPT ![t] = IF again THEN Head(waitQueue) ELSE NULL]
           /\ waitQueue' = IF again THEN Tail(waitQueue) ELSE waitQueue
           /\ pc' = SignalledPc(t, w, again)
    /\ UNCHANGED <<mutexValue, mutexQueue, lockHolder>>

\* waiter->V() in Signal.  Broadcast then calls Signal again until the queue
\* is empty.
WaiterV(t) ==
    /\ pc[t] \in {"signal", "broadcast"}
    /\ LET w     == target[t]
           again == pc[t] = "broadcast" /\ waitQueue # <<>>
       IN  /\ waiter' = [waiter EXCEPT ![w] = @ + 1]
           /\ target' = [target EXCEPT ![t] = IF again THEN Head(waitQueue) ELSE NULL]
           /\ waitQueue' = IF again THEN Tail(waitQueue) ELSE waitQueue
           /\ pc' = SignalledPc(t, w, again)
    /\ UNCHANGED <<mutexValue, mutexQueue, lockHolder>>

\* What a thread inside one of the methods does next.
Step(t) ==
    \/ pc[t] # "out" /\ MutexP(t)
    \/ SetHolder(t)
    \/ pc[t] # "in" /\ Release(t)
    \/ WaiterP(t)
    \/ WaiterV(t)

\* What a client may call.
Call(t) ==
    \/ pc[t] = "out" /\ MutexP(t)
    \/ pc[t] = "in" /\ Release(t)
    \/ StartWait(t)
    \/ \E how \in {"signal", "broadcast"} : Signal(t, how)

Next == \E t \in Thread : Step(t) \/ Call(t)

Spec == Init /\ [][Next]_vars

\* A thread inside a method gets the processor; clients call what they like.
FairSpec == Spec /\ \A t \in Thread : WF_vars(Step(t))
-----------------------------------------------------------------------------
\* Types of the lock's and the condition's state.
TypeOK ==
    /\ mutexValue \in 0..1
    /\ mutexQueue \in Seq(Thread)
    /\ lockHolder \in Thread \cup {NULL}
    /\ waitQueue \in Seq(Thread)
    /\ waiter \in [Thread -> {NoSemaphore, 0, 1}]
    /\ target \in [Thread -> Thread \cup {NULL}]
    /\ pc \in [Thread -> Location]

Owners == {t \in Thread : pc[t] \in OwnsMutex}

\* Mutual exclusion: from the return of mutex->P() to the call of mutex->V()
\* at most one thread is inside the lock (synch.cc:144-158), and the unit of
\* the mutex is there exactly when no thread is.
MutualExclusion ==
    /\ \A t, u \in Owners : t = u
    /\ mutexValue = 1 <=> Owners = {}

\* lockHolder is written outside the semaphore's own critical sections
\* (synch.cc:147 and 155), yet it names the thread that runs between Acquire
\* and Release whenever that thread looks: the ASSERTs of Release, Wait and
\* Signal never fail for a correct client, and no other thread passes them.
HolderIsAccurate ==
    \A t \in Thread : lockHolder = t <=> pc[t] \in {"in", "wait", "signal", "broadcast"}

\* A signal is not lost in the gap between Wait's Release and its
\* waiter->P() (synch.cc:191-192): a thread asleep in Wait is on the wait
\* queue or its V is on the way, and one off the queue finds its unit.
NoLostSignal ==
    \A t \in Thread :
       pc[t] \in {"waitSleep", "waitAsleep"} /\ waiter[t] = 0 =>
          \/ \E i \in 1..Len(waitQueue) : waitQueue[i] = t
          \/ \E u \in Thread : target[u] = t

\* Signal never touches a semaphore that Wait has deleted (synch.cc:194): the
\* queue and the signallers only refer to semaphores that exist, and each is
\* referred to once.
WaitersExist ==
    LET queued(t) == {i \in 1..Len(waitQueue) : waitQueue[i] = t}
        chosen(t) == {u \in Thread : target[u] = t}
    IN  /\ TypeOK
        /\ \A t \in Thread :
              Cardinality(queued(t)) + Cardinality(chosen(t)) =
                 IF pc[t] \in {"wait", "waitRelease", "waitSleep", "waitAsleep"} /\ waiter[t] = 0
                 THEN 1 ELSE 0

\* Only the thread inside the lock may be on the queue and not waiting yet: it
\* has called Wait and not released the lock, and nobody has queued after it.
Holder == IF Owners = {} THEN NULL ELSE CHOOSE t \in Owners : TRUE
Waiting == IF waitQueue # <<>> /\ waitQueue[Len(waitQueue)] \in Owners
           THEN SubSeq(waitQueue, 1, Len(waitQueue) - 1)
           ELSE waitQueue
Entering == {t \in Thread :
               \/ pc[t] \in {"lockAsleep", "lockWoken", "waitAcquire"}
               \/ /\ pc[t] \in {"waitSleep", "waitAsleep", "waitWoken"}
                  /\ \A i \in 1..Len(waitQueue) : waitQueue[i] # t}

Mesa == INSTANCE MesaMonitor WITH holder <- Holder, waiting <- Waiting, entering <- Entering

\* "Releasing the lock and going to sleep are *atomic* in Wait()"
\* (synch.h:128-131), the threads are signalled in the order they waited, and a
\* free lock is taken if somebody wants it: the two classes implement the
\* monitor of module MesaMonitor.
ImplementsMesa == Mesa!AbsSpec
=============================================================================
