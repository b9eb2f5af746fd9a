---------------------------- MODULE MonitorProofs ----------------------------
(***************************************************************************)
(* For any number of threads (module Monitor): the lock excludes,          *)
(* lockHolder tells the truth, no signal is lost, no deleted semaphore is  *)
(* used, and Lock and Condition together are the Mesa monitor of module    *)
(* MesaMonitor.                                                            *)
(***************************************************************************)
EXTENDS Monitor, TLAPS

\* What the types have to say for the two theorems.
LockTypes ==
    /\ mutexValue \in {0, 1}
    /\ mutexQueue \in Seq(Thread)
    /\ lockHolder \in Thread \cup {NULL}
    /\ pc \in [Thread -> Location]

\* A thread on the mutex's queue is asleep there, so the V that takes it off
\* the queue does not move a thread that is inside the lock.
QueuedAreAsleep == \A i \in 1..Len(mutexQueue) : pc[mutexQueue[i]] = "lockAsleep"

\* No thread is on the mutex's queue twice.
QueuedOnce == \A i, j \in 1..Len(mutexQueue) : mutexQueue[i] = mutexQueue[j] => i = j

IInv == LockTypes /\ QueuedAreAsleep /\ QueuedOnce /\ MutualExclusion /\ HolderIsAccurate

\* The invariant holds of a new Lock (synch.cc:125-134).
LEMMA InitLemma == Init => IInv
  BY MonitorAssumption
  DEF Init, IInv, LockTypes, QueuedAreAsleep, QueuedOnce, MutualExclusion, HolderIsAccurate,
      Owners, OwnsMutex, Location

\* mutex->P (synch.cc:146) keeps the invariant.
LEMMA MutexPLemma == ASSUME NEW t \in Thread, IInv, MutexP(t) PROVE IInv'
<1> USE DEF IInv, LockTypes, Goto
<1>1. CASE mutexValue = 0
  <2>1. mutexQueue' = Append(mutexQueue, t) /\ pc' = [pc EXCEPT ![t] = "lockAsleep"]
        /\ mutexValue' = 0 /\ lockHolder' = lockHolder
    BY <1>1 DEF MutexP
  <2>2. pc[t] \notin OwnsMutex /\ pc[t] # "lockAsleep"
    BY DEF MutexP, OwnsMutex
  <2>3. Owners' = Owners
    BY <2>1, <2>2 DEF Owners, OwnsMutex
  <2>4. LockTypes'
    BY <2>1 DEF Location
  <2>5. QueuedAreAsleep'
    BY <2>1, <2>2 DEF QueuedAreAsleep
  <2>6. QueuedOnce'
    BY <2>1, <2>2 DEF QueuedOnce, QueuedAreAsleep
  <2>7. MutualExclusion'
    BY <2>1, <2>3, <1>1 DEF MutualExclusion
  <2>8. HolderIsAccurate'
    BY <2>1, <2>2 DEF HolderIsAccurate, OwnsMutex
  <2> QED BY <2>4, <2>5, <2>6, <2>7, <2>8
<1>2. CASE mutexValue # 0
  <2>1. mutexQueue' = mutexQueue /\ pc' = [pc EXCEPT ![t] = "lockTaken"]
        /\ mutexValue' = 0 /\ lockHolder' = lockHolder
    BY <1>2 DEF MutexP
  <2>2. pc[t] \notin OwnsMutex /\ pc[t] # "lockAsleep"
    BY DEF MutexP, OwnsMutex
  <2>3. Owners = {} /\ Owners' = {t}
    BY <1>2, <2>1 DEF MutualExclusion, Owners, OwnsMutex
  <2>4. LockTypes'
    BY <2>1 DEF Location, OwnsMutex
  <2>5. QueuedAreAsleep' /\ QueuedOnce'
    BY <2>1, <2>2 DEF QueuedAreAsleep, QueuedOnce
  <2>6. MutualExclusion'
    BY <2>1, <2>3 DEF MutualExclusion
  <2>7. HolderIsAccurate'
    BY <2>1, <2>2 DEF HolderIsAccurate, OwnsMutex
  <2> QED BY <2>4, <2>5, <2>6, <2>7
<1> QED BY <1>1, <1>2

\* Release (synch.cc:152-158) keeps the invariant.
LEMMA ReleaseLemma == ASSUME NEW t \in Thread, IInv, Release(t) PROVE IInv'
<1> USE DEF IInv, LockTypes, Goto
<1>0. t \in Owners /\ Owners = {t} /\ mutexValue = 0
  BY DEF Release, InRelease, Owners, OwnsMutex, MutualExclusion
<1>1. CASE pc[t] \in {"in", "wait"}
  <2>1. PICK next \in {"release", "waitRelease"} :
           pc' = [pc EXCEPT ![t] = next] /\ lockHolder' = NULL
           /\ mutexValue' = mutexValue /\ mutexQueue' = mutexQueue
    BY <1>1 DEF Release, InRelease, ClearHolder, Entered
  <2>2. Owners' = Owners
    BY <2>1, <1>0 DEF Owners, OwnsMutex
  <2>3. LockTypes'
    BY <2>1 DEF Location, OwnsMutex
  <2>4. QueuedAreAsleep' /\ QueuedOnce'
    BY <2>1, <1>1 DEF QueuedAreAsleep, QueuedOnce
  <2>5. MutualExclusion'
    BY <2>1, <2>2 DEF MutualExclusion
  <2>6. HolderIsAccurate'
    BY <2>1, <1>0, MonitorAssumption DEF HolderIsAccurate, Owners, OwnsMutex
  <2> QED BY <2>3, <2>4, <2>5, <2>6
<1>2. CASE pc[t] \in {"release", "waitRelease"}
  <2>1. PICK next \in {"out", "waitSleep"} : MutexV(t, next) /\ lockHolder' = lockHolder
    BY <1>2 DEF Release, InRelease, ReleaseMutex, Left
  <2>2. mutexValue' = 1
    BY <2>1, <1>0 DEF MutexV
  <2>3. CASE mutexQueue = <<>>
    <3>1. pc' = [pc EXCEPT ![t] = next] /\ mutexQueue' = mutexQueue
      BY <2>1, <2>3 DEF MutexV
    <3>2. Owners' = {}
      BY <3>1, <1>0 DEF Owners, OwnsMutex
    <3>3. LockTypes'
      BY <3>1, <2>1, <2>2 DEF Location
    <3>4. QueuedAreAsleep' /\ QueuedOnce'
      BY <3>1, <2>3 DEF QueuedAreAsleep, QueuedOnce
    <3>5. MutualExclusion' /\ HolderIsAccurate'
      BY <3>1, <3>2, <2>1, <2>2, <1>2 DEF MutualExclusion, HolderIsAccurate
    <3> QED BY <3>3, <3>4, <3>5
  <2>4. CASE mutexQueue # <<>>
    <3> DEFINE h == Head(mutexQueue)
    <3>1. h \in Thread /\ h = mutexQueue[1] /\ pc[h] = "lockAsleep" /\ h # t
      BY <2>4, <1>2 DEF QueuedAreAsleep
    <3>2. pc' = [pc EXCEPT ![t] = next, ![h] = "lockWoken"] /\ mutexQueue' = Tail(mutexQueue)
      BY <2>1, <2>4 DEF MutexV
    <3>3. \A i \in 1..Len(mutexQueue') : mutexQueue'[i] = mutexQueue[i+1] /\ i+1 \in 1..Len(mutexQueue)
      BY <3>2, <2>4
    <3>4. Owners' = {}
      BY <3>1, <3>2, <1>0 DEF Owners, OwnsMutex
    <3>5. LockTypes'
      BY <3>1, <3>2, <2>1, <2>2, <2>4 DEF Location
    <3>6. QueuedOnce'
      BY <3>3, <3>2, <2>4 DEF QueuedOnce
    <3>7. \A i \in 1..Len(mutexQueue') : mutexQueue'[i] # h /\ mutexQueue'[i] # t
      BY <3>1, <3>3, <1>2 DEF QueuedOnce, QueuedAreAsleep
    <3>8. QueuedAreAsleep'
      BY <3>2, <3>3, <3>7 DEF QueuedAreAsleep
    <3>9. MutualExclusion' /\ HolderIsAccurate'
      BY <3>1, <3>2, <3>4, <2>1, <2>2, <1>2 DEF MutualExclusion, HolderIsAccurate
    <3> QED BY <3>5, <3>6, <3>8, <3>9
  <2> QED BY <2>3, <2>4
<1> QED BY <1>1, <1>2 DEF Release, InRelease

\* The other steps move threads inside the lock, or outside it, but none
\* across its boundary, and lockHolder is set by the thread inside.
LEMMA OtherStepsLemma ==
  ASSUME NEW t \in Thread, IInv,
         \/ SetHolder(t) \/ StartWait(t) \/ WaiterP(t) \/ WaiterV(t)
         \/ \E how \in {"signal", "broadcast"} : Signal(t, how)
  PROVE  IInv'
<1> USE DEF IInv, LockTypes, Goto
<1>1. CASE SetHolder(t)
  <2>1. pc' = [pc EXCEPT ![t] = "in"] /\ pc[t] = "lockTaken" /\ lockHolder' = t
        /\ mutexValue' = mutexValue /\ mutexQueue' = mutexQueue
    BY <1>1 DEF SetHolder
  <2>2. Owners' = Owners /\ Owners = {t}
    BY <2>1 DEF Owners, OwnsMutex, MutualExclusion
  <2> QED BY <2>1, <2>2 DEF QueuedAreAsleep, QueuedOnce, MutualExclusion, HolderIsAccurate,
                            Location, OwnsMutex, Owners
<1>2. CASE StartWait(t) \/ \E how \in {"signal", "broadcast"} : Signal(t, how)
  <2>1. PICK next \in {"wait", "signal", "broadcast"} :
           pc' = [pc EXCEPT ![t] = next] /\ pc[t] = "in" /\ lockHolder' = lockHolder
           /\ mutexValue' = mutexValue /\ mutexQueue' = mutexQueue
    BY <1>2 DEF StartWait, Signal
  <2>2. Owners' = Owners
    BY <2>1 DEF Owners, OwnsMutex
  <2> QED BY <2>1, <2>2 DEF QueuedAreAsleep, QueuedOnce, MutualExclusion, HolderIsAccurate,
                            Location, OwnsMutex
<1>3. CASE WaiterP(t)
  <2>1. PICK next \in {"waitAsleep", "waitAcquire"} :
           pc' = [pc EXCEPT ![t] = next] /\ pc[t] \in {"waitSleep", "waitWoken"}
           /\ lockHolder' = lockHolder /\ mutexValue' = mutexValue /\ mutexQueue' = mutexQueue
    BY <1>3 DEF WaiterP
  <2>2. Owners' = Owners
    BY <2>1 DEF Owners, OwnsMutex
  <2> QED BY <2>1, <2>2 DEF QueuedAreAsleep, QueuedOnce, MutualExclusion, HolderIsAccurate,
                            Location, OwnsMutex
<1>4. CASE WaiterV(t)
  <2>1. /\ pc[t] \in {"signal", "broadcast"}
        /\ lockHolder' = lockHolder /\ mutexValue' = mutexValue /\ mutexQueue' = mutexQueue
        /\ pc' = SignalledPc(t, target[t], pc[t] = "broadcast" /\ waitQueue # <<>>)
    BY <1>4 DEF WaiterV
  <2>2. \A u \in Thread : \/ u = t /\ pc'[u] \in {"in", "broadcast"}
                          \/ u # t /\ pc'[u] = pc[u]
                          \/ u # t /\ pc[u] = "waitAsleep" /\ pc'[u] = "waitWoken"
    BY <2>1 DEF SignalledPc
  <2>3. pc' \in [Thread -> Location]
    BY <2>1 DEF Location, OwnsMutex, SignalledPc
  <2>4. Owners' = Owners
    BY <2>1, <2>2 DEF Owners, OwnsMutex
  <2>5. QueuedAreAsleep' /\ QueuedOnce'
    BY <2>1, <2>2 DEF QueuedAreAsleep, QueuedOnce
  <2>6. HolderIsAccurate'
    BY <2>1, <2>2 DEF HolderIsAccurate
  <2> QED BY <2>1, <2>3, <2>4, <2>5, <2>6 DEF MutualExclusion
<1> QED BY <1>1, <1>2, <1>3, <1>4

\* The invariant is inductive: one lemma per group of actions.
LEMMA InvHolds == Spec => []IInv
<1>1. IInv /\ [Next]_vars => IInv'
  <2> SUFFICES ASSUME IInv, [Next]_vars PROVE IInv'
    OBVIOUS
  <2>1. CASE Next
    <3>1. PICK t \in Thread : Step(t) \/ Call(t)
      BY <2>1 DEF Next
    <3> QED BY <3>1, MutexPLemma, ReleaseLemma, OtherStepsLemma DEF Step, Call
  <2>2. CASE UNCHANGED vars
    BY <2>2 DEF vars, IInv, LockTypes, QueuedAreAsleep, QueuedOnce, MutualExclusion,
                HolderIsAccurate, Owners
  <2> QED BY <2>1, <2>2
<1> QED BY InitLemma, <1>1, PTL DEF Spec

\* At most one thread is between the return of mutex->P() in Acquire and the
\* call of mutex->V() in Release (synch.cc:144-158), however many use the lock.
THEOREM LockExcludes == Spec => []MutualExclusion
  BY InvHolds, PTL DEF IInv

\* lockHolder names the thread between Acquire and Release and no other, so
\* the ASSERTs of synch.cc:154, 187 and 202 hold for every correct client.
THEOREM HolderIsTrue == Spec => []HolderIsAccurate
  BY InvHolds, PTL DEF IInv
-----------------------------------------------------------------------------
(* The condition.  A thread whose waiter semaphore has not been signalled  *)
(* is pending; it is known to the queue or to a signaller, and to one of   *)
(* them only.                                                              *)

Pending(t) == pc[t] \in {"wait", "waitRelease", "waitSleep", "waitAsleep"} /\ waiter[t] = 0

WaitTypes ==
    /\ waitQueue \in Seq(Thread)
    /\ waiter \in [Thread -> {NoSemaphore, 0, 1}]
    /\ target \in [Thread -> Thread \cup {NULL}]

\* The waiter semaphore exists as long as Wait uses it, its unit has not come
\* while the thread sleeps or still has the lock, and has when it was woken.
SemaphoreValues ==
    \A t \in Thread :
       /\ pc[t] \in {"wait", "waitRelease", "waitAsleep"} => waiter[t] = 0
       /\ pc[t] = "waitSleep" => waiter[t] \in {0, 1}
       /\ pc[t] = "waitWoken" => waiter[t] = 1

QueuedPend ==
    /\ \A i \in 1..Len(waitQueue) : Pending(waitQueue[i])
    /\ \A i, j \in 1..Len(waitQueue) : waitQueue[i] = waitQueue[j] => i = j

TargetsPend ==
    \A u \in Thread :
       /\ target[u] # NULL <=> pc[u] \in {"signal", "broadcast"}
       /\ target[u] # NULL =>
             Pending(target[u]) /\ \A i \in 1..Len(waitQueue) : waitQueue[i] # target[u]

PendingIsKnown ==
    \A t \in Thread : Pending(t) => \/ \E i \in 1..Len(waitQueue) : waitQueue[i] = t
                                    \/ \E u \in Thread : target[u] = t

SInv == WaitTypes /\ SemaphoreValues /\ QueuedPend /\ TargetsPend /\ PendingIsKnown

\* A queue without repetitions stays so when a new element is appended or the
\* first one is removed.
Distinct(q) == \A i, j \in 1..Len(q) : q[i] = q[j] => i = j

\* A thread that is not queued can be appended.
LEMMA AppendDistinct ==
  ASSUME NEW q \in Seq(Thread), NEW e \in Thread, Distinct(q), \A i \in 1..Len(q) : q[i] # e
  PROVE  Distinct(Append(q, e))
<1>1. /\ Len(Append(q, e)) = Len(q) + 1 /\ Append(q, e)[Len(q) + 1] = e
      /\ \A i \in 1..Len(q) : Append(q, e)[i] = q[i]
  OBVIOUS
<1> SUFFICES ASSUME NEW i \in 1..Len(q) + 1, NEW j \in 1..Len(q) + 1,
                    Append(q, e)[i] = Append(q, e)[j]
             PROVE  i = j
  BY <1>1 DEF Distinct
<1>2. CASE i \in 1..Len(q) /\ j \in 1..Len(q)
  BY <1>1, <1>2 DEF Distinct
<1>3. CASE i = Len(q) + 1 /\ j \in 1..Len(q)
  BY <1>1, <1>3
<1>4. CASE j = Len(q) + 1 /\ i \in 1..Len(q)
  BY <1>1, <1>4
<1>5. CASE i = Len(q) + 1 /\ j = Len(q) + 1
  BY <1>5
<1> QED BY <1>2, <1>3, <1>4, <1>5

\* Removing the head keeps the queue free of repetitions.
LEMMA TailDistinct ==
  ASSUME NEW q \in Seq(Thread), q # <<>>, Distinct(q) PROVE Distinct(Tail(q))
<1>1. \A i \in 1..Len(Tail(q)) : Tail(q)[i] = q[i+1] /\ i+1 \in 1..Len(q)
  OBVIOUS
<1> SUFFICES ASSUME NEW i \in 1..Len(Tail(q)), NEW j \in 1..Len(Tail(q)), Tail(q)[i] = Tail(q)[j]
             PROVE  i = j
  BY DEF Distinct
<1>2. i+1 = j+1
  BY <1>1 DEF Distinct
<1> QED BY <1>2

\* The invariant holds of a new Condition (synch.cc:168-173).
LEMMA SignalInit == Init => SInv
  BY MonitorAssumption
  DEF Init, SInv, WaitTypes, SemaphoreValues, QueuedPend, TargetsPend, PendingIsKnown, Pending,
      NoSemaphore

\* A step that leaves alone the queue, the targets, who is pending and who
\* signals keeps the invariant.
LEMMA QuietLemma ==
  ASSUME SInv, WaitTypes', SemaphoreValues', waitQueue' = waitQueue, target' = target,
         \A u \in Thread :
            /\ Pending(u)' <=> Pending(u)
            /\ pc'[u] \in {"signal", "broadcast"} <=> pc[u] \in {"signal", "broadcast"}
  PROVE  SInv'
<1> USE DEF SInv
<1>1. \A i \in 1..Len(waitQueue) : waitQueue[i] \in Thread
  BY DEF WaitTypes
<1>2. QueuedPend'
  BY <1>1 DEF QueuedPend, Pending
<1>3. TargetsPend'
  BY DEF TargetsPend, WaitTypes, Pending
<1>4. PendingIsKnown'
  BY DEF PendingIsKnown, Pending
<1> QED BY <1>2, <1>3, <1>4

\* The steps of Acquire, of Release and of waiter->P (synch.cc:144-158, 192)
\* are quiet.
LEMMA QuietSteps ==
  ASSUME NEW t \in Thread, IInv, SInv,
         MutexP(t) \/ SetHolder(t) \/ Release(t) \/ WaiterP(t)
  PROVE  SInv'
<1> USE DEF IInv, LockTypes, SInv, WaitTypes, Goto
<1>1. CASE MutexP(t)
  <2>1. PICK next \in {"lockAsleep", "lockTaken"} :
           /\ pc' = [pc EXCEPT ![t] = next] /\ pc[t] \in {"out", "waitAcquire", "lockWoken"}
           /\ waitQueue' = waitQueue /\ target' = target /\ waiter' = waiter
    BY <1>1 DEF MutexP
  <2>2. SemaphoreValues'
    BY <2>1 DEF SemaphoreValues
  <2> QED BY <2>1, <2>2, QuietLemma DEF Pending
<1>2. CASE SetHolder(t)
  <2>1. /\ pc' = [pc EXCEPT ![t] = "in"] /\ pc[t] = "lockTaken"
        /\ waitQueue' = waitQueue /\ target' = target
        /\ waiter' = [waiter EXCEPT ![t] = NoSemaphore]
    BY <1>2 DEF SetHolder
  <2>2. SemaphoreValues' /\ WaitTypes'
    BY <2>1 DEF SemaphoreValues
  <2> QED BY <2>1, <2>2, QuietLemma DEF Pending
<1>3. CASE Release(t)
  <2>0. waitQueue' = waitQueue /\ target' = target /\ waiter' = waiter
    BY <1>3 DEF Release
  <2>1. CASE pc[t] \in {"in", "wait"}
    <3>1. pc' = [pc EXCEPT ![t] = Entered(t)]
      BY <1>3, <2>1 DEF Release, InRelease, ClearHolder
    <3>2. SemaphoreValues'
      BY <3>1, <2>0, <2>1 DEF SemaphoreValues, Entered
    <3> QED BY <3>1, <3>2, <2>0, <2>1, QuietLemma DEF Pending, Entered
  <2>2. CASE pc[t] \in {"release", "waitRelease"}
    <3>1. MutexV(t, Left(t))
      BY <1>3, <2>2 DEF Release, InRelease, ReleaseMutex
    <3>2. \A u \in Thread : \/ u = t /\ pc'[u] = Left(t)
                            \/ u # t /\ pc'[u] = pc[u]
                            \/ u # t /\ pc[u] = "lockAsleep" /\ pc'[u] = "lockWoken"
      <4>1. CASE mutexQueue = <<>>
        BY <3>1, <4>1 DEF MutexV
      <4>2. CASE mutexQueue # <<>>
        <5>1. Head(mutexQueue) \in Thread /\ pc[Head(mutexQueue)] = "lockAsleep"
          BY <4>2 DEF QueuedAreAsleep
        <5>2. pc' = [pc EXCEPT ![t] = Left(t), ![Head(mutexQueue)] = "lockWoken"]
          BY <3>1, <4>2 DEF MutexV
        <5> QED BY <5>1, <5>2, <2>2
      <4> QED BY <4>1, <4>2
    <3>3. SemaphoreValues'
      BY <3>2, <2>0, <2>2 DEF SemaphoreValues, Left
    <3>4. \A u \in Thread :
             /\ Pending(u)' <=> Pending(u)
             /\ pc'[u] \in {"signal", "broadcast"} <=> pc[u] \in {"signal", "broadcast"}
      BY <3>2, <2>0, <2>2 DEF Pending, Left
    <3> QED BY <3>3, <3>4, <2>0, QuietLemma
  <2> QED BY <1>3, <2>1, <2>2 DEF Release, InRelease
<1>4. CASE WaiterP(t)
  <2>0. waitQueue' = waitQueue /\ target' = target /\ pc[t] \in {"waitSleep", "waitWoken"}
    BY <1>4 DEF WaiterP
  <2>1. CASE waiter[t] = 0
    <3>1. pc' = [pc EXCEPT ![t] = "waitAsleep"] /\ waiter' = waiter /\ pc[t] = "waitSleep"
      BY <1>4, <2>0, <2>1 DEF WaiterP, SemaphoreValues
    <3>2. SemaphoreValues'
      BY <3>1, <2>1 DEF SemaphoreValues
    <3> QED BY <3>1, <3>2, <2>0, QuietLemma DEF Pending
  <2>2. CASE waiter[t] # 0
    <3>1. waiter[t] = 1
      BY <2>0, <2>2 DEF SemaphoreValues
    <3>2. pc' = [pc EXCEPT ![t] = "waitAcquire"] /\ waiter' = [waiter EXCEPT ![t] = 0]
      BY <1>4, <2>2, <3>1 DEF WaiterP
    <3>3. SemaphoreValues' /\ WaitTypes'
      BY <3>2, <2>0 DEF SemaphoreValues
    <3> QED BY <3>1, <3>2, <3>3, <2>0, QuietLemma DEF Pending
  <2> QED BY <2>1, <2>2
<1> QED BY <1>1, <1>2, <1>3, <1>4

\* Wait (synch.cc:189-190) makes the caller pending and puts it on the queue.
LEMMA StartWaitLemma == ASSUME NEW t \in Thread, IInv, SInv, StartWait(t) PROVE SInv'
<1> USE DEF IInv, LockTypes, SInv, WaitTypes, Goto
<1>1. /\ pc[t] = "in" /\ pc' = [pc EXCEPT ![t] = "wait"] /\ target' = target
      /\ waiter' = [waiter EXCEPT ![t] = 0] /\ waitQueue' = Append(waitQueue, t)
  BY DEF StartWait
<1>2. /\ WaitTypes' /\ SemaphoreValues'
  BY <1>1 DEF SemaphoreValues
<1>3. Pending(t)' /\ ~Pending(t) /\ \A u \in Thread \ {t} : Pending(u)' <=> Pending(u)
  BY <1>1 DEF Pending
<1>4. \A i \in 1..Len(waitQueue) : waitQueue[i] \in Thread \ {t} /\ Pending(waitQueue[i])
  BY <1>3 DEF QueuedPend
<1>5. /\ Len(waitQueue') = Len(waitQueue) + 1 /\ waitQueue'[Len(waitQueue) + 1] = t
      /\ \A i \in 1..Len(waitQueue) : waitQueue'[i] = waitQueue[i]
  BY <1>1
<1>6. QueuedPend'
  <2>1. \A i \in 1..Len(waitQueue') :
           waitQueue'[i] = t \/ (waitQueue'[i] \in Thread \ {t} /\ Pending(waitQueue[i]) /\ i \in 1..Len(waitQueue))
    BY <1>4, <1>5
  <2>2. \A i \in 1..Len(waitQueue') : pc'[waitQueue'[i]] \in {"wait", "waitRelease", "waitSleep", "waitAsleep"}
                                      /\ waiter'[waitQueue'[i]] = 0
    BY <2>1, <1>5, <1>1 DEF Pending
  <2>3. \A i, j \in 1..Len(waitQueue') : waitQueue'[i] = waitQueue'[j] => i = j
    BY <1>1, <1>4, AppendDistinct DEF QueuedPend, Distinct
  <2> QED BY <2>2, <2>3 DEF QueuedPend, Pending
<1>7. TargetsPend'
  <2> SUFFICES ASSUME NEW u \in Thread
               PROVE  /\ target'[u] # NULL <=> pc'[u] \in {"signal", "broadcast"}
                      /\ target'[u] # NULL =>
                            /\ pc'[target'[u]] \in {"wait", "waitRelease", "waitSleep", "waitAsleep"}
                            /\ waiter'[target'[u]] = 0
                            /\ \A i \in 1..Len(waitQueue') : waitQueue'[i] # target'[u]
    BY DEF TargetsPend, Pending
  <2>1. target'[u] # NULL <=> pc'[u] \in {"signal", "broadcast"}
    BY <1>1 DEF TargetsPend
  <2>2. ASSUME target[u] # NULL PROVE target[u] \in Thread \ {t} /\ Pending(target[u])
    BY <2>2, <1>3 DEF TargetsPend
  <2>3. ASSUME target[u] # NULL PROVE \A i \in 1..Len(waitQueue') : waitQueue'[i] # target[u]
    BY <2>2, <2>3, <1>5 DEF TargetsPend
  <2> QED BY <2>1, <2>2, <2>3, <1>1 DEF Pending
<1>8. PendingIsKnown'
  BY <1>1, <1>3, <1>5 DEF PendingIsKnown
<1> QED BY <1>2, <1>6, <1>7, <1>8

\* Signal (synch.cc:204-205) takes the first waiter from the queue as its target.
LEMMA SignalLemma ==
  ASSUME NEW t \in Thread, NEW how \in {"signal", "broadcast"}, IInv, SInv, Signal(t, how)
  PROVE  SInv'
<1> USE DEF IInv, LockTypes, SInv, WaitTypes, Goto
<1> DEFINE h == Head(waitQueue)
<1>1. /\ pc[t] = "in" /\ waitQueue # <<>> /\ pc' = [pc EXCEPT ![t] = how] /\ waiter' = waiter
      /\ target' = [target EXCEPT ![t] = h] /\ waitQueue' = Tail(waitQueue)
  BY DEF Signal
<1>2. h \in Thread /\ h = waitQueue[1] /\ 1 \in 1..Len(waitQueue) /\ h # NULL
  BY <1>1, MonitorAssumption
<1>3. WaitTypes' /\ SemaphoreValues'
  BY <1>1, <1>2 DEF SemaphoreValues
<1>4. \A u \in Thread : Pending(u)' <=> Pending(u)
  BY <1>1 DEF Pending
<1>5. /\ Len(waitQueue') = Len(waitQueue) - 1
      /\ \A i \in 1..Len(waitQueue') : waitQueue'[i] = waitQueue[i+1] /\ i+1 \in 1..Len(waitQueue)
  BY <1>1
<1>6. QueuedPend'
  <2>1. \A i \in 1..Len(waitQueue') : waitQueue[i+1] \in Thread /\ Pending(waitQueue[i+1])
    BY <1>5 DEF QueuedPend
  <2>2. \A i \in 1..Len(waitQueue') : pc'[waitQueue'[i]] \in {"wait", "waitRelease", "waitSleep", "waitAsleep"}
                                      /\ waiter'[waitQueue'[i]] = 0
    BY <2>1, <1>1, <1>5 DEF Pending
  <2>3. \A i, j \in 1..Len(waitQueue') : waitQueue'[i] = waitQueue'[j] => i = j
    BY <1>1, TailDistinct DEF QueuedPend, Distinct
  <2> QED BY <2>2, <2>3 DEF QueuedPend, Pending
<1>7. TargetsPend'
  <2> SUFFICES ASSUME NEW u \in Thread
               PROVE  /\ target'[u] # NULL <=> pc'[u] \in {"signal", "broadcast"}
                      /\ target'[u] # NULL =>
                            /\ pc'[target'[u]] \in {"wait", "waitRelease", "waitSleep", "waitAsleep"}
                            /\ waiter'[target'[u]] = 0
                            /\ \A i \in 1..Len(waitQueue') : waitQueue'[i] # target'[u]
    BY DEF TargetsPend, Pending
  <2>1. CASE u = t
    <3>1. target'[u] = h /\ pc'[u] = how /\ Pending(h) /\ h # t
      BY <2>1, <1>1, <1>2 DEF QueuedPend, Pending
    <3>2. \A i \in 1..Len(waitQueue') : waitQueue'[i] # h
      BY <1>2, <1>5, <1>3 DEF QueuedPend
    <3> QED BY <3>1, <3>2, <1>1, <1>2 DEF Pending
  <2>2. CASE u # t
    <3>1. target'[u] = target[u] /\ pc'[u] = pc[u]
      BY <2>2, <1>1
    <3>2. ASSUME target[u] # NULL PROVE target[u] \in Thread \ {t} /\ Pending(target[u])
      BY <3>2, <1>1 DEF TargetsPend, Pending
    <3>3. ASSUME target[u] # NULL PROVE \A i \in 1..Len(waitQueue') : waitQueue'[i] # target[u]
      BY <3>3, <1>5 DEF TargetsPend
    <3> QED BY <3>1, <3>2, <3>3, <1>1 DEF TargetsPend, Pending
  <2> QED BY <2>1, <2>2
<1>8. PendingIsKnown'
  <2> SUFFICES ASSUME NEW u \in Thread, Pending(u)
               PROVE  \/ \E i \in 1..Len(waitQueue') : waitQueue'[i] = u
                      \/ \E x \in Thread : target'[x] = u
    BY <1>4 DEF PendingIsKnown
  <2>1. CASE u = h
    BY <2>1, <1>1
  <2>2. CASE u # h /\ \E i \in 1..Len(waitQueue) : waitQueue[i] = u
    <3>1. PICK i \in 1..Len(waitQueue) : waitQueue[i] = u
      BY <2>2
    <3>2. i - 1 \in 1..Len(waitQueue') /\ waitQueue'[i-1] = u
      BY <3>1, <2>2, <1>2, <1>5
    <3> QED BY <3>2
  <2>3. CASE \E x \in Thread : target[x] = u
    <3>1. PICK x \in Thread : target[x] = u
      BY <2>3
    <3>2. x # t
      BY <3>1, <1>1, MonitorAssumption DEF TargetsPend
    <3> QED BY <3>1, <3>2, <1>1
  <2> QED BY <2>1, <2>2, <2>3 DEF PendingIsKnown
<1> QED BY <1>3, <1>6, <1>7, <1>8

\* waiter->V in Signal (synch.cc:206): its target is not pending any more, and
\* Broadcast takes the next one.
LEMMA WaiterVLemma == ASSUME NEW t \in Thread, IInv, SInv, WaiterV(t) PROVE SInv'
<1> USE DEF IInv, LockTypes, SInv, WaitTypes
<1>0. PICK w : w = target[t]
  OBVIOUS
<1> DEFINE again == pc[t] = "broadcast" /\ waitQueue # <<>>
           h == Head(waitQueue)
<1>1. /\ pc[t] \in {"signal", "broadcast"}
      /\ waiter' = [waiter EXCEPT ![w] = @ + 1]
      /\ target' = [target EXCEPT ![t] = IF again THEN h ELSE NULL]
      /\ waitQueue' = IF again THEN Tail(waitQueue) ELSE waitQueue
      /\ pc' = SignalledPc(t, w, again)
  BY <1>0 DEF WaiterV
<1>2. /\ w \in Thread /\ w # NULL /\ Pending(w) /\ w # t
      /\ \A i \in 1..Len(waitQueue) : waitQueue[i] # w
  BY <1>0, <1>1, MonitorAssumption DEF TargetsPend, Pending
<1>3. \A u \in Thread \ {t} : target[u] = NULL /\ pc[u] \notin OwnsMutex
  BY <1>1 DEF MutualExclusion, Owners, OwnsMutex, TargetsPend
<1>4. again => h \in Thread /\ h = waitQueue[1] /\ 1 \in 1..Len(waitQueue) /\ h # NULL
  BY MonitorAssumption
<1>5. waiter' = [waiter EXCEPT ![w] = 1]
  BY <1>1, <1>2 DEF Pending
<1>6. \A u \in Thread : \/ u = t /\ pc'[u] = IF again THEN "broadcast" ELSE "in"
                        \/ u # t /\ u # w /\ pc'[u] = pc[u]
                        \/ u = w /\ pc[u] = "waitAsleep" /\ pc'[u] = "waitWoken"
                        \/ u = w /\ pc[u] # "waitAsleep" /\ pc'[u] = pc[u]
  BY <1>1, <1>2 DEF SignalledPc
<1>7. WaitTypes'
  <2>1. waitQueue' \in Seq(Thread)
    BY <1>1
  <2>2. waiter' \in [Thread -> {NoSemaphore, 0, 1}]
    BY <1>5, Zenon
  <2>3. target' \in [Thread -> Thread \cup {NULL}]
    BY <1>1, <1>4
  <2> QED BY <2>1, <2>2, <2>3
<1>8. SemaphoreValues'
  BY <1>2, <1>3, <1>5, <1>6 DEF SemaphoreValues, OwnsMutex, Pending
<1>9. ~Pending(w)' /\ \A u \in Thread \ {w} : Pending(u)' <=> Pending(u)
  BY <1>1, <1>2, <1>5, <1>6 DEF Pending
<1>10. \A i \in 1..Len(waitQueue') :
          \E j \in 1..Len(waitQueue) : waitQueue'[i] = waitQueue[j] /\ (again => j = i + 1)
  BY <1>1
<1>11. \A i \in 1..Len(waitQueue') :
          /\ waitQueue'[i] \in Thread \ {w}
          /\ pc'[waitQueue'[i]] \in {"wait", "waitRelease", "waitSleep", "waitAsleep"}
          /\ waiter'[waitQueue'[i]] = 0
  <2> SUFFICES ASSUME NEW i \in 1..Len(waitQueue')
               PROVE  /\ waitQueue'[i] \in Thread \ {w}
                      /\ pc'[waitQueue'[i]] \in {"wait", "waitRelease", "waitSleep", "waitAsleep"}
                      /\ waiter'[waitQueue'[i]] = 0
    OBVIOUS
  <2>1. PICK q \in Thread : q = waitQueue'[i] /\ q # w /\ Pending(q)
    BY <1>2, <1>10 DEF QueuedPend
  <2>2. q # t
    BY <2>1, <1>1 DEF Pending
  <2> QED BY <2>1, <2>2, <1>5, <1>6 DEF Pending
<1>12. QueuedPend'
  <2>1. Distinct(waitQueue')
    BY <1>1, TailDistinct DEF QueuedPend, Distinct
  <2> QED BY <2>1, <1>11 DEF QueuedPend, Distinct, Pending
<1>13. TargetsPend'
  <2> SUFFICES ASSUME NEW u \in Thread
               PROVE  /\ target'[u] # NULL <=> pc'[u] \in {"signal", "broadcast"}
                      /\ target'[u] # NULL =>
                            /\ pc'[target'[u]] \in {"wait", "waitRelease", "waitSleep", "waitAsleep"}
                            /\ waiter'[target'[u]] = 0
                            /\ \A i \in 1..Len(waitQueue') : waitQueue'[i] # target'[u]
    BY DEF TargetsPend, Pending
  <2>1. CASE u # t
    BY <2>1, <1>1, <1>3, <1>6 DEF OwnsMutex
  <2>2. CASE u = t /\ ~again
    BY <2>2, <1>1, <1>2, <1>6
  <2>3. CASE u = t /\ again
    <3>1. target'[u] = h /\ pc'[u] = "broadcast"
      BY <2>3, <1>1, <1>2, <1>6
    <3>2. Pending(h) /\ h # w /\ h # t
      BY <2>3, <1>1, <1>2, <1>4 DEF QueuedPend, Pending
    <3>3. \A i \in 1..Len(waitQueue') : waitQueue'[i] # h
      BY <2>3, <1>4, <1>10 DEF QueuedPend
    <3> QED BY <3>1, <3>2, <3>3, <2>3, <1>4, <1>5, <1>6 DEF Pending
  <2> QED BY <2>1, <2>2, <2>3
<1>14. PendingIsKnown'
  <2> SUFFICES ASSUME NEW u \in Thread \ {w}, Pending(u)
               PROVE  \/ \E i \in 1..Len(waitQueue') : waitQueue'[i] = u
                      \/ \E x \in Thread : target'[x] = u
    BY <1>9 DEF PendingIsKnown
  <2>1. PICK i \in 1..Len(waitQueue) : waitQueue[i] = u
    BY <1>0, <1>3, MonitorAssumption DEF PendingIsKnown
  <2>2. CASE ~again
    BY <2>1, <2>2, <1>1
  <2>3. CASE again /\ i = 1
    BY <2>1, <2>3, <1>1, <1>4
  <2>4. CASE again /\ i # 1
    <3>1. i - 1 \in 1..Len(waitQueue') /\ waitQueue'[i-1] = u
      BY <2>1, <2>4, <1>1
    <3> QED BY <3>1
  <2> QED BY <2>2, <2>3, <2>4
<1> QED BY <1>7, <1>8, <1>12, <1>13, <1>14

\* The invariant of the condition is inductive relative to that of the lock.
LEMMA SignalInvHolds == Spec => [](IInv /\ SInv)
<1>1. IInv /\ SInv /\ [Next]_vars => SInv'
  <2> SUFFICES ASSUME IInv, SInv, [Next]_vars PROVE SInv'
    OBVIOUS
  <2>1. CASE Next
    <3>1. PICK t \in Thread : Step(t) \/ Call(t)
      BY <2>1 DEF Next
    <3>2. CASE MutexP(t) \/ SetHolder(t) \/ Release(t) \/ WaiterP(t)
      BY <3>2, QuietSteps
    <3>3. CASE StartWait(t)
      BY <3>3, StartWaitLemma
    <3>4. CASE \E how \in {"signal", "broadcast"} : Signal(t, how)
      BY <3>4, SignalLemma
    <3>5. CASE WaiterV(t)
      BY <3>5, WaiterVLemma
    <3> QED BY <3>1, <3>2, <3>3, <3>4, <3>5 DEF Step, Call
  <2>2. CASE UNCHANGED vars
    BY <2>2 DEF vars, SInv, WaitTypes, SemaphoreValues, QueuedPend, TargetsPend, PendingIsKnown,
                Pending
  <2> QED BY <2>1, <2>2
<1> QED BY InvHolds, SignalInit, <1>1, PTL DEF Spec

\* A Signal between Wait's Release and its waiter->P() (synch.cc:191-192) is not
\* lost, however many threads wait and signal.
THEOREM SignalIsKept == Spec => []NoLostSignal
<1>1. SInv => NoLostSignal
  BY DEF SInv, PendingIsKnown, Pending, NoLostSignal
<1> QED BY SignalInvHolds, <1>1, PTL

-----------------------------------------------------------------------------
(* The two classes implement the monitor of module MesaMonitor: every step *)
(* is one step of that monitor or none.                                    *)

\* The thread inside the lock, if it is on the wait queue, is its last.
LastOnly == \A i \in 1..Len(waitQueue) : waitQueue[i] \in Owners => i = Len(waitQueue)

MInv == IInv /\ SInv /\ LastOnly

\* A thread on the wait queue that is inside the lock is on its way out of it
\* (synch.cc:190-191).
LEMMA QueuedOwner ==
  ASSUME IInv, SInv, NEW i \in 1..Len(waitQueue), waitQueue[i] \in Owners
  PROVE  pc[waitQueue[i]] \in {"wait", "waitRelease"}
  BY DEF SInv, QueuedPend, Pending, Owners, OwnsMutex

\* Only Wait (synch.cc:190) puts the thread inside the lock on the queue, and
\* the threads before it have left the lock.
LEMMA LastOnlyLemma ==
  ASSUME MInv, IInv', SInv', [Next]_vars PROVE LastOnly'
<1> USE DEF MInv
<1>0. waitQueue \in Seq(Thread) /\ pc \in [Thread -> Location] /\ waitQueue' \in Seq(Thread)
  BY DEF IInv, LockTypes, SInv, WaitTypes
<1>1. CASE \E t \in Thread : StartWait(t)
  <2>1. PICK t \in Thread : /\ pc[t] = "in" /\ waitQueue' = Append(waitQueue, t)
                            /\ pc' = [pc EXCEPT ![t] = "wait"]
    BY <1>1, Zenon DEF StartWait, Goto
  <2>2. Owners = {t} /\ Owners' = {t}
    BY <1>0, <2>1 DEF IInv, MutualExclusion, Owners, OwnsMutex
  <2>3. \A i \in 1..Len(waitQueue) : waitQueue[i] # t
    BY <2>1 DEF SInv, QueuedPend, Pending
  <2>4. /\ Len(waitQueue') = Len(waitQueue) + 1
        /\ \A i \in 1..Len(waitQueue) : waitQueue'[i] = waitQueue[i]
    BY <1>0, <2>1
  <2> QED BY <1>0, <2>2, <2>3, <2>4 DEF LastOnly
<1>2. CASE \E t \in Thread : WaiterV(t) \/ \E how \in {"signal", "broadcast"} : Signal(t, how)
  <2>1. PICK t \in Thread : /\ pc[t] \in {"in", "signal", "broadcast"}
                            /\ pc'[t] \in {"in", "signal", "broadcast"}
    BY <1>0, <1>2 DEF WaiterV, Signal, Goto, SignalledPc
  <2>2. Owners' = {t}
    <3>1. t \in Owners'
      BY <2>1 DEF Owners, OwnsMutex
    <3>2. \A x, y \in Owners' : x = y
      BY DEF IInv, MutualExclusion
    <3> QED BY <3>1, <3>2
  <2>3. \A i \in 1..Len(waitQueue') : waitQueue'[i] # t
    BY <2>1 DEF SInv, QueuedPend, Pending
  <2> QED BY <2>2, <2>3 DEF LastOnly
<1>3. CASE UNCHANGED vars \/ \E t \in Thread : MutexP(t) \/ SetHolder(t) \/ Release(t) \/ WaiterP(t)
  <2>1. waitQueue' = waitQueue
    BY <1>3 DEF vars, MutexP, SetHolder, Release, WaiterP
  <2>2. \A u \in Thread : pc'[u] \in {"wait", "waitRelease"} => pc[u] \in {"wait", "waitRelease"}
    <3>1. CASE UNCHANGED vars
      BY <3>1 DEF vars
    <3>2. CASE \E t \in Thread : MutexP(t) \/ SetHolder(t) \/ WaiterP(t)
      BY <1>0, <3>2 DEF MutexP, SetHolder, WaiterP, Goto
    <3>3. ASSUME NEW t \in Thread, Release(t)
          PROVE  \A u \in Thread : pc'[u] \in {"wait", "waitRelease"} => pc[u] \in {"in", "wait", "waitRelease"}
      BY <1>0, <3>3 DEF Release, InRelease, ClearHolder, ReleaseMutex, MutexV, Goto, Entered, Left
    <3>4. ASSUME NEW t \in Thread, Release(t), NEW u \in Thread, pc[u] = "in"
          PROVE  pc'[u] \notin {"wait", "waitRelease"}
      BY <1>0, <3>4 DEF Release, InRelease, ClearHolder, ReleaseMutex, MutexV, Goto, Entered, Left
    <3> QED BY <1>3, <3>1, <3>2, <3>3, <3>4
  <2>3. \A i \in 1..Len(waitQueue) : waitQueue[i] \in Owners' => waitQueue[i] \in Owners
    <3> SUFFICES ASSUME NEW i \in 1..Len(waitQueue), waitQueue[i] \in Owners'
                 PROVE  waitQueue[i] \in Owners
      OBVIOUS
    <3>1. waitQueue[i] \in Thread /\ pc'[waitQueue[i]] \in {"wait", "waitRelease"}
      BY <1>0, <2>1 DEF SInv, QueuedPend, Pending, Owners, OwnsMutex
    <3> QED BY <3>1, <2>2 DEF Owners, OwnsMutex
  <2> QED BY <2>1, <2>3 DEF LastOnly
<1> QED BY <1>1, <1>2, <1>3 DEF Next, Step, Call

\* All three parts of the invariant hold in every reachable state.
LEMMA MInvHolds == Spec => []MInv
<1>1. Init => LastOnly
  BY DEF Init, LastOnly
<1>2. IInv /\ SInv /\ LastOnly /\ IInv' /\ SInv' /\ [Next]_vars => LastOnly'
  BY LastOnlyLemma DEF MInv
<1> QED BY SignalInvHolds, <1>1, <1>2, PTL DEF Spec, MInv

\* The abstract state, as the steps below see it: the lock's holder is the one
\* thread inside it, and every queued thread waits unless it is that thread.
LEMMA AbstractState ==
  ASSUME MInv
  PROVE  /\ Owners = {} => Holder = NULL /\ Waiting = waitQueue
         /\ \A t \in Owners : Holder = t
         /\ \A t \in Owners : pc[t] \notin {"wait", "waitRelease"} => Waiting = waitQueue
         /\ \A t \in Thread : t \notin Owners => t # Holder
<1> USE DEF MInv
<1>0. waitQueue \in Seq(Thread)
  BY DEF SInv, WaitTypes
<1>1. Owners = {} => Holder = NULL /\ Waiting = waitQueue
  BY DEF Holder, Waiting
<1>2. \A t \in Owners : Holder = t
  BY DEF Holder, IInv, MutualExclusion
<1>3. ASSUME NEW t \in Owners, pc[t] \notin {"wait", "waitRelease"} PROVE Waiting = waitQueue
  <2>1. Owners = {t}
    BY DEF IInv, MutualExclusion
  <2>2. \A i \in 1..Len(waitQueue) : waitQueue[i] \notin Owners
    BY <1>3, <2>1, QueuedOwner
  <2> QED BY <1>0, <2>2 DEF Waiting
<1>4. ASSUME NEW t \in Thread, t \notin Owners PROVE t # Holder
  BY <1>1, <1>2, <1>4, MonitorAssumption
<1> QED BY <1>1, <1>2, <1>3, <1>4

\* A step that moves no thread across the boundary of the lock and leaves the
\* queue alone, or moves only threads that are not entering, is a stutter.
LEMMA MesaStutter ==
  ASSUME Owners' = Owners, waitQueue' = waitQueue, Entering' = Entering
  PROVE  UNCHANGED Mesa!absVars
  BY DEF Mesa!absVars, Holder, Waiting

\* mutex->P() in Acquire (synch.cc:146): a thread from outside that finds the
\* lock taken starts to want it, and any thread that finds it free enters.
LEMMA MesaAcquire ==
  ASSUME NEW t \in Thread, MInv, MInv', MutexP(t) PROVE [Mesa!AbsNext]_(Mesa!absVars)
<1> USE DEF MInv, IInv, LockTypes, SInv, WaitTypes, Goto
<1>0. /\ pc[t] \in {"out", "waitAcquire", "lockWoken"} /\ waitQueue' = waitQueue
      /\ t \notin Owners /\ t # Holder
      /\ \A i \in 1..Len(waitQueue) : waitQueue[i] # t
  BY AbstractState DEF MutexP, Owners, OwnsMutex, QueuedPend, Pending
<1>00. \A i \in 1..Len(Waiting) : Waiting[i] # t
  BY <1>0 DEF Waiting
<1>000. t \in Entering <=> pc[t] # "out"
  BY <1>0 DEF Entering
<1>1. CASE mutexValue = 0
  <2>1. pc' = [pc EXCEPT ![t] = "lockAsleep"]
    BY <1>1 DEF MutexP
  <2>2. Owners' = Owners
    BY <1>0, <2>1 DEF Owners, OwnsMutex
  <2>3. Holder' = Holder /\ Waiting' = Waiting
    BY <1>0, <2>2 DEF Holder, Waiting
  <2>4. Entering' = Entering \cup {t}
    BY <1>0, <2>1 DEF Entering
  <2>5. CASE t \in Entering
    BY <2>3, <2>4, <2>5 DEF Mesa!absVars
  <2>6. CASE t \notin Entering
    BY <2>3, <2>4, <2>6, <1>0, <1>00 DEF Mesa!AbsNext, Mesa!Request, Mesa!Outside
  <2> QED BY <2>5, <2>6
<1>2. CASE mutexValue # 0
  <2>1. pc' = [pc EXCEPT ![t] = "lockTaken"]
    BY <1>2 DEF MutexP
  <2>2. Owners = {} /\ Owners' = {t}
    BY <1>2, <2>1 DEF MutualExclusion, Owners, OwnsMutex
  <2>3. Holder = NULL /\ Holder' = t /\ Waiting = waitQueue /\ Waiting' = waitQueue
    <3>1. Holder = NULL /\ Waiting = waitQueue
      BY <2>2, AbstractState
    <3>2. Holder' = t
      BY <2>2 DEF Holder
    <3>3. Waiting' = waitQueue
      BY <2>2, <1>0 DEF Waiting
    <3> QED BY <3>1, <3>2, <3>3
  <2>4. Entering' = Entering \ {t}
    BY <1>0, <2>1 DEF Entering
  <2>5. t \in Entering \/ Mesa!Outside(t)
    BY <1>0, <1>00 DEF Mesa!Outside
  <2> QED BY <2>3, <2>4, <2>5 DEF Mesa!AbsNext, Mesa!Enter
<1> QED BY <1>1, <1>2

\* Release (synch.cc:152-158): nothing happens until mutex->V(), which is the
\* exit of a client, and of Wait the moment its caller starts waiting.
LEMMA MesaRelease ==
  ASSUME NEW t \in Thread, MInv, MInv', Release(t) PROVE [Mesa!AbsNext]_(Mesa!absVars)
<1> USE DEF MInv, IInv, LockTypes, SInv, WaitTypes, Goto
<1>0. waitQueue' = waitQueue /\ Owners = {t} /\ Holder = t
  BY AbstractState DEF Release, InRelease, Owners, OwnsMutex, MutualExclusion
<1>1. CASE pc[t] \in {"in", "wait"}
  <2>1. PICK next \in {"release", "waitRelease"} : pc' = [pc EXCEPT ![t] = next]
    BY <1>1 DEF Release, InRelease, ClearHolder, Entered
  <2>2. Owners' = Owners /\ Entering' = Entering
    BY <1>0, <1>1, <2>1 DEF Owners, OwnsMutex, Entering
  <2> QED BY <1>0, <2>2, MesaStutter
<1>2. CASE pc[t] \in {"release", "waitRelease"}
  <2>1. MutexV(t, Left(t))
    BY <1>2 DEF Release, InRelease, ReleaseMutex
  <2>2. \A u \in Thread : \/ u = t /\ pc'[u] = Left(t)
                          \/ u # t /\ pc'[u] = pc[u]
                          \/ u # t /\ pc[u] = "lockAsleep" /\ pc'[u] = "lockWoken"
    <3>1. CASE mutexQueue = <<>>
      BY <2>1, <3>1 DEF MutexV
    <3>2. CASE mutexQueue # <<>>
      <4>1. Head(mutexQueue) \in Thread /\ pc[Head(mutexQueue)] = "lockAsleep"
        BY <3>2 DEF QueuedAreAsleep
      <4>2. pc' = [pc EXCEPT ![t] = Left(t), ![Head(mutexQueue)] = "lockWoken"]
        BY <2>1, <3>2 DEF MutexV
      <4> QED BY <4>1, <4>2, <1>2
    <3> QED BY <3>1, <3>2
  <2>3. Owners' = {}
    <3>1. pc'[t] \notin OwnsMutex
      BY <2>2 DEF Left, OwnsMutex
    <3>2. \A u \in Thread : u # t => pc'[u] \notin OwnsMutex
      BY <1>0, <2>2 DEF Owners, OwnsMutex
    <3> QED BY <3>1, <3>2 DEF Owners
  <2>4. Holder' = NULL /\ Waiting' = waitQueue
    BY <1>0, <2>3 DEF Holder, Waiting
  <2>5. \A u \in Thread \ {t} : u \in Entering' <=> u \in Entering
    BY <1>0, <2>2 DEF Entering
  <2>6. t \notin Entering
    BY <1>2 DEF Entering
  <2>7. CASE pc[t] = "release"
    <3>1. Waiting = waitQueue
      BY <1>0, <2>7, AbstractState
    <3>2. Entering' = Entering
      BY <2>2, <2>5, <2>6, <2>7 DEF Entering, Left
    <3> QED BY <1>0, <2>4, <3>1, <3>2 DEF Mesa!AbsNext, Mesa!Exit
  <2>8. CASE pc[t] = "waitRelease"
    <3>1. PICK i \in 1..Len(waitQueue) : waitQueue[i] = t
      <4>1. Pending(t)
        BY <2>8 DEF SemaphoreValues, Pending
      <4>2. \A u \in Thread : target[u] # t
        BY <1>0, <2>8, MonitorAssumption DEF TargetsPend, Owners, OwnsMutex
      <4> QED BY <4>1, <4>2, Zenon DEF PendingIsKnown
    <3>2. i = Len(waitQueue) /\ Len(waitQueue) # 0
      BY <1>0, <3>1 DEF LastOnly
    <3>3. Waiting = SubSeq(waitQueue, 1, Len(waitQueue) - 1)
      BY <1>0, <3>1, <3>2 DEF Waiting
    <3>4. waitQueue = Append(Waiting, t)
      BY <3>1, <3>2, <3>3
    <3>5. Entering' = Entering
      <4>1. t \notin Entering'
        BY <1>0, <2>2, <2>8, <3>1 DEF Entering, Left
      <4> QED BY <2>5, <2>6, <4>1 DEF Entering
    <3> QED BY <1>0, <2>4, <3>4, <3>5 DEF Mesa!AbsNext, Mesa!StartWaiting
  <2> QED BY <1>2, <2>7, <2>8
<1> QED BY <1>1, <1>2 DEF Release, InRelease

\* Taking the first thread from the queue (synch.cc:204-205) is the notification.
LEMMA MesaNotify ==
  ASSUME NEW t \in Thread, MInv, MInv', pc[t] \in {"in", "signal", "broadcast"},
         pc'[t] \in {"signal", "broadcast"}, waitQueue # <<>>, waitQueue' = Tail(waitQueue),
         \A u \in Thread \ {t} : \/ pc'[u] = pc[u]
                                 \/ pc[u] = "waitAsleep" /\ pc'[u] = "waitWoken"
                                    /\ \A i \in 1..Len(waitQueue) : waitQueue[i] # u
  PROVE  Mesa!AbsNext
<1> USE DEF MInv, IInv, LockTypes, SInv, WaitTypes
<1>1. t \in Owners /\ t \in Owners'
  BY DEF Owners, OwnsMutex
<1>2. Owners' = {t}
  BY <1>1 DEF MutualExclusion
<1>3. Holder = t /\ Waiting = waitQueue
  BY <1>1, AbstractState
<1>4. Holder' = t /\ Waiting' = waitQueue'
  <2>1. \A i \in 1..Len(waitQueue') : waitQueue'[i] # t
    BY Zenon DEF QueuedPend, Pending
  <2>2. \A q \in Seq(Thread) : q # <<>> => Len(q) \in 1..Len(q)
    OBVIOUS
  <2> QED BY <1>2, <2>1, <2>2, Zenon DEF Holder, Waiting
<1> DEFINE h == Head(waitQueue)
<1>5. h \in Thread /\ h = waitQueue[1] /\ 1 \in 1..Len(waitQueue) /\ h # t
      /\ pc[h] \in {"waitSleep", "waitAsleep"}
  <2>1. h \in Thread /\ h = waitQueue[1] /\ 1 \in 1..Len(waitQueue) /\ Pending(h)
    BY DEF QueuedPend
  <2>2. Owners = {t}
    BY <1>1 DEF MutualExclusion
  <2> QED BY <2>1, <2>2 DEF Pending, Owners, OwnsMutex
<1>6. \A u \in Thread \ {h} : (\A i \in 1..Len(waitQueue') : waitQueue'[i] # u)
                              <=> (\A i \in 1..Len(waitQueue) : waitQueue[i] # u)
  <2>1. /\ Len(waitQueue') = Len(waitQueue) - 1
        /\ \A i \in 1..Len(waitQueue') : waitQueue'[i] = waitQueue[i+1] /\ i+1 \in 1..Len(waitQueue)
    OBVIOUS
  <2>2. \A i \in 1..Len(waitQueue) : i = 1 \/ (i - 1 \in 1..Len(waitQueue') /\ waitQueue'[i-1] = waitQueue[i])
    BY <2>1
  <2>3. ASSUME NEW u \in Thread \ {h}, NEW i \in 1..Len(waitQueue), waitQueue[i] = u
        PROVE  \E j \in 1..Len(waitQueue') : waitQueue'[j] = u
    BY <1>5, <2>2, <2>3, Zenon
  <2>4. ASSUME NEW u \in Thread, NEW i \in 1..Len(waitQueue'), waitQueue'[i] = u
        PROVE  \E j \in 1..Len(waitQueue) : waitQueue[j] = u
    BY <2>1, <2>4, SMTT(30)
  <2> QED BY <2>3, <2>4
<1>7. \A i \in 1..Len(waitQueue') : waitQueue'[i] # h
  <2>1. \A i \in 1..Len(waitQueue') : waitQueue'[i] = waitQueue[i+1] /\ i+1 \in 1..Len(waitQueue) /\ i+1 # 1
    OBVIOUS
  <2> QED BY <1>5, <2>1 DEF QueuedPend
<1>8. h \in Entering'
  BY <1>5, <1>7 DEF Entering
<1>9. \A u \in Thread \ {h} : u \in Entering' <=> u \in Entering
  BY <1>5, <1>6 DEF Entering
<1>10. Entering' = Entering \cup {h}
  BY <1>8, <1>9 DEF Entering
<1> QED BY <1>3, <1>4, <1>10 DEF Mesa!AbsNext, Mesa!Notify

\* The other steps stay on one side of the lock, and leave the waiting and the
\* entering threads alone unless they take a thread from the queue.
LEMMA MesaOther ==
  ASSUME NEW t \in Thread, MInv, MInv',
         \/ SetHolder(t) \/ StartWait(t) \/ WaiterP(t) \/ WaiterV(t)
         \/ \E how \in {"signal", "broadcast"} : Signal(t, how)
  PROVE  [Mesa!AbsNext]_(Mesa!absVars)
<1> USE DEF MInv, IInv, LockTypes, SInv, WaitTypes, Goto
<1>1. CASE SetHolder(t)
  <2>1. pc' = [pc EXCEPT ![t] = "in"] /\ pc[t] = "lockTaken" /\ waitQueue' = waitQueue
    BY <1>1 DEF SetHolder
  <2>2. Owners' = Owners /\ Entering' = Entering
    BY <2>1 DEF Owners, OwnsMutex, Entering
  <2> QED BY <2>1, <2>2, MesaStutter
<1>2. CASE WaiterP(t)
  <2>1. /\ pc[t] \in {"waitSleep", "waitWoken"} /\ waitQueue' = waitQueue
        /\ \/ pc' = [pc EXCEPT ![t] = "waitAsleep"]
           \/ waiter[t] # 0 /\ pc' = [pc EXCEPT ![t] = "waitAcquire"]
    BY <1>2 DEF WaiterP
  <2>2. waiter[t] # 0 => \A i \in 1..Len(waitQueue) : waitQueue[i] # t
    BY Zenon DEF QueuedPend, Pending
  <2>3. Owners' = Owners /\ Entering' = Entering
    BY <2>1, <2>2 DEF Owners, OwnsMutex, Entering
  <2> QED BY <2>1, <2>3, MesaStutter
<1>3. CASE StartWait(t)
  <2>1. /\ pc[t] = "in" /\ pc' = [pc EXCEPT ![t] = "wait"] /\ waitQueue' = Append(waitQueue, t)
    BY <1>3, ZenonT(60) DEF StartWait
  <2>2. t \in Owners /\ Owners' = Owners
    BY <2>1 DEF Owners, OwnsMutex
  <2>3. Waiting = waitQueue
    BY <2>1, <2>2, AbstractState
  <2>4. /\ Len(waitQueue') = Len(waitQueue) + 1 /\ waitQueue'[Len(waitQueue')] = t
        /\ \A i \in 1..Len(waitQueue) : waitQueue'[i] = waitQueue[i]
        /\ SubSeq(waitQueue', 1, Len(waitQueue)) = waitQueue
    BY <2>1
  <2>5. Waiting' = waitQueue
    BY <2>2, <2>4 DEF Waiting
  <2>6. \A u \in Thread \ {t} : (\A i \in 1..Len(waitQueue') : waitQueue'[i] # u)
                                <=> (\A i \in 1..Len(waitQueue) : waitQueue[i] # u)
    <3>1. \A i \in 1..Len(waitQueue') : i \in 1..Len(waitQueue) \/ waitQueue'[i] = t
      BY <2>4
    <3>2. \A i \in 1..Len(waitQueue) : i \in 1..Len(waitQueue')
      BY <2>4
    <3> QED BY <2>4, <3>1, <3>2
  <2>7. Entering' = Entering
    BY <2>1, <2>6, ZenonT(60) DEF Entering
  <2> QED BY <2>2, <2>3, <2>5, <2>7 DEF Mesa!absVars, Holder
<1>4. CASE \E how \in {"signal", "broadcast"} : Signal(t, how)
  BY <1>4, MesaNotify DEF Signal
<1>5. CASE WaiterV(t)
  <2>0. PICK w : w = target[t]
    OBVIOUS
  <2> DEFINE again == pc[t] = "broadcast" /\ waitQueue # <<>>
  <2>1. /\ pc[t] \in {"signal", "broadcast"}
        /\ waitQueue' = IF again THEN Tail(waitQueue) ELSE waitQueue
        /\ pc' = SignalledPc(t, w, again)
    BY <1>5, <2>0 DEF WaiterV
  <2>2. /\ w \in Thread /\ Pending(w) /\ w # t
        /\ \A i \in 1..Len(waitQueue) : waitQueue[i] # w
    BY <2>0, <2>1, MonitorAssumption DEF TargetsPend, Pending
  <2>3. /\ pc'[t] = IF again THEN "broadcast" ELSE "in"
        /\ \A u \in Thread \ {t} : \/ pc'[u] = pc[u]
                                   \/ pc[u] = "waitAsleep" /\ pc'[u] = "waitWoken"
                                      /\ \A i \in 1..Len(waitQueue) : waitQueue[i] # u
    BY <2>1, <2>2 DEF SignalledPc
  <2>4. CASE again
    BY <2>1, <2>3, <2>4, MesaNotify, Zenon
  <2>5. CASE ~again
    <3>1. Owners' = Owners
      BY <2>1, <2>3, <2>5 DEF Owners, OwnsMutex
    <3>2. Entering' = Entering
      BY <2>1, <2>3, <2>5 DEF Entering
    <3> QED BY <2>1, <2>5, <3>1, <3>2, MesaStutter
  <2> QED BY <2>4, <2>5
<1> QED BY <1>1, <1>2, <1>3, <1>4, <1>5

\* Lock and Condition together are a Mesa monitor for any number of threads:
\* Wait gives up the lock and starts waiting at once (synch.cc:185-195), and Signal
\* lets the longest waiting thread compete for the lock (synch.cc:200-207).
THEOREM MesaRefined == Spec => Mesa!AbsSafety
<1>1. Init => Mesa!AbsInit
  BY DEF Init, Mesa!AbsInit, Holder, Waiting, Entering, Owners, OwnsMutex
<1>2. MInv /\ MInv' /\ [Next]_vars => [Mesa!AbsNext]_(Mesa!absVars)
  <2> SUFFICES ASSUME MInv, MInv', [Next]_vars PROVE [Mesa!AbsNext]_(Mesa!absVars)
    OBVIOUS
  <2>1. CASE Next
    <3>1. PICK t \in Thread : Step(t) \/ Call(t)
      BY <2>1 DEF Next
    <3> QED BY <3>1, MesaAcquire, MesaRelease, MesaOther DEF Step, Call
  <2>2. CASE UNCHANGED vars
    BY <2>2, MesaStutter DEF vars, Owners, Entering
  <2> QED BY <2>1, <2>2
<1> QED BY MInvHolds, <1>1, <1>2, PTL DEF Spec, Mesa!AbsSafety

-----------------------------------------------------------------------------
(* The semaphores of the waiters, counted.                                 *)

Fin == INSTANCE FiniteSetTheorems

\* The sizes of the empty set and of the sets with one element.
LEMMA SmallSizes == Cardinality({}) = 0 /\ \A x : Cardinality({x}) = 1
<1>1. \A X : Fin!Cardinality(X) = Cardinality(X)
  BY DEF Fin!Cardinality, Cardinality
<1> QED BY <1>1, Fin!FS_EmptySet, Fin!FS_Singleton, Zenon

\* Every reference to a waiter semaphore is to one that exists, and there is
\* one reference to each that has not been signalled: the V of synch.cc:206 never
\* meets a semaphore that Wait has deleted (synch.cc:194).
THEOREM WaiterIsAlive == Spec => []WaitersExist
<1>1. IInv /\ SInv => WaitersExist
  <2> SUFFICES ASSUME IInv, SInv PROVE WaitersExist
    OBVIOUS
  <2> USE DEF IInv, SInv
  <2> DEFINE queued(t) == {i \in 1..Len(waitQueue) : waitQueue[i] = t}
             chosen(t) == {u \in Thread : target[u] = t}
  <2>1. TypeOK
    BY DEF TypeOK, LockTypes, WaitTypes
  <2>2. ASSUME NEW t \in Thread
        PROVE  Cardinality(queued(t)) + Cardinality(chosen(t)) =
                 IF pc[t] \in {"wait", "waitRelease", "waitSleep", "waitAsleep"} /\ waiter[t] = 0
                 THEN 1 ELSE 0
    <3>0. Cardinality({}) = 0
      BY SmallSizes
    <3>1. t # NULL
      BY MonitorAssumption
    <3>2. \A u, v \in chosen(t) : u = v
      BY <3>1 DEF TargetsPend, MutualExclusion, Owners, OwnsMutex
    <3>3. CASE ~Pending(t)
      <4>1. queued(t) = {} /\ chosen(t) = {}
        BY <3>1, <3>3 DEF QueuedPend, TargetsPend
      <4> HIDE DEF queued, chosen
      <4> QED BY <4>1, <3>0, <3>3 DEF Pending
    <3>4. CASE Pending(t) /\ \E i \in 1..Len(waitQueue) : waitQueue[i] = t
      <4>1. PICK i \in 1..Len(waitQueue) : waitQueue[i] = t
        BY <3>4
      <4>2. queued(t) = {i}
        BY <4>1 DEF QueuedPend
      <4>3. chosen(t) = {}
        BY <3>1, <4>1 DEF TargetsPend
      <4>4. Cardinality({i}) = 1
        BY SmallSizes, Zenon
      <4> HIDE DEF queued, chosen
      <4> QED BY <4>2, <4>3, <4>4, <3>0, <3>4 DEF Pending
    <3>5. CASE Pending(t) /\ ~\E i \in 1..Len(waitQueue) : waitQueue[i] = t
      <4>1. PICK u \in Thread : target[u] = t
        BY <3>5 DEF PendingIsKnown
      <4>2. queued(t) = {}
        BY <3>5
      <4>3. chosen(t) = {u}
        BY <3>2, <4>1
      <4>4. Cardinality({u}) = 1
        BY SmallSizes
      <4> HIDE DEF queued, chosen
      <4> QED BY <4>2, <4>3, <4>4, <3>0, <3>5 DEF Pending
    <3> QED BY <3>3, <3>4, <3>5
  <2> QED BY <2>1, <2>2 DEF WaitersExist
<1> QED BY SignalInvHolds, <1>1, PTL
=============================================================================
