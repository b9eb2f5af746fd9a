--------------------------- MODULE ComponentProofs ---------------------------
(***************************************************************************)
(* Proofs about five components that depend on no other proof.             *)
(*                                                                         *)
(* Semaphore: P, V and Destroy lose no wakeup, and a semaphore is a        *)
(* counting semaphore, for every finite set of threads and every initial   *)
(* value.                                                                  *)
(*                                                                         *)
(* SynchDisk: the disk gets one request at a time, a completion wakes the  *)
(* thread that made the request, and reads are current, for any number of  *)
(* threads and any sectors and data.                                       *)
(*                                                                         *)
(* UserSemaphores (Table): the ids that user programs hold stay those of   *)
(* their semaphores, for any number of threads and any size of the table.  *)
(*                                                                         *)
(* TemplateStack (Template): Stack<T> is a bounded stack, for any size.    *)
(*                                                                         *)
(* OpenFiles (Files): the bit map of a table tells the ids that are open,  *)
(* and one thread at a time is between P and V of Console.                 *)
(***************************************************************************)
EXTENDS Semaphore, SynchDisk, FiniteSetTheorems, TLAPS

-----------------------------------------------------------------------------
(* The semaphore *)

\* NoLostWakeup is inductive together with the shape of the queue: V must know
\* that the thread it takes off the queue was not counted as woken before, and
\* that the threads it leaves there are still asleep.
IInv == TypeOK /\ QueueIsBlocked /\ NoLostWakeup

\* The set of woken threads is a finite set of threads: its size is a number.
LEMMA WokenFinite == IsFiniteSet(Woken) /\ Cardinality(Woken) \in Nat
  <1>1. Woken \subseteq Thread
    BY DEF Woken
  <1>2. QED
    BY <1>1, SemaphoreAssumption, FS_Subset, FS_CardinalityType

\* The same after a step.
LEMMA WokenFiniteNext == IsFiniteSet(Woken') /\ Cardinality(Woken') \in Nat
  <1>1. Woken' \subseteq Thread
    BY DEF Woken
  <1>2. QED
    BY <1>1, SemaphoreAssumption, FS_Subset, FS_CardinalityType

\* Types are preserved by every operation of the semaphore.
LEMMA TypeStep == TypeOK /\ QueueIsBlocked /\ [Next]_vars => TypeOK'
  <1> SUFFICES ASSUME TypeOK, QueueIsBlocked, [Next]_vars
               PROVE  TypeOK'
    OBVIOUS
  <1>1. ASSUME NEW t \in Thread, PBlocks(t)
        PROVE  TypeOK'
    BY <1>1 DEF TypeOK, PBlocks, Location
  <1>2. ASSUME NEW t \in Thread, PTakes(t)
        PROVE  TypeOK'
    BY <1>2 DEF TypeOK, PTakes, Location
  <1>3. CASE V
    BY <1>3 DEF TypeOK, V, Location
  <1>4. CASE Destroy
    BY <1>4 DEF TypeOK, Destroy, Location
  <1>5. CASE UNCHANGED vars
    BY <1>5 DEF TypeOK, vars
  <1>6. QED
    BY <1>1, <1>2, <1>3, <1>4, <1>5 DEF Next

\* The queue keeps holding exactly the sleeping threads, each once.
LEMMA QueueStep == TypeOK /\ QueueIsBlocked /\ [Next]_vars => QueueIsBlocked'
  <1> SUFFICES ASSUME TypeOK, QueueIsBlocked, [Next]_vars
               PROVE  QueueIsBlocked'
    OBVIOUS
  <1>1. ASSUME NEW t \in Thread, PBlocks(t)
        PROVE  QueueIsBlocked'
    BY <1>1 DEF TypeOK, QueueIsBlocked, PBlocks, Location
  <1>2. ASSUME NEW t \in Thread, PTakes(t)
        PROVE  QueueIsBlocked'
    BY <1>2 DEF TypeOK, QueueIsBlocked, PTakes, Location
  <1>3. CASE V
    <2>1. CASE queue = <<>>
      BY <1>3, <2>1 DEF TypeOK, QueueIsBlocked, V, Location
    <2>2. CASE queue # <<>>
      <3>1. /\ Len(queue) \in Nat \ {0}
            /\ Head(queue) = queue[1]
            /\ Head(queue) \in Thread
            /\ queue' = Tail(queue)
            /\ Len(queue') = Len(queue) - 1
            /\ \A i \in 1..Len(queue') : queue'[i] = queue[i + 1]
            /\ pc' = [pc EXCEPT ![queue[1]] = "woken"]
        BY <1>3, <2>2 DEF TypeOK, V
      <3>2. \A i, j \in 1..Len(queue') : queue'[i] = queue'[j] => i = j
        BY <3>1 DEF QueueIsBlocked
      <3>3. ASSUME NEW t \in Thread
            PROVE  pc'[t] = "blocked" <=> \E i \in 1..Len(queue') : queue'[i] = t
        <4>1. CASE t = queue[1]
          <5>1. \A i \in 1..Len(queue') : queue'[i] # t
            BY <3>1, <4>1 DEF QueueIsBlocked
          <5>2. QED
            BY <3>1, <4>1, <5>1 DEF TypeOK
        <4>2. CASE t # queue[1]
          <5>1. pc'[t] = pc[t]
            BY <3>1, <4>2 DEF TypeOK
          <5>2. ASSUME NEW i \in 1..Len(queue), queue[i] = t
                PROVE  i - 1 \in 1..Len(queue') /\ queue'[i - 1] = t
            BY <3>1, <4>2, <5>2
          <5>3. ASSUME NEW i \in 1..Len(queue'), queue'[i] = t
                PROVE  i + 1 \in 1..Len(queue) /\ queue[i + 1] = t
            BY <3>1, <5>3
          <5>4. QED
            BY <5>1, <5>2, <5>3 DEF QueueIsBlocked
        <4>3. QED
          BY <4>1, <4>2
      <3>4. QED
        BY <3>2, <3>3 DEF QueueIsBlocked
    <2>3. QED
      BY <2>1, <2>2
  <1>4. CASE Destroy
    BY <1>4 DEF TypeOK, QueueIsBlocked, Destroy, Location
  <1>5. CASE UNCHANGED vars
    BY <1>5 DEF QueueIsBlocked, vars
  <1>6. QED
    BY <1>1, <1>2, <1>3, <1>4, <1>5 DEF Next

\* No step loses a wakeup.  The interesting cases: a woken thread that takes a
\* unit lowers both sides of the inequality, one that sleeps again does so at
\* value = 0, and V raises both sides when it leaves somebody on the queue.
LEMMA WakeupStep == IInv /\ [Next]_vars => NoLostWakeup'
  <1> SUFFICES ASSUME IInv, [Next]_vars
               PROVE  NoLostWakeup'
    OBVIOUS
  <1> USE WokenFinite, WokenFiniteNext DEF IInv
  <1>1. ASSUME NEW t \in Thread, PBlocks(t)
        PROVE  NoLostWakeup'
    BY <1>1 DEF TypeOK, NoLostWakeup, PBlocks
  <1>2. ASSUME NEW t \in Thread, PTakes(t)
        PROVE  NoLostWakeup'
    <2>1. Woken' = Woken \ {t}
      BY <1>2 DEF TypeOK, PTakes, Woken, Location
    <2>2. Cardinality(Woken') >= Cardinality(Woken) - 1
      BY <2>1, FS_RemoveElement
    <2>3. value' = value - 1 /\ queue' = queue
      BY <1>2 DEF PTakes
    <2>4. QED
      BY <2>2, <2>3 DEF TypeOK, NoLostWakeup
  <1>3. CASE V
    <2>1. CASE queue = <<>>
      BY <1>3, <2>1 DEF V, NoLostWakeup
    <2>2. CASE queue # <<>>
      <3>1. Head(queue) \in Thread /\ Head(queue) = queue[1] /\ Len(queue) \in Nat \ {0}
        BY <2>2 DEF TypeOK
      <3>2. pc[Head(queue)] = "blocked"
        BY <3>1 DEF QueueIsBlocked
      <3>3. pc' = [pc EXCEPT ![Head(queue)] = "woken"]
        BY <1>3, <2>2 DEF V
      <3>4. Head(queue) \notin Woken
        BY <3>2 DEF Woken
      <3>5. Woken' = Woken \cup {Head(queue)}
        BY <3>1, <3>3 DEF TypeOK, Woken, Location
      <3>6. Cardinality(Woken') = Cardinality(Woken) + 1
        BY <3>4, <3>5, FS_AddElement
      <3>7. QED
        BY <1>3, <2>2, <3>6 DEF V, TypeOK, NoLostWakeup
    <2>3. QED
      BY <2>1, <2>2
  <1>4. CASE Destroy
    BY <1>4 DEF Destroy, NoLostWakeup
  <1>5. CASE UNCHANGED vars
    BY <1>5 DEF NoLostWakeup, Woken, vars
  <1>6. QED
    BY <1>1, <1>2, <1>3, <1>4, <1>5 DEF Next

\* The inductive invariant holds in every reachable state.
LEMMA InvHolds == Spec => []IInv
  <1>1. Init => IInv
    BY SemaphoreAssumption DEF Init, IInv, TypeOK, QueueIsBlocked, NoLostWakeup, Location
  <1>2. IInv /\ [Next]_vars => IInv'
    BY TypeStep, QueueStep, WakeupStep DEF IInv
  <1>3. QED
    BY <1>1, <1>2, PTL DEF Spec

\* The variables of a semaphore keep their types; in particular value never
\* becomes negative, although P decrements it after having slept.
THEOREM TypeCorrect == Spec => []TypeOK
  <1>1. IInv => TypeOK
    BY DEF IInv
  <1>2. QED
    BY <1>1, InvHolds, PTL

\* Whoever sleeps in P is on the queue where V and Destroy look for waiters,
\* once, and nobody else is.
THEOREM SleepersAreQueued == Spec => []QueueIsBlocked
  <1>1. IInv => QueueIsBlocked
    BY DEF IInv
  <1>2. QED
    BY <1>1, InvHolds, PTL

\* No interleaving of P, V and Destroy loses a wakeup.
THEOREM WakeupsAreNotLost == Spec => []NoLostWakeup
  <1>1. IInv => NoLostWakeup
    BY DEF IInv
  <1>2. QED
    BY <1>1, InvHolds, PTL

\* V is a Signal of the counting semaphore: the thread it wakes was already
\* waiting and goes on waiting.
LEMMA VSignals == ASSUME IInv, V PROVE Abstract!Signal
  <1>1. queue # <<>> => pc[Head(queue)] = "blocked" /\ Head(queue) \in Thread
    BY DEF IInv, TypeOK, QueueIsBlocked
  <1> QED BY <1>1 DEF IInv, TypeOK, Location, V, Abstract!Signal

\* A P that sleeps is a Request, or nothing for a thread that already waits;
\* Destroy and steps of others change nothing.
LEMMA QuietSteps ==
  ASSUME IInv, \/ \E t \in Thread : PBlocks(t)
               \/ Destroy
               \/ UNCHANGED vars
  PROVE  (\E t \in Thread : Abstract!Request(t)) \/ UNCHANGED Abstract!absVars
  <1> USE DEF IInv, TypeOK, Location, Abstract!absVars
  <1>1. ASSUME NEW t \in Thread, PBlocks(t)
        PROVE  Abstract!Request(t) \/ UNCHANGED Abstract!absVars
    BY <1>1 DEF PBlocks, Abstract!Request
  <1>2. Destroy \/ UNCHANGED vars => UNCHANGED Abstract!absVars
    BY DEF Destroy, vars
  <1> QED BY <1>1, <1>2

\* Every step of the queueing semaphore is a step of the counting semaphore
\* (P that has to wait, P that returns, V) or changes nothing there.
THEOREM CountingRefined == Spec => Abstract!AbsSafety
  <1>1. Init => Abstract!AbsInit
    BY DEF Init, Abstract!AbsInit
  <1>2. ASSUME IInv, NEW t \in Thread, PTakes(t) PROVE Abstract!Take(t)
    BY <1>2 DEF IInv, TypeOK, Location, PTakes, Abstract!Take
  <1>3. IInv /\ [Next]_vars => [Abstract!AbsNext]_(Abstract!absVars)
    BY <1>2, VSignals, QuietSteps DEF Next, Abstract!AbsNext
  <1> QED BY <1>1, <1>3, InvHolds, PTL DEF Spec, Abstract!AbsSafety

-----------------------------------------------------------------------------
(* The synchronous disk *)

DiskTypes ==
    /\ holder \in Client \cup {NULL}
    /\ semaphore \in Nat
    /\ active \in BOOLEAN
    /\ scheduled \in Nat
    /\ content \in [Sector -> Data]
    /\ request \in [Client -> Request]
    /\ buffer \in [Client -> Data \cup {NULL}]
    /\ phase \in [Client -> DiskLocation]

\* The holder of the lock is the one thread between Acquire and Release.
HolderInside == \A t \in Client : holder = t <=> phase[t] \in {"go", "wait", "leave"}

\* While no thread waits for the interrupt nothing is under way.
IdleUnlessWaiting ==
    (\A t \in Client : phase[t] # "wait") => semaphore = 0 /\ scheduled = 0 /\ ~active

\* While one does, either the interrupt or its completion is there.
OneCompletion ==
    \A t \in Client : phase[t] = "wait" => /\ semaphore + scheduled = 1
                                           /\ active <=> scheduled = 1

DiskInv == DiskTypes /\ HolderInside /\ IdleUnlessWaiting /\ OneCompletion /\ ReadIsCurrent

\* A new SynchDisk satisfies the invariant (synchdisk.cc:43-48).
LEMMA DiskInitLemma == DiskInit => DiskInv
<1> SUFFICES ASSUME DiskInit PROVE DiskInv
  OBVIOUS
<1>1. (CHOOSE s \in Sector : TRUE) \in Sector
  BY SynchDiskAssumption
<1>2. NoRequest \in Request
  BY <1>1 DEF NoRequest, Request
<1>3. active \in BOOLEAN /\ ~active
  BY Zenon DEF DiskInit
<1>4. DiskTypes
  BY <1>2, <1>3 DEF DiskInit, DiskTypes, DiskLocation
<1>5. HolderInside
  BY SynchDiskAssumption DEF DiskInit, HolderInside
<1>6. IdleUnlessWaiting /\ OneCompletion /\ ReadIsCurrent
  BY <1>3 DEF DiskInit, IdleUnlessWaiting, OneCompletion, ReadIsCurrent
<1> QED BY <1>4, <1>5, <1>6 DEF DiskInv

\* Every step keeps it: one case per action.
LEMMA DiskStepLemma == DiskInv /\ [DiskNext]_diskVars => DiskInv'
<1> SUFFICES ASSUME DiskInv, [DiskNext]_diskVars PROVE DiskInv'
  OBVIOUS
<1> USE SynchDiskAssumption DEF DiskInv, DiskTypes, Goto, DiskLocation
<1>1. ASSUME NEW t \in Client, NEW r \in Request, Call(t, r) PROVE DiskInv'
  <2>1. phase[t] = "out" /\ phase' = [phase EXCEPT ![t] = "enter"]
        /\ UNCHANGED <<holder, semaphore, active, scheduled, content>>
    BY <1>1 DEF Call
  <2>2. DiskTypes'
    BY <1>1, <2>1 DEF Call
  <2>3. HolderInside' /\ IdleUnlessWaiting' /\ OneCompletion'
    BY <2>1 DEF HolderInside, IdleUnlessWaiting, OneCompletion
  <2>4. ReadIsCurrent'
    BY <1>1, <2>1 DEF Call, ReadIsCurrent
  <2> QED BY <2>2, <2>3, <2>4
<1>2. ASSUME NEW t \in Client, Acquire(t) PROVE DiskInv'
  <2>1. \A u \in Client : phase[u] \notin {"go", "wait", "leave"}
    BY <1>2 DEF Acquire, HolderInside
  <2> QED BY <1>2, <2>1 DEF Acquire, HolderInside, IdleUnlessWaiting, OneCompletion, ReadIsCurrent
<1>3. ASSUME NEW t \in Client, DiskRequest(t) PROVE DiskInv'
  <2>1. phase[t] = "go" /\ phase' = [phase EXCEPT ![t] = "wait"] /\ active' = TRUE
        /\ scheduled' = scheduled + 1
        /\ UNCHANGED <<holder, semaphore, request>>
    BY <1>3 DEF DiskRequest
  <2>2. \A u \in Client : u # t => phase[u] \notin {"go", "wait", "leave"}
    BY <2>1 DEF HolderInside
  <2>3. semaphore = 0 /\ scheduled = 0
    BY <2>1, <2>2 DEF IdleUnlessWaiting
  <2>4. request[t] \in Request
    OBVIOUS
  <2>5. /\ content' \in [Sector -> Data] /\ buffer' \in [Client -> Data \cup {NULL}]
        /\ request[t].data = NULL => buffer'[t] = content'[request[t].sector]
    BY <1>3, <2>4 DEF DiskRequest, Request
  <2>6. DiskTypes'
    <3>1. active' \in BOOLEAN
      BY <2>1
    <3>2. phase' \in [Client -> DiskLocation]
      BY <2>1
    <3>3. scheduled' \in Nat /\ semaphore' \in Nat
      BY <2>1
    <3>4. holder' \in Client \cup {NULL} /\ request' \in [Client -> Request]
      BY <2>1
    <3> QED BY <3>1, <3>2, <3>3, <3>4, <2>5, Zenon
  <2>9. HolderInside'
    BY <2>1 DEF HolderInside
  <2>7. IdleUnlessWaiting' /\ OneCompletion'
    BY <2>1, <2>3 DEF IdleUnlessWaiting, OneCompletion
  <2>8. ReadIsCurrent'
    BY <2>1, <2>2, <2>5 DEF ReadIsCurrent
  <2> QED BY <2>6, <2>7, <2>8, <2>9
<1>4. CASE HandleInterrupt
  <2>1. scheduled > 0 /\ scheduled' = scheduled - 1 /\ active' = FALSE
        /\ semaphore' = semaphore + 1 /\ UNCHANGED <<holder, content, request, buffer, phase>>
    BY <1>4 DEF HandleInterrupt
  <2>2. PICK w \in Client : phase[w] = "wait"
    BY <2>1 DEF IdleUnlessWaiting
  <2>a. semaphore + scheduled = 1
    BY <2>2, Zenon DEF OneCompletion
  <2>3. semaphore = 0 /\ scheduled = 1
    BY <2>1, <2>a
  <2>4. active' \in BOOLEAN /\ ~active'
    BY <2>1, Zenon
  <2>5. DiskTypes'
    BY <2>1, <2>4
  <2>6. HolderInside' /\ ReadIsCurrent'
    BY <2>1 DEF HolderInside, ReadIsCurrent
  <2>7. IdleUnlessWaiting'
    BY <2>1, <2>2 DEF IdleUnlessWaiting
  <2>8. semaphore' = 1 /\ scheduled' = 0
    BY <2>1, <2>3
  <2>9. OneCompletion'
    BY <2>4, <2>8 DEF OneCompletion
  <2> QED BY <2>5, <2>6, <2>7, <2>9
<1>5. ASSUME NEW t \in Client, WaitForInterrupt(t) PROVE DiskInv'
  <2>1. phase[t] = "wait" /\ phase' = [phase EXCEPT ![t] = "leave"] /\ semaphore > 0
        /\ semaphore' = semaphore - 1
        /\ UNCHANGED <<holder, active, scheduled, content, request, buffer>>
    BY <1>5 DEF WaitForInterrupt
  <2>a. semaphore + scheduled = 1 /\ (active <=> scheduled = 1)
    BY <2>1, Zenon DEF OneCompletion
  <2>2. semaphore = 1 /\ scheduled = 0 /\ ~active
    BY <2>1, <2>a
  <2>3. \A u \in Client : u # t => phase[u] \notin {"go", "wait", "leave"}
    BY <2>1 DEF HolderInside
  <2> QED BY <2>1, <2>2, <2>3 DEF HolderInside, IdleUnlessWaiting, OneCompletion, ReadIsCurrent
<1>6. ASSUME NEW t \in Client, Release(t) PROVE DiskInv'
  <2>1. \A u \in Client : u # t => phase[u] \notin {"go", "wait", "leave"}
    BY <1>6 DEF Release, HolderInside
  <2> QED BY <1>6, <2>1 DEF Release, HolderInside, IdleUnlessWaiting, OneCompletion, ReadIsCurrent
<1>7. CASE UNCHANGED diskVars
  BY <1>7 DEF diskVars, HolderInside, IdleUnlessWaiting, OneCompletion, ReadIsCurrent
<1> QED BY <1>1, <1>2, <1>3, <1>4, <1>5, <1>6, <1>7 DEF DiskNext

\* The invariant implies the assertion of the disk: a thread about to make a
\* request holds the lock, so no other is waiting for the interrupt.
LEMMA DiskInvImplies == DiskInv => OneRequestAtATime
<1> SUFFICES ASSUME DiskInv, NEW t \in Client, phase[t] = "go" PROVE ~active
  BY DEF OneRequestAtATime
<1>1. \A u \in Client : phase[u] # "wait"
  BY DEF DiskInv, HolderInside
<1> QED BY <1>1 DEF DiskInv, IdleUnlessWaiting

\* The ASSERT(!active) of disk.cc:120 and 140 never fails under SynchDisk.
THEOREM DiskIsFree == DiskSpec => []OneRequestAtATime
  BY DiskInitLemma, DiskStepLemma, DiskInvImplies, PTL DEF DiskSpec

\* The data ReadSector returns is the sector's content when it returns.
THEOREM ReadsAreCurrent == DiskSpec => []ReadIsCurrent
<1>1. DiskInv => ReadIsCurrent
  BY DEF DiskInv
<1> QED BY DiskInitLemma, DiskStepLemma, <1>1, PTL DEF DiskSpec

\* The invariant implies that interrupts, completions and waiting threads match
\* one to one: at most one thread waits, and exactly one of its interrupt and
\* its completion is there.
LEMMA DiskInvMatches == DiskInv => CompletionIsMine
<1> SUFFICES ASSUME DiskInv PROVE CompletionIsMine
  OBVIOUS
<1> DEFINE waiting == {t \in Client : phase[t] = "wait"}
<1>1. semaphore \in Nat /\ scheduled \in Nat /\ active \in BOOLEAN
  BY DEF DiskInv, DiskTypes
<1>2. ASSUME NEW t \in Client, phase[t] = "leave" PROVE ~active
  <2>1. \A u \in Client : phase[u] # "wait"
    BY <1>2 DEF DiskInv, HolderInside
  <2> QED BY <2>1 DEF DiskInv, IdleUnlessWaiting
<1>3. CASE waiting = {}
  <2>1. semaphore = 0 /\ scheduled = 0 /\ ~active
    BY <1>3 DEF DiskInv, IdleUnlessWaiting
  <2>2. Cardinality(waiting) = 0
    BY <1>3, FS_EmptySet
  <2>3. semaphore + scheduled = Cardinality(waiting) /\ (active <=> scheduled = 1)
    BY <2>1, <2>2
  <2>4. semaphore \in 0..1 /\ scheduled \in 0..1
    BY <2>1
  <2> QED BY <1>1, <1>2, <2>3, <2>4 DEF CompletionIsMine, DiskTypeOK, DiskInv, DiskTypes
<1>4. CASE waiting # {}
  <2>1. PICK w \in Client : phase[w] = "wait"
    BY <1>4
  <2>2. \A u \in Client : phase[u] = "wait" => u = w
    BY <2>1 DEF DiskInv, HolderInside
  <2>3. waiting = {w}
    BY <2>1, <2>2
  <2>4. Cardinality({w}) = 1
    BY FS_Singleton
  <2>5. semaphore + scheduled = 1 /\ (active <=> scheduled = 1)
    BY <2>1, Zenon DEF DiskInv, OneCompletion
  <2>6. semaphore \in 0..1 /\ scheduled \in 0..1
    BY <1>1, <2>5
  <2>7. semaphore + scheduled = Cardinality(waiting)
    BY <2>3, <2>4, <2>5
  <2> QED BY <1>1, <1>2, <2>5, <2>6, <2>7 DEF CompletionIsMine, DiskTypeOK, DiskInv, DiskTypes
<1> QED BY <1>3, <1>4

\* P returns to a thread only for the interrupt of its own request
\* (synchdisk.cc:72-109).
THEOREM CompletionsMatch == DiskSpec => []CompletionIsMine
  BY DiskInitLemma, DiskStepLemma, DiskInvMatches, PTL DEF DiskSpec

-----------------------------------------------------------------------------
(* The table of the semaphores of user programs *)

CONSTANTS maxSem, InitialValues, MaxSemaphores, Usage
VARIABLES marked, semaforosAbiertos, usage, values, queues, asleep, register2, idOf

Table == INSTANCE UserSemaphores WITH value <- values, queue <- queues

TableTypes ==
    /\ marked \subseteq Table!Slot
    /\ values \in Seq(Int) /\ idOf \in Seq(Int) /\ Len(idOf) = Len(values)
    /\ semaforosAbiertos \in [-1 .. maxSem - 1 -> 0 .. Len(values)]
    /\ asleep \in [Thread -> 0 .. Len(values)]

TableInv == TableTypes /\ Table!TableConsistent

\* A set of numbers has a least element, which CHOOSE finds.
LEMMA LeastExists ==
  ASSUME NEW S, S \subseteq Nat, S # {}
  PROVE  (CHOOSE x \in S : \A y \in S : x <= y) \in S
<1> DEFINE R == OpToRel(<, Nat)
<1>1. \A x, y \in Nat : y < x => <<y, x>> \in R
  BY DEF OpToRel
<1>2. IsWellFoundedOn(R, Nat)
  BY NatLessThanWellFounded, Zenon
<1> HIDE DEF R
<1>3. PICK x \in S : \A y \in S : ~(<<y, x>> \in R)
  BY <1>2, WFMin, Zenon
<1>4. ASSUME NEW y \in S PROVE x <= y
  <2>1. x \in Nat /\ y \in Nat /\ ~(y < x)
    BY <1>1, <1>3, Zenon
  <2> QED BY <2>1
<1>5. \E z \in S : \A y \in S : z <= y
  BY <1>4, Zenon
<1> QED BY <1>5, Zenon

\* BitMap::Find returns -1 or a slot that is not marked.
LEMMA FindSlotIsFree ==
  ASSUME Table!UserSemaphoresAssumption, marked \subseteq Table!Slot
  PROVE  Table!FindSlot = -1 \/ Table!FindSlot \in Table!Slot \ marked
<1> SUFFICES ASSUME marked # Table!Slot PROVE Table!FindSlot \in Table!Slot \ marked
  BY DEF Table!FindSlot
<1> DEFINE M == Table!Slot \ marked
<1>a. Table!Slot \subseteq Nat
  BY DEF Table!Slot, Table!UserSemaphoresAssumption
<1>1. M \subseteq Nat /\ M # {}
  BY <1>a, Zenon
<1> HIDE DEF M
<1>2. (CHOOSE x \in M : \A y \in M : x <= y) \in M
  BY <1>1, LeastExists, Zenon
<1> QED BY <1>2 DEF M, Table!FindSlot

\* P and V change the values of semaphores, and a thread in P sleeps in the one it
\* was called for.
LEMMA SemaphoreStep ==
  ASSUME TableTypes, NEW t \in Thread, NEW sem \in Table!Created, Table!V(sem) \/ Table!P(t, sem)
  PROVE  /\ values' \in Seq(Int) /\ Len(values') = Len(values)
         /\ \A s \in Table!Created : s # sem => values'[s] = values[s]
         /\ asleep' \in [Thread -> 0 .. Len(values)]
         /\ \A u \in Thread : asleep'[u] = asleep[u] \/ asleep'[u] \in {0, sem}
<1>1. sem \in 1 .. Len(values) /\ values[sem] \in Int
  BY DEF TableTypes, Table!Created
<1>2. CASE Table!V(sem)
  BY <1>1, <1>2 DEF Table!V, TableTypes, Table!Created
<1>3. CASE Table!P(t, sem)
  <2>1. CASE values[sem] = 0
    <3>1. values' = values /\ asleep' = [asleep EXCEPT ![t] = sem]
      BY <1>3, <2>1 DEF Table!P
    <3>2. sem \in 0 .. Len(values)
      BY <1>1 DEF TableTypes
    <3> QED BY <3>1, <3>2 DEF TableTypes
  <2>2. CASE values[sem] # 0
    <3>1. values' = [values EXCEPT ![sem] = @ - 1] /\ asleep' = [asleep EXCEPT ![t] = 0]
      BY <1>3, <2>2 DEF Table!P
    <3>2. /\ values' \in Seq(Int) /\ Len(values') = Len(values)
          /\ \A s \in Table!Created : s # sem => values'[s] = values[s]
      BY <1>1, <3>1 DEF TableTypes, Table!Created
    <3>3. 0 \in 0 .. Len(values)
      BY DEF TableTypes
    <3> QED BY <3>1, <3>2, <3>3 DEF TableTypes
  <2> QED BY <2>1, <2>2
<1> QED BY <1>2, <1>3

\* Every system call keeps the table in order.
LEMMA TableStep == Table!UserSemaphoresAssumption /\ TableInv /\ [Table!Next]_(Table!vars) => TableInv'
<1> SUFFICES ASSUME Table!UserSemaphoresAssumption, TableInv, [Table!Next]_(Table!vars) PROVE TableInv'
  OBVIOUS
<1> DEFINE N == Len(values)
<1>0. N \in Nat /\ Table!Created = 1 .. N
  BY DEF TableInv, TableTypes, Table!Created
<1>1. ASSUME NEW t \in Thread, NEW v \in InitialValues, Table!SemCreate(t, v) PROVE TableInv'
  <2> DEFINE f == Table!FindSlot
  <2>1. f = -1 \/ f \in Table!Slot \ marked
    BY FindSlotIsFree DEF TableInv, TableTypes
  <2> HIDE DEF f
  <2>2. /\ values' = Append(values, v) /\ idOf' = Append(idOf, f) /\ asleep' = asleep
        /\ semaforosAbiertos' = [semaforosAbiertos EXCEPT ![f] = N + 1]
        /\ marked' = marked \cup ({f} \ {-1})
    BY <1>1 DEF Table!SemCreate, Table!TableCreate, f
  <2>3. v \in Int /\ f \in -1 .. maxSem - 1 /\ maxSem \in Nat
    BY <2>1 DEF Table!Slot, Table!UserSemaphoresAssumption
  <2>4. /\ values' \in Seq(Int) /\ Len(values') = N + 1
        /\ idOf' \in Seq(Int) /\ Len(idOf') = N + 1 /\ idOf'[N + 1] = f
        /\ \A i \in 1 .. N : idOf'[i] = idOf[i]
    BY <1>0, <2>2, <2>3 DEF TableInv, TableTypes
  <2>5. semaforosAbiertos' \in [-1 .. maxSem - 1 -> 0 .. N + 1] /\ asleep' \in [Thread -> 0 .. N + 1]
    BY <1>0, <2>2, <2>3 DEF TableInv, TableTypes
  <2>6. marked' \subseteq Table!Slot
    BY <2>1, <2>2 DEF TableInv, TableTypes
  <2>7. Table!TableConsistent'
    <3> SUFFICES ASSUME NEW i \in Table!Slot
                 PROVE  /\ i \in marked' <=> semaforosAbiertos'[i] # 0
                        /\ i \in marked' => idOf'[semaforosAbiertos'[i]] = i
      BY DEF Table!TableConsistent
    <3>1. i \in -1 .. maxSem - 1 /\ i # -1
      BY <2>3 DEF Table!Slot
    <3>2. CASE i = f
      BY <1>0, <2>2, <2>4, <3>1, <3>2 DEF TableInv, TableTypes
    <3>3. CASE i # f
      <4>1. semaforosAbiertos'[i] = semaforosAbiertos[i] /\ (i \in marked' <=> i \in marked)
        BY <2>2, <3>1, <3>3 DEF TableInv, TableTypes
      <4>2. i \in marked => semaforosAbiertos[i] \in 1 .. N
        <5>1. semaforosAbiertos[i] \in 0 .. N /\ (i \in marked => semaforosAbiertos[i] # 0)
          BY <3>1 DEF TableInv, TableTypes, Table!TableConsistent
        <5> QED BY <1>0, <5>1
      <4> QED BY <2>4, <4>1, <4>2 DEF TableInv, Table!TableConsistent
    <3> QED BY <3>2, <3>3
  <2> QED BY <2>4, <2>5, <2>6, <2>7 DEF TableInv, TableTypes
<1>2. ASSUME NEW t \in Thread, NEW id \in {idOf[s] : s \in Table!Created}, Table!SemDestroy(t, id)
      PROVE  TableInv'
  <2>1. UNCHANGED <<values, asleep, idOf>> /\ Table!TableClose(id)
    BY <1>2 DEF Table!SemDestroy
  <2>2. CASE UNCHANGED <<marked, semaforosAbiertos>>
    BY <2>1, <2>2 DEF TableInv, TableTypes, Table!TableConsistent
  <2>3. CASE /\ marked' = marked \ {id} /\ id \in marked
             /\ semaforosAbiertos' = [semaforosAbiertos EXCEPT ![id] = 0]
    <3>1. id \in Table!Slot /\ \A i \in Table!Slot : i \in -1 .. maxSem - 1
      BY <2>3 DEF TableInv, TableTypes, Table!Slot, Table!UserSemaphoresAssumption
    <3>2. TableTypes'
      BY <1>0, <2>1, <2>3, <3>1 DEF TableInv, TableTypes
    <3>3. Table!TableConsistent'
      BY <2>1, <2>3, <3>1 DEF TableInv, TableTypes, Table!TableConsistent
    <3> QED BY <3>2, <3>3 DEF TableInv
  <2> QED BY <2>1, <2>2, <2>3 DEF Table!TableClose
<1>3. ASSUME NEW t \in Thread, NEW sem \in Table!Created, Table!V(sem) \/ Table!P(t, sem),
             UNCHANGED <<marked, semaforosAbiertos, idOf>>
      PROVE  TableInv'
  BY <1>3, SemaphoreStep DEF TableInv, TableTypes, Table!TableConsistent
<1>4. ASSUME UNCHANGED <<marked, semaforosAbiertos, idOf, values, asleep>> PROVE TableInv'
  BY <1>4 DEF TableInv, TableTypes, Table!TableConsistent
<1>5. ASSUME NEW t \in Thread, NEW id \in {idOf[s] : s \in Table!Created},
             Table!SemSignal(t, id) \/ Table!SemWait(t, id)
      PROVE  TableInv'
  <2>1. Table!GetSemaphore(id) # 0 => Table!GetSemaphore(id) \in Table!Created
    BY <1>0 DEF Table!GetSemaphore, TableInv, TableTypes, Table!Slot
  <2>2. UNCHANGED <<marked, semaforosAbiertos, idOf>>
    BY <1>5 DEF Table!SemSignal, Table!SemWait
  <2>3. CASE Table!GetSemaphore(id) = 0
    BY <1>4, <1>5, <2>2, <2>3 DEF Table!SemSignal, Table!SemWait
  <2>4. CASE Table!GetSemaphore(id) # 0
    BY <1>3, <1>5, <2>1, <2>2, <2>4 DEF Table!SemSignal, Table!SemWait
  <2> QED BY <2>3, <2>4
<1>6. ASSUME NEW t \in Thread, Table!Woken(t) PROVE TableInv'
  <2>1. asleep[t] \in Table!Created /\ Table!P(t, asleep[t]) /\ UNCHANGED <<marked, semaforosAbiertos, idOf>>
    BY <1>0, <1>6 DEF Table!Woken, TableInv, TableTypes
  <2> QED BY <1>3, <2>1
<1>7. CASE UNCHANGED Table!vars
  BY <1>4, <1>7 DEF Table!vars
<1> QED BY <1>1, <1>2, <1>5, <1>6, <1>7 DEF Table!Next

\* TableInv holds whatever user programs call.
LEMMA TableInvariance == ASSUME Table!UserSemaphoresAssumption PROVE Table!Spec => []TableInv
<1>1. Table!Init => TableInv
  <2> SUFFICES ASSUME Table!Init PROVE TableInv
    OBVIOUS
  <2>1. Len(values) = 0
    BY DEF Table!Init
  <2>2. TableTypes
    BY <2>1 DEF Table!Init, TableTypes
  <2>3. Table!TableConsistent
    BY DEF Table!Init, Table!TableConsistent, Table!Slot, Table!UserSemaphoresAssumption
  <2> QED BY <2>2, <2>3 DEF TableInv
<1>2. TableInv /\ [Table!Next]_(Table!vars) => TableInv'
  BY TableStep
<1> QED BY <1>1, <1>2, PTL DEF Table!Spec

\* semTabla.cc and exception.cc: whatever is created and destroyed in whatever order,
\* an id is marked exactly when it has a semaphore, the one whose creation returned
\* the id.
THEOREM TableStaysConsistent ==
  ASSUME Table!UserSemaphoresAssumption PROVE Table!Spec => []Table!TableConsistent
<1>1. TableInv => Table!TableConsistent
  BY DEF TableInv
<1> QED BY <1>1, TableInvariance, PTL

\* exception.cc: no SemSignal and no SemWait reaches a semaphore that SemDestroy took
\* out of the table, although its id is given again.
THEOREM DestroyedIsLeftAlone ==
  ASSUME Table!UserSemaphoresAssumption PROVE Table!Spec => [][Table!DestroyedIsLeftAloneStep]_(Table!vars)
<1>1. TableInv /\ [Table!Next]_(Table!vars) => Table!DestroyedIsLeftAloneStep
  <2> SUFFICES ASSUME TableInv, [Table!Next]_(Table!vars),
                      NEW s \in Table!Created, \A i \in Table!Slot : semaforosAbiertos[i] # s
               PROVE  /\ values'[s] <= values[s]
                      /\ \A u \in Thread : asleep'[u] = s => asleep[u] = s
    BY DEF Table!DestroyedIsLeftAloneStep
  <2>0. Table!Created = 1 .. Len(values) /\ Len(values) \in Nat /\ s # 0 /\ values[s] \in Int
    BY DEF TableInv, TableTypes, Table!Created
  <2>1. ASSUME NEW sem \in Table!Created, NEW t \in Thread, Table!V(sem) \/ Table!P(t, sem), sem # s
        PROVE  values'[s] = values[s] /\ \A u \in Thread : asleep'[u] = s => asleep[u] = s
    BY <2>0, <2>1, SemaphoreStep DEF TableInv
  <2>2. ASSUME values'[s] = values[s], UNCHANGED asleep
        PROVE  values'[s] <= values[s] /\ \A u \in Thread : asleep'[u] = s => asleep[u] = s
    BY <2>0, <2>2
  <2>3. ASSUME NEW t \in Thread, NEW v \in InitialValues, Table!SemCreate(t, v)
        PROVE  values'[s] = values[s] /\ UNCHANGED asleep
    <3>1. values' = Append(values, v) /\ UNCHANGED asleep
      BY <2>3 DEF Table!SemCreate
    <3> QED BY <2>0, <3>1 DEF TableInv, TableTypes
  <2>4. ASSUME NEW t \in Thread, NEW id \in {idOf[x] : x \in Table!Created},
               Table!SemSignal(t, id) \/ Table!SemWait(t, id)
        PROVE  values'[s] <= values[s] /\ \A u \in Thread : asleep'[u] = s => asleep[u] = s
    <3>1. /\ Table!GetSemaphore(id) # s
          /\ Table!GetSemaphore(id) # 0 => Table!GetSemaphore(id) \in Table!Created
      BY <2>0 DEF Table!GetSemaphore, TableInv, TableTypes, Table!Slot
    <3>2. CASE Table!GetSemaphore(id) = 0
      BY <2>2, <2>4, <3>2 DEF Table!SemSignal, Table!SemWait
    <3>3. CASE Table!GetSemaphore(id) # 0
      <4>1. Table!V(Table!GetSemaphore(id)) \/ Table!P(t, Table!GetSemaphore(id))
        BY <2>4, <3>3 DEF Table!SemSignal, Table!SemWait
      <4> QED BY <2>0, <2>1, <3>1, <3>3, <4>1
    <3> QED BY <3>2, <3>3
  <2>5. ASSUME NEW t \in Thread, Table!Woken(t)
        PROVE  values'[s] <= values[s] /\ \A u \in Thread : asleep'[u] = s => asleep[u] = s
    <3>1. asleep[t] \in Table!Created /\ Table!P(t, asleep[t])
      BY <2>0, <2>5 DEF Table!Woken, TableInv, TableTypes
    <3>2. CASE asleep[t] # s
      BY <2>0, <2>1, <3>1, <3>2
    <3>3. CASE asleep[t] = s
      <4>1. values'[s] = values[s] \/ values'[s] = values[s] - 1
        BY <2>0, <3>1, <3>3 DEF Table!P, TableInv, TableTypes
      <4>2. \A u \in Thread : u # t => asleep'[u] = asleep[u]
        BY <3>1 DEF Table!P, TableInv, TableTypes
      <4> QED BY <2>0, <3>3, <4>1, <4>2
    <3> QED BY <3>2, <3>3
  <2>6. ASSUME NEW t \in Thread, NEW id \in {idOf[x] : x \in Table!Created}, Table!SemDestroy(t, id)
        PROVE  UNCHANGED <<values, asleep>>
    BY <2>6 DEF Table!SemDestroy
  <2>7. CASE UNCHANGED Table!vars
    BY <2>2, <2>7 DEF Table!vars
  <2> QED BY <2>2, <2>3, <2>4, <2>5, <2>6, <2>7 DEF Table!Next
<1> QED BY <1>1, TableInvariance, PTL DEF Table!Spec

-----------------------------------------------------------------------------
(* Stack<T> *)

CONSTANTS MaxT, size
VARIABLES stack, top, popped, at, count

Template == INSTANCE TemplateStack WITH pc <- at

Items == [i \in 1 .. top |-> stack[i - 1]]

\* A sequence is a function on its positions.
LEMMA SeqIsFunction == ASSUME NEW S, NEW s \in Seq(S) PROVE s \in [1 .. Len(s) -> S]
  OBVIOUS

\* top stays within the array and the elements within the type.
LEMMA StackTypeStep ==
  ASSUME Template!SizeAssumption, Template!TypeAssumption, Template!TypeOK,
         [Template!Next]_(Template!vars)
  PROVE  Template!TypeOK'
<1>1. size \in Nat \ {0} /\ MaxT \in Nat /\ Template!T = 0 .. MaxT
  BY DEF Template!SizeAssumption, Template!TypeAssumption, Template!T
<1>2. ASSUME NEW v \in Template!T, Template!Push(v)
      PROVE  stack' \in [0 .. size - 1 -> Template!T] /\ top' \in 0 .. size /\ popped' \in Template!T
  BY <1>1, <1>2 DEF Template!Push, Template!Full, Template!TypeOK
<1>3. ASSUME Template!Pop
      PROVE  stack' \in [0 .. size - 1 -> Template!T] /\ top' \in 0 .. size /\ popped' \in Template!T
  <2>1. top - 1 \in 0 .. size - 1
    BY <1>1, <1>3 DEF Template!Pop, Template!Empty, Template!TypeOK
  <2> QED BY <1>1, <1>3, <2>1 DEF Template!Pop, Template!TypeOK
<1>4. \A v \in Template!T : Template!Successor(v) \in Template!T
  BY <1>1 DEF Template!Successor
<1>5. 0 \in Template!T
  BY <1>1
<1>6. CASE Template!ClientPush
  BY <1>2, <1>6 DEF Template!ClientPush, Template!TypeOK
<1>7. CASE Template!ClientPop
  BY <1>3, <1>7 DEF Template!ClientPop, Template!TypeOK
<1>8. CASE \E v \in Template!T : Template!SelfTest(v)
  BY <1>8 DEF Template!SelfTest, Template!TypeOK
<1>9. CASE Template!SelfTestPush
  BY <1>2, <1>4, <1>9 DEF Template!SelfTestPush, Template!TypeOK
<1>10. CASE Template!SelfTestPop
  BY <1>3, <1>10 DEF Template!SelfTestPop, Template!TypeOK
<1>11. CASE Template!SelfTestFull \/ Template!SelfTestEnd \/ UNCHANGED Template!vars
  BY <1>5, <1>11 DEF Template!SelfTestFull, Template!SelfTestEnd, Template!vars, Template!TypeOK
<1> QED BY <1>6, <1>7, <1>8, <1>9, <1>10, <1>11 DEF Template!Next, Template!SelfTestStep

\* stack[top++] = value is Append.
LEMMA PushAppends ==
  ASSUME Template!SizeAssumption, Template!TypeOK, NEW v \in Template!T, Template!Push(v)
  PROVE  Items' = Append(Items, v) /\ Len(Items) < size
<1>1. /\ top \in 0 .. size /\ top # size /\ size \in Nat \ {0} /\ top' = top + 1
      /\ stack \in [0 .. size - 1 -> Template!T] /\ stack' = [stack EXCEPT ![top] = v]
  BY DEF Template!SizeAssumption, Template!TypeOK, Template!Push, Template!Full
<1>2. top \in Nat /\ top < size /\ top \in 0 .. size - 1
  BY <1>1
<1>3. Items \in Seq(Template!T) /\ Len(Items) = top
  <2>1. \A i \in 1 .. top : stack[i - 1] \in Template!T
    BY <1>1, <1>2
  <2> QED BY <1>2, <2>1 DEF Items
<1>4. /\ DOMAIN Append(Items, v) = 1 .. top + 1
      /\ Append(Items, v)[top + 1] = v
      /\ \A i \in 1 .. top : Append(Items, v)[i] = stack[i - 1]
  BY <1>2, <1>3 DEF Items
<1>5. Append(Items, v) = [i \in 1 .. top + 1 |-> Append(Items, v)[i]]
  <2>1. Append(Items, v) \in Seq(Template!T) /\ Len(Append(Items, v)) = top + 1
    BY <1>3
  <2>2. Append(Items, v) \in [1 .. top + 1 -> Template!T]
    BY <2>1, SeqIsFunction, Zenon
  <2> QED BY <2>2, Zenon
<1>6. ASSUME NEW i \in 1 .. top + 1 PROVE stack'[i - 1] = Append(Items, v)[i]
  <2>1. CASE i = top + 1
    BY <1>1, <1>2, <1>4, <2>1
  <2>2. CASE i # top + 1
    <3>1. i \in 1 .. top /\ i - 1 \in 0 .. size - 1 /\ i - 1 # top
      BY <1>1, <1>2, <1>6, <2>2
    <3> QED BY <1>1, <1>4, <3>1
  <2> QED BY <2>1, <2>2, Zenon
<1>7. Items' = [i \in 1 .. top + 1 |-> stack'[i - 1]]
  BY <1>1 DEF Items
<1> QED BY <1>2, <1>3, <1>5, <1>6, <1>7

\* stack[--top] is the last element, and what is below stays.
LEMMA PopTakesLast ==
  ASSUME Template!SizeAssumption, Template!TypeOK, Template!Pop
  PROVE  /\ Items # <<>> /\ popped' = Items[Len(Items)]
         /\ Items' = SubSeq(Items, 1, Len(Items) - 1)
<1>1. /\ top \in 1 .. size /\ size \in Nat \ {0} /\ top' = top - 1 /\ stack' = stack
      /\ popped' = stack[top - 1] /\ stack \in [0 .. size - 1 -> Template!T]
  BY DEF Template!SizeAssumption, Template!TypeOK, Template!Pop, Template!Empty
<1>2. top \in Nat \ {0}
  BY <1>1
<1>3. Items \in Seq(Template!T) /\ Len(Items) = top /\ \A i \in 1 .. top : Items[i] = stack[i - 1]
  <2>1. \A i \in 1 .. top : stack[i - 1] \in Template!T
    BY <1>1
  <2> QED BY <1>2, <2>1 DEF Items
<1>4. Items # <<>> /\ popped' = Items[Len(Items)]
  BY <1>1, <1>2, <1>3
<1>5. SubSeq(Items, 1, top - 1) = [i \in 1 .. top - 1 |-> Items[i]]
  BY <1>2, <1>3
<1>6. Items' = [i \in 1 .. top - 1 |-> stack[i - 1]]
  BY <1>1 DEF Items
<1>7. \A i \in 1 .. top - 1 : Items[i] = stack[i - 1]
  BY <1>2, <1>3
<1> QED BY <1>3, <1>4, <1>5, <1>6, <1>7

\* templatestack.cc: seen from outside Stack<T> is a bounded stack, whatever its size
\* and whatever earlier elements are left in the array.
THEOREM StackIsLifo ==
  ASSUME Template!SizeAssumption, Template!TypeAssumption PROVE Template!Spec => Template!ImplementsLifo
<1>1. Template!Init => Template!TypeOK
  BY DEF Template!Init, Template!TypeOK, Template!T, Template!SizeAssumption, Template!TypeAssumption
<1>2. Template!TypeOK /\ [Template!Next]_(Template!vars) => Template!TypeOK'
  BY StackTypeStep
<1>3. Template!Init => Template!Lifo!LifoInit
  BY DEF Template!Init, Template!Lifo!LifoInit
<1>4. Template!TypeOK /\ [Template!Next]_(Template!vars) => [Template!Lifo!LifoNext]_(Template!Lifo!lifoVars)
  <2> SUFFICES ASSUME Template!TypeOK, [Template!Next]_(Template!vars)
               PROVE  [Template!Lifo!LifoNext]_(Template!Lifo!lifoVars)
    OBVIOUS
  <2>1. ASSUME NEW v \in Template!T, Template!Push(v) PROVE Template!Lifo!LifoNext
    BY <2>1, PushAppends, Zenon DEF Template!Lifo!LifoNext, Template!Lifo!LifoPush, Items, Template!Push
  <2>2. ASSUME Template!Pop PROVE Template!Lifo!LifoNext
    BY <2>2, PopTakesLast, Zenon DEF Template!Lifo!LifoNext, Template!Lifo!LifoPop, Items
  <2>3. ASSUME UNCHANGED <<stack, top, popped>> PROVE UNCHANGED Template!Lifo!lifoVars
    BY <2>3 DEF Template!Lifo!lifoVars
  <2>4. CASE Template!ClientPush \/ Template!SelfTestPush
    BY <2>1, <2>4 DEF Template!ClientPush, Template!SelfTestPush, Template!TypeOK
  <2>5. CASE Template!ClientPop \/ Template!SelfTestPop
    BY <2>2, <2>5 DEF Template!ClientPop, Template!SelfTestPop
  <2>6. CASE \/ \E v \in Template!T : Template!SelfTest(v)
             \/ Template!SelfTestFull \/ Template!SelfTestEnd \/ UNCHANGED Template!vars
    BY <2>3, <2>6 DEF Template!SelfTest, Template!SelfTestFull, Template!SelfTestEnd, Template!vars
  <2> QED BY <2>4, <2>5, <2>6 DEF Template!Next, Template!SelfTestStep
<1> QED BY <1>1, <1>2, <1>3, <1>4, PTL DEF Template!Spec, Template!ImplementsLifo, Template!Lifo!LifoSpec

-----------------------------------------------------------------------------
(* The tables of open files *)

CONSTANTS main, File, NoFile, Tty, maxArch, Handle, Stray, Closes, MaxOpens, MaxCalls
VARIABLES place, exists, descriptor, started, openFilesMap, openFiles, named, console, call, target, opens, made

Files == INSTANCE OpenFiles WITH marked <- openFilesMap, pc <- place

Transferring == {t \in Thread : place[t] \in {"transfer", "V"}}

FilesInv ==
    /\ openFilesMap \in [Thread -> SUBSET Files!Id]
    /\ named \in [Thread -> [Files!Id -> File \cup {NoFile}]]
    /\ place \in [Thread -> {"user", "P", "transfer", "V"}]
    /\ console \in Nat
    /\ console + Cardinality(Transferring) = 1
    /\ Files!TableAgrees

\* BitMap::Find on the bit map of a table returns -1 or an id that is not open.
LEMMA FindIdIsFree ==
  ASSUME Files!OpenFilesAssumption, FilesInv, NEW t \in Thread
  PROVE  Files!FindId(t) = -1 \/ Files!FindId(t) \in Files!Id \ openFilesMap[t]
<1>1. openFilesMap[t] \subseteq Files!Id /\ Files!Id \subseteq Nat
  BY DEF FilesInv, Files!Id, Files!OpenFilesAssumption
<1> DEFINE S == Files!Id \ openFilesMap[t]
<1>2. CASE openFilesMap[t] # Files!Id
  <2>1. S \subseteq Nat /\ S # {}
    BY <1>1, <1>2
  <2> HIDE DEF S
  <2>2. (CHOOSE x \in S : \A y \in S : x <= y) \in S
    BY <2>1, LeastExists, Zenon
  <2> QED BY <1>2, <2>2 DEF Files!FindId, S
<1> QED BY <1>2 DEF Files!FindId

\* A step that leaves the tables, or changes one entry and its bit together.
LEMMA FilesStep == Files!OpenFilesAssumption /\ FilesInv /\ [Files!Next]_(Files!vars) => FilesInv'
<1> SUFFICES ASSUME Files!OpenFilesAssumption, FilesInv, [Files!Next]_(Files!vars) PROVE FilesInv'
  OBVIOUS
<1> DEFINE Tables == /\ openFilesMap \in [Thread -> SUBSET Files!Id]
                     /\ named \in [Thread -> [Files!Id -> File \cup {NoFile}]]
                     /\ Files!TableAgrees
           Console == /\ place \in [Thread -> {"user", "P", "transfer", "V"}]
                      /\ console \in Nat
                      /\ console + Cardinality(Transferring) = 1
<1>1. /\ Tables /\ Console /\ NoFile \notin File
      /\ IsFiniteSet(Transferring) /\ Cardinality(Transferring) \in Nat
  <2>1. Transferring \subseteq Thread /\ IsFiniteSet(Thread)
    <3>1. \A S : Files!IsFiniteSet(S) = IsFiniteSet(S)
      BY DEF Files!IsFiniteSet, IsFiniteSet
    <3> QED BY <3>1 DEF Transferring, Files!OpenFilesAssumption
  <2> QED BY <2>1, FS_Subset, FS_CardinalityType DEF FilesInv, Files!OpenFilesAssumption
<1>2. Tables' /\ Console' => FilesInv'
  BY DEF FilesInv
<1>3. UNCHANGED <<place, console>> => Console'
  BY <1>1 DEF Transferring
<1>4. UNCHANGED <<openFilesMap, named>> => Tables'
  BY <1>1 DEF Files!TableAgrees
<1>5. ASSUME NEW t \in Thread, NEW f \in File, Files!Open(t, f) PROVE FilesInv'
  <2>1. UNCHANGED <<place, console>> /\ \E h \in Handle \cup {-1} : Files!TableOpen(t, h, f)
    BY <1>5 DEF Files!Open
  <2>2. /\ openFilesMap' = [openFilesMap EXCEPT ![t] = @ \cup ({Files!FindId(t)} \ {-1})]
        /\ named' = IF Files!FindId(t) = -1 THEN named
                    ELSE [named EXCEPT ![t][Files!FindId(t)] = f]
    BY <2>1 DEF Files!TableOpen
  <2>3. CASE Files!FindId(t) = -1
    BY <1>1, <1>2, <1>3, <1>4, <2>1, <2>2, <2>3
  <2>4. CASE Files!FindId(t) # -1
    <3>1. PICK i \in Files!Id : i = Files!FindId(t)
      BY <2>4, FindIdIsFree
    <3>2. /\ openFilesMap' = [openFilesMap EXCEPT ![t] = @ \cup {i}]
          /\ named' = [named EXCEPT ![t][i] = f]
      BY <2>2, <2>4, <3>1, Zenon
    <3>3. Tables'
      BY <1>1, <3>2 DEF Files!TableAgrees
    <3> QED BY <1>2, <1>3, <2>1, <3>3
  <2> QED BY <2>3, <2>4
<1>6. ASSUME NEW t \in Thread, NEW id \in Closes, Files!Close(t, id) PROVE FilesInv'
  <2>1. UNCHANGED <<place, console>> /\ Files!TableClose(t, id)
    BY <1>6 DEF Files!Close
  <2>2. CASE id \in openFilesMap[t] /\ id > 2
    <3>1. /\ openFilesMap' = [openFilesMap EXCEPT ![t] = @ \ {id}]
          /\ named' = [named EXCEPT ![t][id] = NoFile] /\ id \in Files!Id /\ id \notin 0 .. 2
      BY <1>1, <2>1, <2>2 DEF Files!TableClose
    <3>2. Tables'
      BY <1>1, <3>1 DEF Files!TableAgrees
    <3> QED BY <1>2, <1>3, <2>1, <3>2
  <2>3. CASE ~(id \in openFilesMap[t] /\ id > 2)
    BY <1>2, <1>3, <1>4, <2>1, <2>3 DEF Files!TableClose, Files!tableVars
  <2> QED BY <2>2, <2>3
<1>7. ASSUME NEW t \in Thread, NEW op, NEW id, Files!Enter(t, op, id) PROVE FilesInv'
  <2>1. /\ place[t] = "user" /\ place' = [place EXCEPT ![t] = "P"]
        /\ UNCHANGED <<console, openFilesMap, named>>
    BY <1>7 DEF Files!Enter, Files!InUser, Files!tableVars
  <2>2. Transferring' = Transferring
    BY <1>1, <2>1 DEF Transferring
  <2> QED BY <1>1, <1>2, <1>4, <2>1, <2>2
<1>8. ASSUME NEW t \in Thread, Files!ConsoleP(t) PROVE FilesInv'
  <2>1. /\ place[t] = "P" /\ console > 0 /\ console' = console - 1
        /\ place' = [place EXCEPT ![t] = "transfer"] /\ UNCHANGED <<openFilesMap, named>>
    BY <1>8 DEF Files!ConsoleP, Files!tableVars
  <2>2. t \notin Transferring /\ Transferring' = Transferring \cup {t}
    BY <1>1, <2>1 DEF Transferring
  <2>3. Cardinality(Transferring') = Cardinality(Transferring) + 1
    BY <1>1, <2>2, FS_AddElement, Zenon
  <2> QED BY <1>1, <1>2, <1>4, <2>1, <2>3
<1>9. ASSUME NEW t \in Thread, NEW file, Files!Transferred(t, file, "V") PROVE FilesInv'
  <2>1. /\ place[t] = "transfer" /\ place' = [place EXCEPT ![t] = "V"]
        /\ UNCHANGED <<console, openFilesMap, named>>
    BY <1>9 DEF Files!Transferred, Files!tableVars
  <2>2. Transferring' = Transferring
    BY <1>1, <2>1 DEF Transferring
  <2> QED BY <1>1, <1>2, <1>4, <2>1, <2>2
<1>10. ASSUME NEW t \in Thread, Files!ConsoleV(t) PROVE FilesInv'
  <2>1. /\ place[t] = "V" /\ console' = console + 1 /\ place' = [place EXCEPT ![t] = "user"]
        /\ UNCHANGED <<openFilesMap, named>>
    BY <1>10 DEF Files!ConsoleV, Files!tableVars
  <2>2. t \in Transferring /\ Transferring' = Transferring \ {t}
    BY <1>1, <2>1 DEF Transferring
  <2>3. Cardinality(Transferring') = Cardinality(Transferring) - 1
    BY <1>1, <2>2, FS_RemoveElement, ZenonT(60)
  <2> QED BY <1>1, <1>2, <1>4, <2>1, <2>3
<1>11. ASSUME NEW t \in Thread,
              \/ \E f \in File : Files!Create(t, f)
              \/ \E child \in Thread : Files!Fork(t, child)
       PROVE  FilesInv'
  BY <1>2, <1>3, <1>4, <1>11 DEF Files!Create, Files!Fork, Files!tableVars
<1>12. CASE UNCHANGED Files!vars
  BY <1>2, <1>3, <1>4, <1>12 DEF Files!vars
<1>13. ASSUME NEW t \in Thread, Files!IOStep(t) PROVE FilesInv'
  BY <1>8, <1>9, <1>10, <1>13, Zenon DEF Files!IOStep, Files!ConsoleCase, Files!FileCase, Files!UnopenedCase
<1> QED BY <1>5, <1>6, <1>7, <1>11, <1>12, <1>13 DEF Files!Next

\* FilesInv holds whatever the threads open, close, read and write.
LEMMA FilesInvariance == ASSUME Files!OpenFilesAssumption PROVE Files!Spec => []FilesInv
<1>1. Files!Init => FilesInv
  <2> SUFFICES ASSUME Files!Init PROVE FilesInv
    OBVIOUS
  <2>1. Transferring = {}
    BY DEF Files!Init, Transferring
  <2>2. Cardinality(Transferring) = 0
    BY <2>1, FS_EmptySet
  <2>3. /\ place \in [Thread -> {"user", "P", "transfer", "V"}]
        /\ console \in Nat /\ console + Cardinality(Transferring) = 1
    BY <2>2 DEF Files!Init
  <2>4. 0 .. 2 \subseteq Files!Id /\ \A i \in Files!Id : i <= 2 <=> i \in 0 .. 2
    BY DEF Files!Id, Files!OpenFilesAssumption
  <2>5. /\ openFilesMap \in [Thread -> SUBSET Files!Id]
        /\ named \in [Thread -> [Files!Id -> File \cup {NoFile}]]
    BY <2>4 DEF Files!Init, Files!OpenFilesAssumption
  <2>6. Files!TableAgrees
    BY <2>4 DEF Files!Init, Files!TableAgrees, Files!OpenFilesAssumption
  <2> QED BY <2>3, <2>5, <2>6 DEF FilesInv
<1>2. FilesInv /\ [Files!Next]_(Files!vars) => FilesInv'
  BY FilesStep
<1> QED BY <1>1, <1>2, PTL DEF Files!Spec

\* nachostabla.cc: in every thread's table the bit map tells the ids that are open,
\* also when the table or the descriptors of UNIX are exhausted.
THEOREM OpenIdsAreMarked == ASSUME Files!OpenFilesAssumption PROVE Files!Spec => []Files!TableAgrees
<1>1. FilesInv => Files!TableAgrees
  BY DEF FilesInv
<1> QED BY <1>1, FilesInvariance, PTL

\* exception.cc: the semaphore Console lets one thread at a time do input or output,
\* on every path through Read and Write, those that refuse the id included.
THEOREM ConsoleIsExclusive ==
  ASSUME Files!OpenFilesAssumption PROVE Files!Spec => []Files!ConsoleExclusive
<1>1. FilesInv => Files!ConsoleExclusive
  <2>1. \A S : Files!Cardinality(S) = Cardinality(S)
    BY DEF Files!Cardinality, Cardinality
  <2> QED BY <2>1 DEF FilesInv, Files!ConsoleExclusive, Transferring
<1> QED BY <1>1, FilesInvariance, PTL
=============================================================================
