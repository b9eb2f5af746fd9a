--------------------------- MODULE UserSemaphores ---------------------------
(***************************************************************************)
(* The semaphore system calls of userprog/exception.cc with the kernel's   *)
(* one table of them, SemTabla.  Ids are slots of the table and are        *)
(* reused; Semaphore objects are not, since SemDestroy deletes none.  A    *)
(* call runs without interruption except where P sleeps; P and V are       *)
(* the operations of module Semaphore, each in one step.                   *)
(***************************************************************************)
EXTENDS Integers, Sequences

CONSTANTS Thread,
          maxSem,
          InitialValues,    \* arguments of SemCreate
          MaxSemaphores,    \* bound on the calls of SemCreate
          MaxValue,         \* bound on the value of a semaphore
          Usage             \* values SemTabla::usage may have: no constructor sets it

UserSemaphoresAssumption == maxSem \in Nat /\ InitialValues \subseteq Int

VARIABLES marked,               \* semaforosMap
          semaforosAbiertos,    \* slot |-> Semaphore, 0 for the code's -1;
                                \* slot -1 is the word before the array
          usage,
          value, queue,         \* of the semaphores created so far
          asleep,               \* thread |-> the semaphore whose P it is in, or 0
          register2,            \* thread |-> what its last call returned
          idOf                  \* semaphore |-> the id SemCreate returned for it

vars == <<marked, semaforosAbiertos, usage, value, queue, asleep, register2, idOf>>

Slot == 0 .. maxSem - 1
Created == 1 .. Len(value)
Runs(t) == asleep[t] = 0
Return(t, result) == register2' = [register2 EXCEPT ![t] = result]

Init ==
    /\ marked = {}
    /\ semaforosAbiertos = [i \in -1 .. maxSem - 1 |-> 0]
    /\ usage \in Usage
    /\ value = <<>> /\ queue = <<>> /\ idOf = <<>>
    /\ asleep = [t \in Thread |-> 0]
    /\ register2 = [t \in Thread |-> 0]

\* BitMap::Find
FindSlot ==
    IF marked = Slot THEN -1
    ELSE CHOOSE i \in Slot \ marked : \A j \in Slot \ marked : i <= j

\* SemTabla::Create
TableCreate(sem) ==
    /\ semaforosAbiertos' = [semaforosAbiertos EXCEPT ![FindSlot] = sem]
    /\ marked' = marked \cup ({FindSlot} \ {-1})

\* SemTabla::getSemaphore, for an id that Test accepts
GetSemaphore(id) == IF id \in marked THEN semaforosAbiertos[id] ELSE 0

SemCreate(t, initial) ==
    /\ Runs(t) /\ Len(value) < MaxSemaphores
    /\ value' = Append(value, initial)
    /\ queue' = Append(queue, <<>>)
    /\ TableCreate(Len(value) + 1)
    /\ idOf' = Append(idOf, FindSlot)
    /\ Return(t, FindSlot)
    /\ UNCHANGED <<usage, asleep>>

\* SemTabla::Close
TableClose(id) ==
    IF usage = 0 /\ id \in marked
    THEN marked' = marked \ {id} /\ semaforosAbiertos' = [semaforosAbiertos EXCEPT ![id] = 0]
    ELSE UNCHANGED <<marked, semaforosAbiertos>>

SemDestroy(t, id) ==
    /\ Runs(t)
    /\ TableClose(id)
    /\ Return(t, IF usage = 0 /\ id \in marked THEN 1 ELSE -1)
    /\ UNCHANGED <<usage, value, queue, asleep, idOf>>

\* Semaphore::V: the first sleeper, if any, is made ready.
V(sem) ==
    /\ value' = [value EXCEPT ![sem] = @ + 1]
    /\ queue' = [queue EXCEPT ![sem] = IF @ = <<>> THEN @ ELSE Tail(@)]
    /\ UNCHANGED asleep

SemSignal(t, id) ==
    LET sem == GetSemaphore(id) IN
    /\ Runs(t)
    /\ IF sem = 0 THEN Return(t, -1) /\ UNCHANGED <<value, queue, asleep>>
       ELSE value[sem] < MaxValue /\ V(sem) /\ Return(t, 1)
    /\ UNCHANGED <<marked, semaforosAbiertos, usage, idOf>>

\* Semaphore::P, from the test of its loop: the thread goes to sleep, or is done.
P(t, sem) ==
    IF value[sem] = 0
    THEN /\ queue' = [queue EXCEPT ![sem] = Append(@, t)]
         /\ asleep' = [asleep EXCEPT ![t] = sem]
         /\ UNCHANGED value
    ELSE /\ value' = [value EXCEPT ![sem] = @ - 1]
         /\ asleep' = [asleep EXCEPT ![t] = 0]
         /\ UNCHANGED queue

SemWait(t, id) ==
    LET sem == GetSemaphore(id) IN
    /\ Runs(t)
    /\ IF sem = 0 THEN Return(t, -1) /\ UNCHANGED <<value, queue, asleep>>
       ELSE P(t, sem) /\ Return(t, 1)
    /\ UNCHANGED <<marked, semaforosAbiertos, usage, idOf>>

\* A thread made ready in P tests the value again.
Woken(t) ==
    /\ asleep[t] # 0 /\ \A i \in DOMAIN queue[asleep[t]] : queue[asleep[t]][i] # t
    /\ P(t, asleep[t])
    /\ UNCHANGED <<marked, semaforosAbiertos, usage, register2, idOf>>

\* A program passes ids that SemCreate has returned.
Next == \E t \in Thread :
    \/ Woken(t)
    \/ \E v \in InitialValues : SemCreate(t, v)
    \/ \E id \in {idOf[s] : s \in Created} : SemDestroy(t, id) \/ SemSignal(t, id) \/ SemWait(t, id)

Spec == Init /\ [][Next]_vars

-----------------------------------------------------------------------------
\* The bit map and the entries agree: an id is marked exactly when it has a
\* semaphore, no two ids have the same one, and it is the one whose creation
\* returned the id.
TableConsistent ==
    \A i \in Slot :
        /\ i \in marked <=> semaforosAbiertos[i] # 0
        /\ i \in marked => idOf[semaforosAbiertos[i]] = i

\* SemSignal and SemWait touch the semaphore of their id only, however often the
\* id was reused: nobody new comes to a semaphore that left the table, and its
\* value does not grow.
DestroyedIsLeftAloneStep ==
    \A s \in Created : (\A i \in Slot : semaforosAbiertos[i] # s)
         => /\ value'[s] <= value[s]
            /\ {t \in Thread : asleep'[t] = s} \subseteq {t \in Thread : asleep[t] = s}
=============================================================================
