------------------------------ MODULE SynchList ------------------------------
(***************************************************************************)
(* threads/synchlist.h: a list protected by a Lock and a Condition, which  *)
(* behave as module MesaMonitor says (Monitor implements it).  A post      *)
(* office mailbox is one: any threads append messages, any others remove   *)
(* them and wait when there is none.                                       *)
(***************************************************************************)
EXTENDS Integers, Sequences, FiniteSets

CONSTANTS Thread, NULL,
          Calls     \* Calls[t]: what t calls, a sequence of "Append", "Remove", "Apply"

SynchListAssumption ==
    /\ NULL \notin Thread
    /\ IsFiniteSet(Thread)
    /\ Calls \in [Thread -> Seq({"Append", "Remove", "Apply"})]

VARIABLES holder, waiting, entering,    \* lock and listEmpty
          list,                         \* the items, in the order appended
          appended,                     \* items appended so far: the next item's name
          pc, calls,
          removed,                      \* history: what Remove took, in that order
          seen                          \* what the thread's Apply has been given so far

vars == <<holder, waiting, entering, list, appended, pc, calls, removed, seen>>
monitorVars == <<holder, waiting, entering>>
dataVars == <<list, appended, removed, seen>>

M == INSTANCE MesaMonitor

Goto(t, place) == pc' = [pc EXCEPT ![t] = place]

Init ==
    /\ M!AbsInit
    /\ list = <<>> /\ appended = 0 /\ removed = <<>>
    /\ pc = [t \in Thread |-> "out"]
    /\ calls = Calls
    /\ seen = [t \in Thread |-> <<>>]

\* lock->Acquire(), the first statement of every operation.
Acquire(t) ==
    /\ pc[t] = "out" /\ calls[t] # <<>>
    /\ IF holder = NULL THEN M!Enter(t) /\ Goto(t, "in") ELSE M!Request(t) /\ Goto(t, "entering")
    /\ UNCHANGED <<dataVars, calls>>

\* Acquire, or the Acquire at the end of Wait, returns.
Enter(t) ==
    /\ pc[t] \in {"entering", "waiting"} /\ t \in entering
    /\ M!Enter(t)
    /\ Goto(t, "in")
    /\ UNCHANGED <<dataVars, calls>>

\* list->Append(item)
AppendItem(t) ==
    /\ pc[t] = "in" /\ Head(calls[t]) = "Append"
    /\ list' = Append(list, appended + 1)
    /\ appended' = appended + 1
    /\ Goto(t, "signal")
    /\ UNCHANGED <<monitorVars, calls, removed, seen>>

\* listEmpty->Signal(lock)
Signal(t) ==
    /\ pc[t] = "signal"
    /\ IF waiting = <<>> THEN UNCHANGED monitorVars ELSE M!Notify(t)
    /\ Goto(t, "release")
    /\ UNCHANGED <<dataVars, calls>>

\* while (list->IsEmpty()) listEmpty->Wait(lock)
Wait(t) ==
    /\ pc[t] = "in" /\ Head(calls[t]) = "Remove" /\ list = <<>>
    /\ M!StartWaiting(t)
    /\ Goto(t, "waiting")
    /\ UNCHANGED <<dataVars, calls>>

\* list->Remove()
RemoveItem(t) ==
    /\ pc[t] = "in" /\ Head(calls[t]) = "Remove" /\ list # <<>>
    /\ removed' = Append(removed, Head(list))
    /\ list' = Tail(list)
    /\ Goto(t, "release")
    /\ UNCHANGED <<monitorVars, calls, appended, seen>>

\* list->Apply(func): one call of func, which may be interrupted.
ApplyItem(t) ==
    /\ pc[t] = "in" /\ Head(calls[t]) = "Apply" /\ Len(seen[t]) < Len(list)
    /\ seen' = [seen EXCEPT ![t] = Append(@, list[Len(@) + 1])]
    /\ UNCHANGED <<monitorVars, pc, calls, list, appended, removed>>

ApplyEnd(t) ==
    /\ pc[t] = "in" /\ Head(calls[t]) = "Apply" /\ Len(seen[t]) >= Len(list)
    /\ Goto(t, "release")
    /\ UNCHANGED <<monitorVars, dataVars, calls>>

\* lock->Release(), and the operation returns.
Release(t) ==
    /\ pc[t] = "release"
    /\ M!Exit(t)
    /\ calls' = [calls EXCEPT ![t] = Tail(@)]
    /\ seen' = [seen EXCEPT ![t] = <<>>]
    /\ Goto(t, "out")
    /\ UNCHANGED <<list, appended, removed>>

Step(t) ==
    \/ Acquire(t) \/ Enter(t) \/ AppendItem(t) \/ Signal(t) \/ Wait(t)
    \/ RemoveItem(t) \/ ApplyItem(t) \/ ApplyEnd(t) \/ Release(t)

Next == \E t \in Thread : Step(t)

\* A thread that can run is scheduled; which of several threads gets a free lock
\* is open.
Spec == Init /\ [][Next]_vars /\ WF_vars(Next)

-----------------------------------------------------------------------------
\* Remove returns every item once and in the order of the Appends, whichever
\* threads do it.
OnceInOrder == removed \o list = [i \in 1 .. appended |-> i]

\* While func runs over the list, what it has been given is the beginning of the
\* list: no Append or Remove comes between.
ApplySeesOneList ==
    \A t \in Thread : pc[t] = "in" =>
        Len(seen[t]) <= Len(list) /\ seen[t] = SubSeq(list, 1, Len(seen[t]))

\* No wake-up is lost: when the items outnumber the threads that hold or are
\* about to take the lock, nobody is left waiting for an item.
Unsignalled == {t \in Thread : pc[t] = "signal"}
NoLostWakeUp ==
    waiting # <<>> =>
        Len(list) <= Cardinality(Unsignalled \cup entering
                        \cup {t \in Thread : t = holder /\ pc[t] = "in"})

\* In the end all items that can be removed have been: nobody waits at a list
\* that has items, and every thread that is not waiting has made all its calls.
Served ==
    /\ waiting = <<>> \/ list = <<>>
    /\ \A t \in Thread : calls[t] = <<>> \/ (pc[t] = "waiting" /\ t \notin entering)
=============================================================================
