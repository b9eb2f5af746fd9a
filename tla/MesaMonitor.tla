----------------------------- MODULE MesaMonitor -----------------------------
(***************************************************************************)
(* What a Lock and a Condition promise together (the comments of           *)
(* threads/synch.h): one holder at a time; Wait gives up the lock and      *)
(* starts waiting in one step; Signal lets the longest waiting thread      *)
(* compete for the lock again, and it runs some time later ("Mesa").       *)
(***************************************************************************)
EXTENDS Naturals, Sequences

CONSTANTS Thread, NULL

VARIABLES holder,     \* the thread that has the lock, or NULL
          waiting,    \* the threads in Wait, not signalled, oldest first
          entering    \* the threads that want the lock and have to wait for it

absVars == <<holder, waiting, entering>>

AbsInit == holder = NULL /\ waiting = <<>> /\ entering = {}

Outside(t) ==
    /\ t # holder
    /\ t \notin entering
    /\ \A i \in 1..Len(waiting) : waiting[i] # t

Request(t) ==
    /\ Outside(t)
    /\ entering' = entering \cup {t}
    /\ UNCHANGED <<holder, waiting>>

Enter(t) ==
    /\ holder = NULL
    /\ t \in entering \/ Outside(t)
    /\ holder' = t
    /\ entering' = entering \ {t}
    /\ UNCHANGED waiting

Exit(t) ==
    /\ holder = t
    /\ holder' = NULL
    /\ UNCHANGED <<waiting, entering>>

StartWaiting(t) ==
    /\ holder = t
    /\ holder' = NULL
    /\ waiting' = Append(waiting, t)
    /\ UNCHANGED entering

Notify(t) ==
    /\ holder = t
    /\ waiting # <<>>
    /\ waiting' = Tail(waiting)
    /\ entering' = entering \cup {Head(waiting)}
    /\ UNCHANGED holder

AbsNext == \E t \in Thread :
    Request(t) \/ Enter(t) \/ Exit(t) \/ StartWaiting(t) \/ Notify(t)

AbsSafety == AbsInit /\ [][AbsNext]_absVars

\* A free lock does not stay free while some thread wants it.
AbsSpec == AbsSafety /\ WF_absVars(\E t \in entering : Enter(t))

=============================================================================
