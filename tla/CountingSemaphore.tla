-------------------------- MODULE CountingSemaphore --------------------------
(***************************************************************************)
(* What a semaphore promises its callers (the interface comment of         *)
(* threads/synch.h): P waits until a unit is available and takes it, V     *)
(* makes one more unit available.  There is no queue and no scheduler      *)
(* here; module Semaphore is shown to implement this.                      *)
(***************************************************************************)
EXTENDS Naturals

CONSTANTS Thread,        \* the threads that may call P
          InitialValue   \* units available at the start

VARIABLES avail,         \* units available
          waiting        \* threads that called P and have no unit yet

absVars == <<avail, waiting>>

AbsInit == avail = InitialValue /\ waiting = {}

\* t has called P and has to wait.
Request(t) ==
    /\ t \notin waiting
    /\ avail = 0
    /\ waiting' = waiting \cup {t}
    /\ UNCHANGED avail

\* P returns to t, which now owns one unit.
Take(t) ==
    /\ avail > 0
    /\ avail' = avail - 1
    /\ waiting' = waiting \ {t}

\* Somebody called V.
Signal ==
    /\ avail' = avail + 1
    /\ UNCHANGED waiting

AbsNext == Signal \/ \E t \in Thread : Request(t) \/ Take(t)

AbsSafety == AbsInit /\ [][AbsNext]_absVars

\* A unit is not left lying while somebody waits for one.  It is not promised
\* that any particular waiter gets it.
AbsSpec == AbsSafety /\ WF_absVars(\E t \in waiting : Take(t))

=============================================================================
