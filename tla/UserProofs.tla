------------------------------ MODULE UserProofs ------------------------------
(***************************************************************************)
(* Proofs about Exec, Join, Exit, Fork, Yield and Halt (module Processes): *)
(* Join waits for the program it names and the last thread that joined it  *)
(* in time is woken, for any number of threads, programs and time slices.  *)
(*                                                                         *)
(* The inductive invariant has three parts.  Scheduled: the ready list and *)
(* the places of the threads tell their status.  Recorded: ejecutables has *)
(* an entry for each Exec.  JoinedNow: what an entry says of its thread    *)
(* and of the one that joined it.                                          *)
(***************************************************************************)
EXTENDS Processes, TLAPS

-----------------------------------------------------------------------------
(* Processes *)

\* Places where a thread that is dispatched goes on, and where one can be queued.
Resumable == {"execOpen", "forkRun", "user", "execRet", "forkRet", "joinRet"}
Startable == Resumable \cup {"execStart", "forkStart"}

\* The list q holds the threads whose status in st is READY, once each, and st says
\* of every thread what its place in at allows.  The threads of run have the CPU;
\* any other thread that is RUNNING has called Exit.
Placed(q, st, at, doomed, run) ==
    /\ q \in Seq(Threads)
    /\ st \in [Threads -> {"none", "RUNNING", "READY", "BLOCKED"}]
    /\ at \in [Threads -> Points]
    /\ \A i, j \in 1 .. Len(q) : q[i] = q[j] => i = j
    /\ \A t \in Threads : st[t] = "READY" <=> \E i \in 1 .. Len(q) : q[i] = t
    /\ \A t \in Threads :
          /\ st[t] = "none" <=> at[t] = "none"
          /\ st[t] = "READY" => at[t] \in Startable
          /\ st[t] = "RUNNING" => IF t \in run THEN at[t] \in Resumable ELSE at[t] = "exited"
          /\ st[t] = "BLOCKED" => at[t] \in {"joinWait", "exited"}
    /\ \A t \in doomed : t \in Threads /\ at[t] = "exited"
    /\ \A t, u \in doomed : t = u

Scheduled ==
    /\ current \in Threads /\ halted \in BOOLEAN
    /\ ~halted => status[current] = "RUNNING"
    /\ Placed(ready, status, pc, toBeDestroyed, {current})

\* The two maps of places agree in what Exec, Join and Exit tell apart.
SameClass(a, b) ==
    \A t \in Threads : /\ a[t] = "joinWait" <=> b[t] = "joinWait"
                       /\ a[t] = "joinRet" <=> b[t] = "joinRet"
                       /\ a[t] \in {"none", "exited"} <=> b[t] \in {"none", "exited"}
                       /\ a[t] \in {"execStart", "execOpen"} <=> b[t] \in {"execStart", "execOpen"}

\* Scheduler::Run dispatches the head of the list and deletes the finished thread.
LEMMA RunKeeps ==
  ASSUME NEW q, NEW st, NEW at, NEW doomed, Placed(q, st, at, doomed, {}), q # <<>>,
         halted = FALSE, Run(q, st, at, doomed)
  PROVE  Scheduled' /\ SameClass(at, pc') /\ halted' = FALSE
<1> DEFINE next == Head(q)
           reaped == IF Started(at[next]) = at[next] THEN doomed ELSE {}
<1>1. /\ current' = next /\ ready' = Tail(q) /\ halted' = FALSE
      /\ status' = [t \in Threads |-> IF t \in reaped THEN "none"
                                      ELSE IF t = next THEN "RUNNING" ELSE st[t]]
      /\ pc' = [t \in Threads |-> IF t \in reaped THEN "none"
                                  ELSE IF t = next THEN Started(at[t]) ELSE at[t]]
      /\ toBeDestroyed' = doomed \ reaped
  BY DEF Run, Rest
<1>2. /\ Len(q) \in Nat \ {0} /\ next = q[1] /\ next \in Threads /\ 1 \in 1 .. Len(q)
      /\ Tail(q) \in Seq(Threads) /\ Len(Tail(q)) = Len(q) - 1
      /\ \A i \in 1 .. Len(q) - 1 : Tail(q)[i] = q[i + 1]
  BY DEF Placed
<1>3. st[next] = "READY" /\ at[next] \in Startable
  BY <1>2 DEF Placed
<1>4. Started(at[next]) \in Resumable
  BY <1>3 DEF Started, Startable, Resumable
<1>5. /\ reaped \subseteq doomed /\ \A t \in reaped : t \in Threads /\ at[t] = "exited" /\ t # next
      /\ \A t \in reaped : st[t] # "READY"
  BY <1>3 DEF Placed, Startable, Resumable
<1> HIDE DEF next, reaped
<1>6. status' \in [Threads -> {"none", "RUNNING", "READY", "BLOCKED"}]
  BY <1>1 DEF Placed
<1>7. pc' \in [Threads -> Points]
  BY <1>1, <1>4, <1>5 DEF Placed, Points, Resumable
<1>8. \A i, j \in 1 .. Len(ready') : ready'[i] = ready'[j] => i = j
  <2> SUFFICES ASSUME NEW i \in 1 .. Len(q) - 1, NEW j \in 1 .. Len(q) - 1, q[i + 1] = q[j + 1]
               PROVE  i = j
    BY <1>1, <1>2
  <2>1. i + 1 \in 1 .. Len(q) /\ j + 1 \in 1 .. Len(q)
    BY <1>2
  <2>2. i + 1 = j + 1
    BY <2>1 DEF Placed
  <2> QED BY <2>2
<1>9. ASSUME NEW t \in Threads
      PROVE  status'[t] = "READY" <=> \E i \in 1 .. Len(ready') : ready'[i] = t
  <2>1. status'[t] = "READY" <=> t # next /\ \E i \in 1 .. Len(q) : q[i] = t
    BY <1>1, <1>5 DEF Placed
  <2>2. (t # next /\ \E i \in 1 .. Len(q) : q[i] = t) => \E i \in 1 .. Len(ready') : ready'[i] = t
    <3> SUFFICES ASSUME t # next, NEW i \in 1 .. Len(q), q[i] = t
                 PROVE  \E k \in 1 .. Len(ready') : ready'[k] = t
      OBVIOUS
    <3>1. i - 1 \in 1 .. Len(q) - 1 /\ (i - 1) + 1 = i
      BY <1>2
    <3> QED BY <1>1, <1>2, <3>1, Zenon
  <2>3. (\E i \in 1 .. Len(ready') : ready'[i] = t) => t # next /\ \E i \in 1 .. Len(q) : q[i] = t
    <3> SUFFICES ASSUME NEW i \in 1 .. Len(q) - 1, q[i + 1] = t
                 PROVE  t # next /\ \E k \in 1 .. Len(q) : q[k] = t
      BY <1>1, <1>2
    <3>1. i + 1 \in 1 .. Len(q) /\ i + 1 # 1
      BY <1>2
    <3> QED BY <1>2, <3>1 DEF Placed
  <2> QED BY <2>1, <2>2, <2>3
<1>10. ASSUME NEW t \in Threads
       PROVE  /\ status'[t] = "none" <=> pc'[t] = "none"
              /\ status'[t] = "READY" => pc'[t] \in Startable
              /\ status'[t] = "RUNNING" => IF t \in {current'} THEN pc'[t] \in Resumable ELSE pc'[t] = "exited"
              /\ status'[t] = "BLOCKED" => pc'[t] \in {"joinWait", "exited"}
  <2>1. CASE t \in reaped
    BY <1>1, <2>1
  <2>2. CASE t = next
    BY <1>1, <1>2, <1>4, <1>5, <2>2 DEF Resumable
  <2>3. CASE t \notin reaped /\ t # next
    BY <1>1, <2>3 DEF Placed
  <2> QED BY <2>1, <2>2, <2>3
<1>11. /\ \A t \in toBeDestroyed' : t \in Threads /\ pc'[t] = "exited"
       /\ \A t, u \in toBeDestroyed' : t = u
  BY <1>1, <1>3 DEF Placed, Startable, Resumable
<1>12. status'[current'] = "RUNNING"
  BY <1>1, <1>2, <1>5
<1>13. Scheduled'
  BY <1>1, <1>2, <1>6, <1>7, <1>8, <1>9, <1>10, <1>11, <1>12, Zenon DEF Scheduled, Placed
<1>14. SameClass(at, pc')
  <2> SUFFICES ASSUME NEW t \in Threads
               PROVE  /\ at[t] = "joinWait" <=> pc'[t] = "joinWait"
                      /\ at[t] = "joinRet" <=> pc'[t] = "joinRet"
                      /\ at[t] \in {"none", "exited"} <=> pc'[t] \in {"none", "exited"}
                      /\ at[t] \in {"execStart", "execOpen"} <=> pc'[t] \in {"execStart", "execOpen"}
    BY DEF SameClass
  <2>1. CASE t \in reaped
    BY <1>1, <1>5, <2>1
  <2>2. CASE t \notin reaped /\ t # next
    BY <1>1, <2>2
  <2>3. CASE t \notin reaped /\ t = next
    BY <1>1, <1>3, <2>3 DEF Started, Startable, Resumable
  <2> QED BY <2>1, <2>2, <2>3
<1> QED BY <1>1, <1>13, <1>14

\* Thread::Sleep switches to the next thread, or halts the machine.
LEMMA SleepKeeps ==
  ASSUME NEW t \in Threads, NEW q, NEW at, NEW doomed, current = t, halted = FALSE,
         status \in [Threads -> {"none", "RUNNING", "READY", "BLOCKED"}],
         Placed(q, [status EXCEPT ![t] = "BLOCKED"], at, doomed, {}),
         q = <<>> => ready = <<>>, Sleep(t, q, at, doomed)
  PROVE  Scheduled' /\ SameClass(at, pc')
<1> DEFINE st == [status EXCEPT ![t] = "BLOCKED"]
<1>1. CASE q # <<>>
  BY <1>1, RunKeeps, Zenon DEF Sleep
<1>2. CASE q = <<>>
  <2>1. /\ halted' = TRUE /\ status' = st /\ pc' = at /\ toBeDestroyed' = doomed
        /\ current' = t /\ ready' = q
    BY <1>2 DEF Sleep
  <2>2. st[t] = "BLOCKED"
    OBVIOUS
  <2> HIDE DEF st
  <2>3. Placed(q, st, at, doomed, {t})
    BY <2>2 DEF Placed, st
  <2> QED BY <2>1, <2>3 DEF Scheduled, SameClass
<1> QED BY <1>1, <1>2

\* Appending a thread that is not on the list.
LEMMA AppendOne ==
  ASSUME NEW q \in Seq(Threads), NEW t \in Threads,
         \A i, j \in 1 .. Len(q) : q[i] = q[j] => i = j,
         ~ \E i \in 1 .. Len(q) : q[i] = t
  PROVE  /\ Append(q, t) \in Seq(Threads) /\ Append(q, t) # <<>>
         /\ \A i, j \in 1 .. Len(Append(q, t)) : Append(q, t)[i] = Append(q, t)[j] => i = j
         /\ \A u : (\E i \in 1 .. Len(Append(q, t)) : Append(q, t)[i] = u)
                       <=> u = t \/ \E i \in 1 .. Len(q) : q[i] = u
<1>1. /\ Append(q, t) \in Seq(Threads) /\ Len(q) \in Nat /\ Len(Append(q, t)) = Len(q) + 1
      /\ Append(q, t)[Len(q) + 1] = t /\ \A i \in 1 .. Len(q) : Append(q, t)[i] = q[i]
  OBVIOUS
<1>2. /\ \A i \in 1 .. Len(q) + 1 : i \in 1 .. Len(q) \/ i = Len(q) + 1
      /\ \A i \in 1 .. Len(q) : i \in 1 .. Len(q) + 1
      /\ Len(q) + 1 \in 1 .. Len(q) + 1
  BY <1>1
<1>3. Append(q, t) # <<>>
  <2> SUFFICES ASSUME Append(q, t) = <<>> PROVE FALSE
    OBVIOUS
  <2>1. Len(<<>>) = 0
    OBVIOUS
  <2>2. Len(Append(q, t)) = 0
    BY <2>1, Zenon
  <2> QED BY <1>1, <2>2
<1> QED BY <1>1, <1>2, <1>3

\* Thread::Yield queues the running thread and dispatches the next, if there is one.
LEMMA YieldKeeps ==
  ASSUME Scheduled, NEW t, t = current, halted = FALSE, NEW point \in Resumable, Yield(t, point)
  PROVE  Scheduled' /\ SameClass([pc EXCEPT ![t] = point], pc')
<1> DEFINE at == [pc EXCEPT ![t] = point]
           st == [status EXCEPT ![t] = "READY"]
<1>0. /\ t \in Threads /\ status[t] = "RUNNING" /\ Placed(ready, status, pc, toBeDestroyed, {t})
      /\ point \in Points /\ point \in Startable /\ pc[t] \in Resumable
      /\ point # "none" /\ point # "exited" /\ point # "joinWait"
  BY DEF Scheduled, Placed, Resumable, Startable, Points
<1>1. CASE ready = <<>>
  <2>1. pc' = at /\ current' = current /\ ready' = ready /\ status' = status
        /\ toBeDestroyed' = toBeDestroyed /\ halted' = halted
    BY <1>1 DEF Yield, kernel
  <2>2. Placed(ready, status, at, toBeDestroyed, {t})
    BY <1>0 DEF Placed, Resumable
  <2> QED BY <2>1, <2>2 DEF Scheduled, SameClass
<1>2. CASE ready # <<>>
  <2>1. Run(Append(ready, t), st, at, toBeDestroyed)
    BY <1>2 DEF Yield
  <2>2. /\ ready \in Seq(Threads) /\ \A i, j \in 1 .. Len(ready) : ready[i] = ready[j] => i = j
        /\ ~ \E i \in 1 .. Len(ready) : ready[i] = t
    BY <1>0 DEF Placed
  <2>3. /\ Append(ready, t) \in Seq(Threads) /\ Append(ready, t) # <<>>
        /\ \A i, j \in 1 .. Len(Append(ready, t)) :
              Append(ready, t)[i] = Append(ready, t)[j] => i = j
        /\ \A u \in Threads : (\E i \in 1 .. Len(Append(ready, t)) : Append(ready, t)[i] = u)
                                 <=> u = t \/ status[u] = "READY"
    BY <1>0, <2>2, AppendOne DEF Placed
  <2>4. /\ st \in [Threads -> {"none", "RUNNING", "READY", "BLOCKED"}] /\ at \in [Threads -> Points]
        /\ st[t] = "READY" /\ at[t] = point
        /\ \A u \in Threads \ {t} : st[u] = status[u] /\ at[u] = pc[u]
    BY <1>0 DEF Placed
  <2> HIDE DEF st, at
  <2>5. \A u \in Threads : st[u] = "READY" <=> u = t \/ status[u] = "READY"
    BY <2>4
  <2>6. \A u \in Threads :
          /\ st[u] = "none" <=> at[u] = "none"
          /\ st[u] = "READY" => at[u] \in Startable
          /\ st[u] = "RUNNING" => at[u] = "exited"
          /\ st[u] = "BLOCKED" => at[u] \in {"joinWait", "exited"}
    <3> SUFFICES ASSUME NEW u \in Threads
                 PROVE  /\ st[u] = "none" <=> at[u] = "none"
                        /\ st[u] = "READY" => at[u] \in Startable
                        /\ st[u] = "RUNNING" => at[u] = "exited"
                        /\ st[u] = "BLOCKED" => at[u] \in {"joinWait", "exited"}
      OBVIOUS
    <3>1. CASE u = t
      BY <1>0, <2>4, <3>1
    <3>2. CASE u # t
      <4>1. u \notin {t} /\ st[u] = status[u] /\ at[u] = pc[u]
        BY <2>4, <3>2
      <4>2. /\ status[u] = "none" <=> pc[u] = "none"
            /\ status[u] = "READY" => pc[u] \in Startable
            /\ status[u] = "RUNNING" => pc[u] = "exited"
            /\ status[u] = "BLOCKED" => pc[u] \in {"joinWait", "exited"}
        BY <1>0, <4>1, Zenon DEF Placed
      <4> QED BY <4>1, <4>2
    <3> QED BY <3>1, <3>2
  <2>7. \A u \in toBeDestroyed : u \in Threads /\ at[u] = "exited"
    <3>1. \A u \in toBeDestroyed : u \in Threads /\ pc[u] = "exited"
      BY <1>0, Zenon DEF Placed
    <3>2. pc[t] # "exited"
      BY <1>0 DEF Resumable
    <3> QED BY <2>4, <3>1, <3>2
  <2>8. Placed(Append(ready, t), st, at, toBeDestroyed, {})
    BY <1>0, <2>3, <2>4, <2>5, <2>6, <2>7 DEF Placed
  <2> QED BY <2>1, <2>3, <2>8, RunKeeps, Zenon DEF at
<1> QED BY <1>1, <1>2

\* A running thread goes on to another place.
LEMMA GoesOn ==
  ASSUME Scheduled, halted = FALSE, NEW point \in Resumable,
         pc' = [pc EXCEPT ![current] = point], UNCHANGED kernel
  PROVE  Scheduled'
<1>1. /\ current \in Threads /\ status[current] = "RUNNING"
      /\ Placed(ready, status, pc, toBeDestroyed, {current}) /\ pc[current] \in Resumable
      /\ point \in Points /\ point \notin {"none", "exited", "joinWait"}
  BY DEF Scheduled, Placed, Resumable, Points
<1>2. Placed(ready, status, pc', toBeDestroyed, {current})
  BY <1>1 DEF Placed, Resumable
<1> QED BY <1>2 DEF Scheduled, kernel

\* new Thread and Thread::Fork queue a thread at an address that was not in use.
LEMMA NewThreadKeeps ==
  ASSUME Scheduled, halted = FALSE, NEW t, t = current, NEW new \in Threads,
         NEW mine \in Resumable, NEW point \in {"execStart", "forkStart"},
         NewThread(t, new, mine, point)
  PROVE  /\ Scheduled' /\ new # t /\ pc[new] = "none" /\ pc[t] \in Resumable /\ t \in Threads
         /\ pc'[t] = mine /\ pc'[new] = point /\ \A u \in Threads \ {new, t} : pc'[u] = pc[u]
<1>1. /\ status[new] = "none" /\ status' = [status EXCEPT ![new] = "READY"]
      /\ ready' = Append(ready, new) /\ pc' = [pc EXCEPT ![t] = mine, ![new] = point]
      /\ UNCHANGED <<current, toBeDestroyed, halted>>
  BY DEF NewThread
<1>2. /\ t \in Threads /\ status[t] = "RUNNING" /\ Placed(ready, status, pc, toBeDestroyed, {t})
      /\ pc[t] \in Resumable /\ new # t /\ pc[new] = "none"
      /\ mine \in Points /\ mine \notin {"none", "exited", "joinWait"}
      /\ point \in Points /\ point \in Startable /\ point # "none"
  BY <1>1 DEF Scheduled, Placed, Resumable, Startable, Points
<1>3. /\ ready \in Seq(Threads) /\ \A i, j \in 1 .. Len(ready) : ready[i] = ready[j] => i = j
      /\ ~ \E i \in 1 .. Len(ready) : ready[i] = new
  BY <1>1, <1>2 DEF Placed
<1>4. /\ ready' \in Seq(Threads)
      /\ \A i, j \in 1 .. Len(ready') : ready'[i] = ready'[j] => i = j
      /\ \A u \in Threads : (\E i \in 1 .. Len(ready') : ready'[i] = u) <=> u = new \/ status[u] = "READY"
  BY <1>1, <1>2, <1>3, AppendOne DEF Placed
<1>5. /\ status' \in [Threads -> {"none", "RUNNING", "READY", "BLOCKED"}] /\ pc' \in [Threads -> Points]
      /\ status'[new] = "READY" /\ pc'[new] = point /\ pc'[t] = mine
      /\ \A u \in Threads \ {new} : status'[u] = status[u]
      /\ \A u \in Threads \ {new, t} : pc'[u] = pc[u]
  BY <1>1, <1>2 DEF Placed
<1>6. \A u \in Threads :
        /\ status'[u] = "none" <=> pc'[u] = "none"
        /\ status'[u] = "READY" => pc'[u] \in Startable
        /\ status'[u] = "RUNNING" => IF u \in {t} THEN pc'[u] \in Resumable ELSE pc'[u] = "exited"
        /\ status'[u] = "BLOCKED" => pc'[u] \in {"joinWait", "exited"}
  BY <1>2, <1>5 DEF Placed, Startable
<1>7. \A u \in toBeDestroyed : u \in Threads /\ pc'[u] = "exited"
  BY <1>2, <1>5 DEF Placed, Resumable
<1>8. \A u \in Threads : status'[u] = "READY" <=> (\E i \in 1 .. Len(ready') : ready'[i] = u)
  <2>1. \A u \in Threads : status'[u] = "READY" <=> u = new \/ status[u] = "READY"
    BY <1>5
  <2> QED BY <2>1, <1>4
<1>8a. Placed(ready', status', pc', toBeDestroyed, {t})
  BY <1>2, <1>4, <1>5, <1>6, <1>7, <1>8 DEF Placed
<1>9. Scheduled'
  BY <1>1, <1>2, <1>5, <1>8a DEF Scheduled
<1> QED BY <1>2, <1>5, <1>9

-----------------------------------------------------------------------------
(* The vector of executables, and who waits in Join. *)

Entries == [hilo : Threads, sem : Threads \cup {Null}, hiloJ : Threads \cup {Null}]

Recorded ==
    /\ ejecutables \in Seq(Entries) /\ Len(ejecutables) <= MaxExec
    /\ archivoAE = Len(ejecutables) - 1
    /\ r2 \in -1 .. MaxExec
    /\ program \in [Threads -> -1 .. MaxExec - 1]
    /\ callId \in [Threads -> -1 .. MaxExec - 1]
    /\ inTime \subseteq Threads
    /\ DOMAIN finished \subseteq 0 .. Len(ejecutables) - 1

\* A semaphore pointer names the thread that sleeps in Join for that entry, and the
\* last thread that joined it while it still sleeps; the thread of an entry is the one that
\* runs its program, unless the program has finished.
Vector(at, ej, prog, id, fin) ==
    \A i \in 1 .. Len(ej) :
       /\ ej[i].sem # Null => at[ej[i].sem] = "joinWait" /\ id[ej[i].sem] = i - 1
       /\ i - 1 \in DOMAIN fin \/ prog[ej[i].hilo] = i - 1
       /\ ej[i].hiloJ # Null /\ at[ej[i].hiloJ] = "joinWait" /\ id[ej[i].hiloJ] = i - 1
          => ej[i].sem = ej[i].hiloJ

\* A thread that came back from Join named a finished program, and a thread that runs
\* a program is the thread of that program's entry.
Callers(at, ej, prog, id, fin) ==
    \A t \in Threads :
       /\ at[t] = "joinRet" => id[t] \in DOMAIN fin
       /\ at[t] \in {"none", "exited"} => prog[t] = -1
       /\ at[t] \in {"execStart", "execOpen"} => prog[t] # -1
       /\ at[t] = "joinWait" => id[t] + 1 \in 1 .. Len(ej)
       /\ prog[t] # -1 => /\ prog[t] + 1 \in 1 .. Len(ej) /\ ej[prog[t] + 1].hilo = t
                          /\ prog[t] \notin DOMAIN fin

\* A thread that joined in time still sleeps only if another one joined after it or
\* the executable could not be opened.
Served(at, ej, id, early, fin) ==
    \A t \in early :
       /\ at[t] \in {"joinWait", "joinRet"}
       /\ at[t] = "joinWait" /\ ej[id[t] + 1].hiloJ = t /\ id[t] \in DOMAIN fin
             => fin[id[t]] = Unopened

Joined(at, ej, prog, id, early, fin) ==
    /\ Vector(at, ej, prog, id, fin)
    /\ Callers(at, ej, prog, id, fin)
    /\ Served(at, ej, id, early, fin)

JoinedNow == Joined(pc, ejecutables, program, callId, inTime, finished)

\* A function on 1 .. n is a sequence of length n.
LEMMA SeqOfFunction ==
  ASSUME NEW S, NEW n \in Nat, NEW f \in [1 .. n -> S]
  PROVE  f \in Seq(S) /\ Len(f) = n
  OBVIOUS

\* Join puts its semaphore in one entry.
LEMMA EntryJoined ==
  ASSUME NEW e \in Seq(Entries), NEW e2, NEW k \in 1 .. Len(e), NEW t \in Threads,
         e2 = [e EXCEPT ![k] = [hilo |-> @.hilo, sem |-> t, hiloJ |-> t]]
  PROVE  e2 \in Seq(Entries) /\ Len(e2) = Len(e)
         /\ \A i \in 1 .. Len(e) : IF i = k THEN e2[i].sem = t /\ e2[i].hiloJ = t /\ e2[i].hilo = e[i].hilo
                                     ELSE e2[i] = e[i]
<1>1. DOMAIN e2 = 1 .. Len(e) /\ \A i \in 1 .. Len(e) : i # k => e2[i] = e[i]
  OBVIOUS
<1>2. e2[k] = [hilo |-> e[k].hilo, sem |-> t, hiloJ |-> t]
  OBVIOUS
<1>3. e2[k].sem = t /\ e2[k].hiloJ = t /\ e2[k].hilo = e[k].hilo 
  BY <1>2 
<1>4. e[k] \in Entries
  OBVIOUS
<1>5. e2[k] \in Entries
  BY <1>2, <1>4 DEF Entries
<1>6. \A i \in 1 .. Len(e) : e[i] \in Entries
  OBVIOUS
<1>7. e2 \in [1 .. Len(e) -> Entries]
  BY <1>1, <1>5, <1>6
<1>8. e2 \in Seq(Entries) /\ Len(e2) = Len(e)
  BY <1>7, SeqOfFunction
<1> QED BY <1>1, <1>8, <1>3

\* The fields of the entries of ejecutables.
LEMMA EntryTypes ==
  ASSUME NEW e \in Seq(Entries)
  PROVE  /\ Len(e) \in Nat /\ DOMAIN e = 1 .. Len(e)
         /\ \A i \in 1 .. Len(e) : /\ e[i].hilo \in Threads
                                   /\ e[i].sem \in Threads \cup {Null}
                                   /\ e[i].hiloJ \in Threads \cup {Null}
<1>1. \A i \in 1 .. Len(e) : e[i] \in Entries
  OBVIOUS
<1> QED BY <1>1 DEF Entries

\* Exit clears the semaphores of the entries it wakes.
LEMMA AfterExitIs ==
  ASSUME ejecutables \in Seq(Entries), NEW t
  PROVE  /\ AfterExit(t) \in Seq(Entries) /\ Len(AfterExit(t)) = Len(ejecutables)
         /\ \A i \in 1 .. Len(ejecutables) :
               IF i \in Waking(t) THEN /\ AfterExit(t)[i].sem = Null
                                       /\ AfterExit(t)[i].hiloJ = ejecutables[i].hiloJ
                                       /\ AfterExit(t)[i].hilo = ejecutables[i].hilo
               ELSE AfterExit(t)[i] = ejecutables[i]
<1> DEFINE e == ejecutables
           f == AfterExit(t)
<1>1. \A x \in Entries : LET y == [x EXCEPT !.sem = Null]
                         IN  y \in Entries /\ y.sem = Null /\ y.hiloJ = x.hiloJ /\ y.hilo = x.hilo
  BY DEF Entries
<1>2. DOMAIN e = 1 .. Len(e) /\ Len(e) \in Nat /\ \A i \in 1 .. Len(e) : e[i] \in Entries
  OBVIOUS
<1>3. DOMAIN f = DOMAIN e /\ \A i \in DOMAIN e : f[i] = IF i \in Waking(t) THEN [e[i] EXCEPT !.sem = Null]
                                                       ELSE e[i]
  BY DEF AfterExit
<1> HIDE DEF f
<1>4. \A i \in 1 .. Len(e) : f[i] \in Entries
  BY <1>1, <1>2, <1>3
<1>5. \A i \in 1 .. Len(e) : IF i \in Waking(t)
                             THEN f[i].sem = Null /\ f[i].hiloJ = e[i].hiloJ /\ f[i].hilo = e[i].hilo
                             ELSE f[i] = e[i]
  <2> TAKE i \in 1 .. Len(e)
  <2>1. CASE i \in Waking(t)
    <3>1. e[i] \in Entries /\ f[i] = [e[i] EXCEPT !.sem = Null]
      BY <1>2, <1>3, <2>1
    <3> QED BY <1>1, <2>1, <3>1
  <2>2. CASE i \notin Waking(t)
    BY <1>2, <1>3, <2>2
  <2> QED BY <2>1, <2>2
<1>6. f = [i \in DOMAIN f |-> f[i]]
  BY Zenon DEF f, AfterExit
<1>7. f \in [1 .. Len(e) -> Entries]
  BY <1>2, <1>3, <1>4, <1>6
<1>8. f \in Seq(Entries) /\ Len(f) = Len(e)
  BY <1>2, <1>7, SeqOfFunction
<1> QED BY <1>5, <1>8 DEF f

\* What is said of Join depends on the places only through what they tell apart.
LEMMA JoinedSame ==
  ASSUME NEW a, NEW b, NEW ej \in Seq(Entries), NEW prog, NEW id, NEW early \in SUBSET Threads,
         NEW fin, SameClass(a, b), Joined(a, ej, prog, id, early, fin)
  PROVE  Joined(b, ej, prog, id, early, fin)
<1>1. Vector(b, ej, prog, id, fin)
  BY EntryTypes DEF Joined, Vector, SameClass
<1>2. Callers(b, ej, prog, id, fin)
  BY DEF Joined, Callers, SameClass
<1>3. Served(b, ej, id, early, fin)
  BY DEF Joined, Served, SameClass
<1> QED BY <1>1, <1>2, <1>3 DEF Joined

\* A running thread at a place where it is not in Join, Exit or the start of Exec goes
\* on to another such place.
LEMMA JoinedGoesOn ==
  ASSUME ProcessesAssumption, Recorded, pc \in [Threads -> Points], NEW t \in Threads,
         NEW point \in Resumable \ {"joinRet", "execOpen"}, pc[t] \in Resumable,
         JoinedNow
  PROVE  Joined([pc EXCEPT ![t] = point], ejecutables, program, callId, inTime \ {t}, finished)
<1> DEFINE at == [pc EXCEPT ![t] = point]
<1>1. /\ at[t] = point /\ \A u \in Threads \ {t} : at[u] = pc[u]
      /\ point \notin {"none", "exited", "joinWait", "joinRet", "execOpen", "execStart"}
      /\ pc[t] \notin {"none", "exited", "joinWait"}
  BY DEF Resumable
<1> HIDE DEF at
<1>2. Vector(at, ejecutables, program, callId, finished)
  BY <1>1, EntryTypes DEF JoinedNow, Joined, Vector, Recorded
<1>3. Callers(at, ejecutables, program, callId, finished)
  BY <1>1 DEF JoinedNow, Joined, Callers
<1>4. Served(at, ejecutables, callId, inTime \ {t}, finished)
  BY <1>1 DEF JoinedNow, Joined, Served, Recorded
<1> QED BY <1>2, <1>3, <1>4 DEF Joined, at

-----------------------------------------------------------------------------
(* The joiners that Exit wakes. *)

\* Nachos_Exit queues the joiner of each entry it wakes, once.
LEMMA WokenIs ==
  ASSUME ProcessesAssumption, Recorded, JoinedNow, NEW t \in Threads, NEW w \in Woken(t)
  PROVE  /\ Waking(t) \subseteq 1 .. Len(ejecutables)
         /\ w \in Seq(Threads) /\ DOMAIN w = 1 .. Len(w)
         /\ \A k, l \in 1 .. Len(w) : w[k] = w[l] => k = l
         /\ \A u : (\E k \in 1 .. Len(w) : w[k] = u)
                       <=> \E i \in Waking(t) : ejecutables[i].sem = u
<1>1. /\ Len(ejecutables) \in Nat /\ DOMAIN ejecutables = 1 .. Len(ejecutables)
      /\ Waking(t) \subseteq 1 .. Len(ejecutables)
  BY EntryTypes DEF Recorded, Waking
<1>2. PICK f \in VectorOrders(t) : w = [k \in DOMAIN f |-> ejecutables[f[k]].sem]
  BY Zenon DEF Woken
<1>3. PICK n \in 0 .. Len(ejecutables) : f \in [1 .. n -> Waking(t)]
  BY <1>2 DEF VectorOrders
<1>4. /\ \A k, l \in 1 .. n : k < l => f[k] < f[l]
      /\ \A i \in Waking(t) : \E k \in 1 .. n : f[k] = i
  BY <1>2, <1>3, Zenon DEF VectorOrders
<1>5. \A i \in Waking(t) : ejecutables[i].sem \in Threads /\ callId[ejecutables[i].sem] = i - 1
  BY <1>1, EntryTypes DEF Recorded, JoinedNow, Joined, Vector, Waking
<1>6. n \in Nat /\ \A k \in 1 .. n : f[k] \in Waking(t) /\ f[k] \in Int /\ k \in Int
  BY <1>1, <1>3
<1>7. w \in [1 .. n -> Threads] /\ \A k \in 1 .. n : w[k] = ejecutables[f[k]].sem
  BY <1>2, <1>3, <1>5, <1>6
<1>8. w \in Seq(Threads) /\ Len(w) = n /\ DOMAIN w = 1 .. n
  BY <1>6, <1>7, SeqOfFunction
<1>9. \A k, l \in 1 .. n : w[k] = w[l] => k = l
  <2> TAKE k, l \in 1 .. n
  <2> HAVE w[k] = w[l]
  <2>1. f[k] - 1 = f[l] - 1
    BY <1>5, <1>6, <1>7, Zenon
  <2>2. f[k] = f[l]
    BY <1>6, <2>1
  <2> QED BY <1>4, <1>6, <2>2
<1>10. \A u : (\E k \in 1 .. n : w[k] = u) <=> \E i \in Waking(t) : ejecutables[i].sem = u
  <2> TAKE u
  <2>1. ASSUME NEW k \in 1 .. n, w[k] = u  PROVE \E i \in Waking(t) : ejecutables[i].sem = u
    BY <1>6, <1>7, <2>1, Zenon
  <2>2. ASSUME NEW i \in Waking(t), ejecutables[i].sem = u  PROVE \E k \in 1 .. n : w[k] = u
    BY <1>4, <1>7, <2>2, Zenon
  <2> QED BY <2>1, <2>2, Zenon
<1> QED BY <1>1, <1>8, <1>9, <1>10, Zenon

-----------------------------------------------------------------------------
(* The steps. *)

ProcessesInv == Scheduled /\ Recorded /\ JoinedNow

\* What holds of the thread that has the CPU.
LEMMA RunningThread ==
  ASSUME ProcessesInv, NEW t, current = t, ~halted
  PROVE  /\ t \in Threads /\ status[t] = "RUNNING" /\ pc[t] \in Resumable /\ halted = FALSE
         /\ pc \in [Threads -> Points] /\ Placed(ready, status, pc, toBeDestroyed, {t})
  BY DEF ProcessesInv, Scheduled, Placed

\* A step that leaves the vector and the histories alone, and the places in their classes.
LEMMA QuietStep ==
  ASSUME ProcessesInv, Scheduled', SameClass(pc, pc'),
         UNCHANGED <<ejecutables, archivoAE, r2, history>>
  PROVE  ProcessesInv'
<1>1. Recorded'
  BY DEF ProcessesInv, Recorded, history
<1>2. ejecutables \in Seq(Entries) /\ inTime \in SUBSET Threads
      /\ Joined(pc, ejecutables, program, callId, inTime, finished)
  BY DEF ProcessesInv, Recorded, JoinedNow
<1>3. Joined(pc', ejecutables, program, callId, inTime, finished)
  BY <1>2, JoinedSame
<1> QED BY <1>1, <1>3 DEF ProcessesInv, JoinedNow, history

\* Thread::Yield, from any place where the CPU can be lost.
LEMMA YieldStep ==
  ASSUME ProcessesInv, NEW t, current = t, ~halted, NEW point \in Resumable, Yield(t, point),
         SameClass(pc, [pc EXCEPT ![t] = point]), UNCHANGED <<ejecutables, archivoAE, r2, history>>
  PROVE  ProcessesInv'
<1>1. Scheduled' /\ SameClass([pc EXCEPT ![t] = point], pc')
  BY RunningThread, YieldKeeps, Zenon DEF ProcessesInv
<1>2. SameClass(pc, pc')
  BY <1>1 DEF SameClass
<1> QED BY <1>1, <1>2, QuietStep

\* The time slice.
LEMMA PreemptKeeps ==
  ASSUME ProcessesInv, NEW t, Preempt(t)  PROVE ProcessesInv'
<1>1. current = t /\ ~halted /\ Yield(t, pc[t]) /\ UNCHANGED <<ejecutables, archivoAE, r2, history>>
  BY DEF Preempt
<1>2. pc[t] \in Resumable /\ SameClass(pc, [pc EXCEPT ![t] = pc[t]])
  BY <1>1, RunningThread, Zenon DEF SameClass
<1> QED BY <1>1, <1>2, YieldStep

\* Fork's Yield at the end of its handler, and the Yield system call.
LEMMA ForkYieldsKeeps ==
  ASSUME ProcessesInv, NEW t, ForkYields(t) \/ SyscallYield(t)  PROVE ProcessesInv'
<1>1. /\ current = t /\ ~halted /\ pc[t] \in {"forkRet", "user"} /\ Yield(t, "user")
      /\ UNCHANGED <<ejecutables, archivoAE, r2, history>>
  BY DEF ForkYields, SyscallYield, At
<1>2. "user" \in Resumable /\ SameClass(pc, [pc EXCEPT ![t] = "user"])
  BY <1>1, RunningThread DEF SameClass, Resumable
<1> QED BY <1>1, <1>2, YieldStep

\* The Halt system call.
LEMMA HaltKeeps ==
  ASSUME ProcessesInv, NEW t, Halt(t)  PROVE ProcessesInv'
<1>1. /\ halted' = TRUE
      /\ UNCHANGED <<current, ready, status, toBeDestroyed, pc, ejecutables, archivoAE, r2, history>>
  BY DEF Halt
<1>2. Scheduled'
  BY <1>1 DEF ProcessesInv, Scheduled, Placed
<1>3. SameClass(pc, pc')
  BY <1>1 DEF SameClass
<1> QED BY <1>1, <1>2, <1>3, QuietStep

\* Join of an id that Exec has not returned answers -1.
LEMMA JoinUnknownKeeps ==
  ASSUME ProcessesAssumption, ProcessesInv, NEW t, JoinUnknown(t)  PROVE ProcessesInv'
<1>1. r2' = -1 /\ UNCHANGED <<kernel, pc, ejecutables, archivoAE, history>>
  BY DEF JoinUnknown
<1>2. Scheduled'
  BY <1>1 DEF ProcessesInv, Scheduled, Placed, kernel
<1>3. Recorded'
  BY <1>1 DEF ProcessesInv, Recorded, history, ProcessesAssumption
<1>4. JoinedNow'
  BY <1>1 DEF ProcessesInv, JoinedNow, history
<1> QED BY <1>2, <1>3, <1>4 DEF ProcessesInv

\* NachosExecThread and NachosForkThread enter the program.
LEMMA ThreadStartsKeeps ==
  ASSUME ProcessesAssumption, ProcessesInv, NEW t, ExecThreadStarts(t) \/ ForkThreadStarts(t)
  PROVE  ProcessesInv'
<1>1. /\ current = t /\ ~halted /\ pc[t] \in {"execOpen", "forkRun"}
      /\ pc' = [pc EXCEPT ![t] = "user"] /\ UNCHANGED <<kernel, ejecutables, archivoAE, r2, history>>
  BY DEF ExecThreadStarts, ForkThreadStarts, At
<1>2. "user" \in Resumable /\ "user" \in Resumable \ {"joinRet", "execOpen"}
  BY DEF Resumable
<1>3. Scheduled'
  BY <1>1, <1>2, RunningThread, GoesOn, Zenon DEF ProcessesInv
<1>4. Recorded'
  BY <1>1 DEF ProcessesInv, Recorded, history
<1>5. Joined(pc', ejecutables, program, callId, inTime \ {t}, finished)
  BY <1>1, <1>2, RunningThread, JoinedGoesOn, Zenon DEF ProcessesInv
<1>6. t \notin inTime
  BY <1>1 DEF ProcessesInv, JoinedNow, Joined, Served
<1>7. inTime \ {t} = inTime
  BY <1>6
<1> QED BY <1>1, <1>3, <1>4, <1>5, <1>7 DEF ProcessesInv, JoinedNow, history

\* A thread outside Join drops the id of its call.
LEMMA JoinedForgets ==
  ASSUME ProcessesAssumption, Recorded, NEW at, NEW t \in Threads, NEW early \in SUBSET Threads, t \notin early,
         at[t] \notin {"joinWait", "joinRet"},
         Joined(at, ejecutables, program, callId, early, finished)
  PROVE  Joined(at, ejecutables, program, [callId EXCEPT ![t] = -1], early, finished)
<1> DEFINE id == [callId EXCEPT ![t] = -1]
<1>1. \A u \in Threads \ {t} : id[u] = callId[u]
  BY DEF Recorded
<1> HIDE DEF id
<1>2. Vector(at, ejecutables, program, id, finished)
  BY <1>1, EntryTypes, ZenonT(60) DEF Joined, Vector, Recorded
<1>3. Callers(at, ejecutables, program, id, finished)
  BY <1>1 DEF Joined, Callers
<1>4. Served(at, ejecutables, id, early, finished)
  BY <1>1 DEF Joined, Served
<1> QED BY <1>2, <1>3, <1>4 DEF Joined, id

\* The ends of Exec and of Join.
LEMMA ReturnKeeps ==
  ASSUME ProcessesAssumption, ProcessesInv, NEW t, ExecReturn(t) \/ JoinReturn(t)
  PROVE  ProcessesInv'
<1>1. /\ current = t /\ ~halted /\ pc[t] \in {"execRet", "joinRet"}
      /\ pc' = [pc EXCEPT ![t] = "user"] /\ callId' = [callId EXCEPT ![t] = -1]
      /\ UNCHANGED <<kernel, ejecutables, archivoAE, program, finished>>
  BY DEF ExecReturn, JoinReturn, At
<1>2. "user" \in Resumable /\ "user" \in Resumable \ {"joinRet", "execOpen"}
  BY DEF Resumable
<1>3. Scheduled'
  BY <1>1, <1>2, RunningThread, GoesOn, Zenon DEF ProcessesInv
<1>4. Joined(pc', ejecutables, program, callId, inTime \ {t}, finished)
  BY <1>1, <1>2, RunningThread, JoinedGoesOn, Zenon DEF ProcessesInv
<1>5. inTime' = inTime \ {t}
  <2>1. CASE ExecReturn(t)
    <3>1. pc[t] = "execRet" /\ inTime' = inTime
      BY <2>1 DEF ExecReturn, At
    <3>2. t \notin inTime
      BY <3>1 DEF ProcessesInv, JoinedNow, Joined, Served
    <3> QED BY <3>1, <3>2
  <2>2. CASE JoinReturn(t)
    BY <2>2 DEF JoinReturn
  <2> QED BY <2>1, <2>2
<1>6. r2' \in -1 .. MaxExec
  <2>1. CASE ExecReturn(t)
    <3>1. r2' = archivoAE
      BY <2>1 DEF ExecReturn
    <3> QED BY <3>1, EntryTypes DEF ProcessesInv, Recorded, ProcessesAssumption
  <2>2. CASE JoinReturn(t)
    <3>1. r2' = 1 /\ pc[t] = "joinRet" /\ t \in Threads
      BY <2>2, <1>1, RunningThread, Zenon DEF JoinReturn, At
    <3>2. callId[t] \in DOMAIN finished
      BY <3>1 DEF ProcessesInv, JoinedNow, Joined, Callers
    <3>3. callId[t] \in 0 .. Len(ejecutables) - 1 /\ Len(ejecutables) \in Nat /\ Len(ejecutables) <= MaxExec
      BY <3>2, EntryTypes DEF ProcessesInv, Recorded
    <3> QED BY <3>1, <3>3 DEF ProcessesAssumption
  <2> QED BY <2>1, <2>2
<1>7. t \in Threads /\ pc'[t] = "user"
  BY <1>1, RunningThread, Zenon
<1>8. Recorded'
  <2>1. callId' \in [Threads -> -1 .. MaxExec - 1]
    BY <1>1, <1>7 DEF ProcessesInv, Recorded, ProcessesAssumption
  <2> QED BY <1>1, <1>5, <1>6, <2>1 DEF ProcessesInv, Recorded
<1>9. inTime \ {t} \in SUBSET Threads
  BY DEF ProcessesInv, Recorded
<1>10. Joined(pc', ejecutables, program, callId', inTime', finished)
  BY <1>1, <1>4, <1>5, <1>7, <1>9, JoinedForgets, Zenon DEF ProcessesInv
<1> QED BY <1>1, <1>3, <1>8, <1>10 DEF ProcessesInv, JoinedNow

\* The running thread goes to sleep in Join or for good.
LEMMA SleepStep ==
  ASSUME ProcessesInv, NEW t, current = t, ~halted, NEW point \in {"joinWait", "exited"}, NEW doomed,
         doomed = toBeDestroyed \/ (point = "exited" /\ doomed = {t}),
         Sleep(t, ready, [pc EXCEPT ![t] = point], doomed)
  PROVE  Scheduled' /\ SameClass([pc EXCEPT ![t] = point], pc')
<1> DEFINE st == [status EXCEPT ![t] = "BLOCKED"]
           at == [pc EXCEPT ![t] = point]
<1>1. /\ t \in Threads /\ status[t] = "RUNNING" /\ pc[t] \in Resumable /\ halted = FALSE
      /\ pc \in [Threads -> Points] /\ Placed(ready, status, pc, toBeDestroyed, {t})
      /\ status \in [Threads -> {"none", "RUNNING", "READY", "BLOCKED"}]
  BY RunningThread, Zenon DEF Placed
<1>2. point \in Points /\ pc[t] # "exited"
  BY <1>1 DEF Points, Resumable
<1>3. Placed(ready, st, at, doomed, {})
  <2>1. /\ st \in [Threads -> {"none", "RUNNING", "READY", "BLOCKED"}] /\ at \in [Threads -> Points]
        /\ st[t] = "BLOCKED" /\ at[t] = point
        /\ \A u \in Threads \ {t} : st[u] = status[u] /\ at[u] = pc[u]
    BY <1>1, <1>2
  <2> HIDE DEF st, at
  <2>2. \A u \in Threads : st[u] = "READY" <=> status[u] = "READY"
    BY <1>1, <2>1
  <2>3. \A u \in Threads :
          /\ st[u] = "none" <=> at[u] = "none"
          /\ st[u] = "READY" => at[u] \in Startable
          /\ st[u] = "RUNNING" => at[u] = "exited"
          /\ st[u] = "BLOCKED" => at[u] \in {"joinWait", "exited"}
    <3> SUFFICES ASSUME NEW u \in Threads
                 PROVE  /\ st[u] = "none" <=> at[u] = "none"
                        /\ st[u] = "READY" => at[u] \in Startable
                        /\ st[u] = "RUNNING" => at[u] = "exited"
                        /\ st[u] = "BLOCKED" => at[u] \in {"joinWait", "exited"}
      OBVIOUS
    <3>1. CASE u = t
      BY <2>1, <3>1
    <3>2. CASE u # t
      <4>1. u \notin {t} /\ st[u] = status[u] /\ at[u] = pc[u]
        BY <2>1, <3>2
      <4>2. /\ status[u] = "none" <=> pc[u] = "none"
            /\ status[u] = "READY" => pc[u] \in Startable
            /\ status[u] = "RUNNING" => pc[u] = "exited"
            /\ status[u] = "BLOCKED" => pc[u] \in {"joinWait", "exited"}
        BY <1>1, <4>1, Zenon DEF Placed
      <4> QED BY <4>1, <4>2
    <3> QED BY <3>1, <3>2
  <2>4. /\ \A u \in doomed : u \in Threads /\ at[u] = "exited"
        /\ \A u, v \in doomed : u = v
    BY <1>1, <1>2, <2>1 DEF Placed
  <2> QED BY <1>1, <2>1, <2>2, <2>3, <2>4 DEF Placed
<1> QED BY <1>1, <1>3, SleepKeeps, Zenon

\* Nachos_Fork makes a thread that runs no program of its own.
LEMMA ForkKeeps ==
  ASSUME ProcessesAssumption, ProcessesInv, NEW t, Fork(t)  PROVE ProcessesInv'
<1>1. /\ current = t /\ ~halted /\ pc[t] = "user"
      /\ UNCHANGED <<ejecutables, archivoAE, r2, history>>
  BY DEF Fork, At
<1>2. PICK new \in Threads : NewThread(t, new, "forkRet", "forkStart")
  BY DEF Fork
<1>3. "forkRet" \in Resumable /\ "forkStart" \in {"execStart", "forkStart"}
  BY DEF Resumable
<1>4. /\ t \in Threads /\ halted = FALSE /\ pc \in [Threads -> Points]
  BY <1>1, RunningThread, Zenon
<1>5. /\ Scheduled' /\ new # t /\ pc[new] = "none" /\ pc'[t] = "forkRet" /\ pc'[new] = "forkStart"
      /\ \A u \in Threads \ {new, t} : pc'[u] = pc[u]
  BY <1>1, <1>2, <1>3, <1>4, NewThreadKeeps, ZenonT(60) DEF ProcessesInv
<1>6. /\ pc'[t] = "forkRet" /\ pc'[new] = "forkStart" /\ \A u \in Threads \ {t, new} : pc'[u] = pc[u]
  BY <1>5
<1>7. Recorded'
  BY <1>1 DEF ProcessesInv, Recorded, history
<1>8. Vector(pc', ejecutables, program, callId, finished)
  BY <1>1, <1>5, <1>6, EntryTypes, Zenon DEF ProcessesInv, Recorded, JoinedNow, Joined, Vector
<1>9. Callers(pc', ejecutables, program, callId, finished)
  BY <1>1, <1>5, <1>6 DEF ProcessesInv, JoinedNow, Joined, Callers
<1>10. Served(pc', ejecutables, callId, inTime, finished)
  BY <1>1, <1>5, <1>6, Zenon DEF ProcessesInv, Recorded, JoinedNow, Joined, Served
<1> QED BY <1>1, <1>5, <1>7, <1>8, <1>9, <1>10 DEF ProcessesInv, JoinedNow, Joined, history

\* Nachos_Exec adds an entry whose thread is the new one.
LEMMA ExecKeeps ==
  ASSUME ProcessesAssumption, ProcessesInv, NEW t, Exec(t)  PROVE ProcessesInv'
<1> DEFINE n == Len(ejecutables)
<1>1. /\ current = t /\ ~halted /\ pc[t] = "user" /\ n < MaxExec /\ archivoAE' = archivoAE + 1
      /\ callId' = [callId EXCEPT ![t] = n] /\ UNCHANGED <<r2, inTime, finished>>
  BY DEF Exec, At
<1>2. PICK new \in Threads :
        /\ NewThread(t, new, "execRet", "execStart")
        /\ ejecutables' = Append(ejecutables, Entry(new))
        /\ program' = [program EXCEPT ![new] = n]
  BY Zenon DEF Exec
<1>3. "execRet" \in Resumable /\ "execStart" \in {"execStart", "forkStart"}
  BY DEF Resumable
<1>4. /\ t \in Threads /\ halted = FALSE /\ pc \in [Threads -> Points]
  BY <1>1, RunningThread, Zenon
<1>5. /\ Scheduled' /\ new # t /\ pc[new] = "none" /\ pc'[t] = "execRet" /\ pc'[new] = "execStart"
      /\ \A u \in Threads \ {new, t} : pc'[u] = pc[u]
  BY <1>1, <1>2, <1>3, <1>4, NewThreadKeeps, Zenon DEF ProcessesInv
<1>6. /\ pc'[t] = "execRet" /\ pc'[new] = "execStart" /\ \A u \in Threads \ {t, new} : pc'[u] = pc[u]
  BY <1>5
<1>7. /\ n \in Nat /\ MaxExec \in Nat /\ Null \notin Threads
      /\ program \in [Threads -> -1 .. MaxExec - 1] /\ callId \in [Threads -> -1 .. MaxExec - 1]
      /\ DOMAIN finished \subseteq 0 .. n - 1 /\ inTime \subseteq Threads
      /\ ejecutables \in Seq(Entries)
  BY EntryTypes DEF ProcessesInv, Recorded, ProcessesAssumption
<1>8. Entry(new) \in Entries /\ Entry(new).hilo = new /\ Entry(new).sem = Null /\ Entry(new).hiloJ = Null
  BY DEF Entry, Entries
<1>9. /\ ejecutables' \in Seq(Entries) /\ Len(ejecutables') = n + 1
      /\ ejecutables'[n + 1] = Entry(new)
      /\ \A i \in 1 .. n : ejecutables'[i] = ejecutables[i]
  BY <1>2, <1>7, <1>8
<1>10. /\ program' \in [Threads -> -1 .. MaxExec - 1] /\ callId' \in [Threads -> -1 .. MaxExec - 1]
       /\ program'[new] = n /\ \A u \in Threads \ {new} : program'[u] = program[u]
       /\ callId'[t] = n /\ \A u \in Threads \ {t} : callId'[u] = callId[u]
  BY <1>1, <1>2, <1>4, <1>7
<1> HIDE DEF n
<1>11. Recorded'
  BY <1>1, <1>7, <1>9, <1>10 DEF ProcessesInv, Recorded, n
<1>12. \A i \in 1 .. n + 1 : i \in 1 .. n \/ i = n + 1
  BY <1>7
<1>13. program[new] = -1
  BY <1>5 DEF ProcessesInv, JoinedNow, Joined, Callers
<1>14. Vector(pc', ejecutables', program', callId', finished)
  <2>1. \A i \in 1 .. n :
          /\ ejecutables[i].sem # Null => /\ pc'[ejecutables[i].sem] = "joinWait"
                                          /\ callId'[ejecutables[i].sem] = i - 1
          /\ i - 1 \in DOMAIN finished \/ program'[ejecutables[i].hilo] = i - 1
          /\ /\ ejecutables[i].hiloJ # Null /\ pc'[ejecutables[i].hiloJ] = "joinWait"
             /\ callId'[ejecutables[i].hiloJ] = i - 1
             => ejecutables[i].sem = ejecutables[i].hiloJ
    <3> TAKE i \in 1 .. n
    <3>1. /\ ejecutables[i].hilo \in Threads /\ ejecutables[i].sem \in Threads \cup {Null}
          /\ ejecutables[i].hiloJ \in Threads \cup {Null}
      BY <1>7, EntryTypes DEF n
    <3>2. i - 1 # -1
      BY <1>7
    <3>3. /\ ejecutables[i].sem # Null => /\ pc[ejecutables[i].sem] = "joinWait"
                                          /\ callId[ejecutables[i].sem] = i - 1
          /\ i - 1 \in DOMAIN finished \/ program[ejecutables[i].hilo] = i - 1
          /\ /\ ejecutables[i].hiloJ # Null /\ pc[ejecutables[i].hiloJ] = "joinWait"
             /\ callId[ejecutables[i].hiloJ] = i - 1
             => ejecutables[i].sem = ejecutables[i].hiloJ
      BY DEF ProcessesInv, JoinedNow, Joined, Vector, n
    <3> HIDE DEF n
    <3> QED BY <1>1, <1>5, <1>6, <1>10, <1>13, <3>1, <3>2, <3>3
  <2>2. n + 1 - 1 = n
    BY <1>7
  <2> SUFFICES ASSUME NEW i \in 1 .. n + 1
               PROVE  /\ ejecutables'[i].sem # Null => /\ pc'[ejecutables'[i].sem] = "joinWait"
                                                       /\ callId'[ejecutables'[i].sem] = i - 1
                      /\ i - 1 \in DOMAIN finished \/ program'[ejecutables'[i].hilo] = i - 1
                      /\ /\ ejecutables'[i].hiloJ # Null /\ pc'[ejecutables'[i].hiloJ] = "joinWait"
                         /\ callId'[ejecutables'[i].hiloJ] = i - 1
                         => ejecutables'[i].sem = ejecutables'[i].hiloJ
    BY <1>9 DEF Vector
  <2>3. CASE i \in 1 .. n
    BY <1>9, <2>1, <2>3
  <2>4. CASE i = n + 1
    <3>1. ejecutables'[i] = Entry(new) /\ i - 1 = n
      BY <1>7, <1>9, <2>4
    <3>2. ejecutables'[i].sem = Null /\ ejecutables'[i].hiloJ = Null /\ ejecutables'[i].hilo = new
      BY <1>8, <3>1
    <3>3. program'[new] = i - 1
      BY <1>10, <3>1
    <3> QED BY <3>2, <3>3
  <2> QED BY <1>12, <2>3, <2>4
<1>15. Callers(pc', ejecutables', program', callId', finished)
  <2> SUFFICES ASSUME NEW u \in Threads
               PROVE  /\ pc'[u] = "joinRet" => callId'[u] \in DOMAIN finished
                      /\ pc'[u] \in {"none", "exited"} => program'[u] = -1
                      /\ pc'[u] \in {"execStart", "execOpen"} => program'[u] # -1
                      /\ pc'[u] = "joinWait" => callId'[u] + 1 \in 1 .. n + 1
                      /\ program'[u] # -1 => /\ program'[u] + 1 \in 1 .. n + 1
                                             /\ ejecutables'[program'[u] + 1].hilo = u
                                             /\ program'[u] \notin DOMAIN finished
    BY <1>9 DEF Callers
  <2>1. /\ pc[u] = "joinRet" => callId[u] \in DOMAIN finished
        /\ pc[u] \in {"none", "exited"} => program[u] = -1
        /\ pc[u] \in {"execStart", "execOpen"} => program[u] # -1
        /\ pc[u] = "joinWait" => callId[u] + 1 \in 1 .. n
        /\ program[u] # -1 => /\ program[u] + 1 \in 1 .. n
                              /\ ejecutables[program[u] + 1].hilo = u
                              /\ program[u] \notin DOMAIN finished
    BY DEF ProcessesInv, JoinedNow, Joined, Callers, n
  <2>2. CASE u = new
    BY <1>6, <1>7, <1>8, <1>9, <1>10, <2>2
  <2>3. CASE u # new
    <3>1. program'[u] = program[u] /\ (pc'[u] = pc[u] \/ (u = t /\ pc'[u] = "execRet"))
      BY <1>6, <1>10, <2>3
    <3>2. pc'[u] \in {"joinRet", "joinWait"} => callId'[u] = callId[u]
      BY <1>6, <1>10
    <3> QED BY <1>7, <1>9, <2>1, <3>1, <3>2
  <2> QED BY <2>2, <2>3
<1>16. Served(pc', ejecutables', callId', inTime, finished)
  <2> SUFFICES ASSUME NEW u \in inTime
               PROVE  /\ pc'[u] \in {"joinWait", "joinRet"}
                      /\ /\ pc'[u] = "joinWait" /\ ejecutables'[callId'[u] + 1].hiloJ = u
                         /\ callId'[u] \in DOMAIN finished
                         => finished[callId'[u]] = Unopened
    BY DEF Served
  <2>1. /\ pc[u] \in {"joinWait", "joinRet"}
        /\ /\ pc[u] = "joinWait" /\ ejecutables[callId[u] + 1].hiloJ = u
           /\ callId[u] \in DOMAIN finished
           => finished[callId[u]] = Unopened
        /\ pc[u] = "joinWait" => callId[u] + 1 \in 1 .. n
    BY <1>7 DEF ProcessesInv, JoinedNow, Joined, Served, Callers, n
  <2>2. u # t /\ u # new /\ u \in Threads
    BY <1>1, <1>5, <1>7, <2>1
  <2> QED BY <1>6, <1>9, <1>10, <2>1, <2>2
<1> QED BY <1>1, <1>5, <1>11, <1>14, <1>15, <1>16 DEF ProcessesInv, JoinedNow, Joined

\* NachosExecThread could not open the executable: Thread::Finish.
LEMMA ExecThreadFailsKeeps ==
  ASSUME ProcessesAssumption, ProcessesInv, NEW t, ExecThreadFails(t)  PROVE ProcessesInv'
<1> DEFINE at == [pc EXCEPT ![t] = "exited"]
           p == program[t]
<1>1. /\ current = t /\ ~halted /\ pc[t] = "execOpen" /\ Sleep(t, ready, at, {t})
      /\ finished' = [i \in DOMAIN finished \cup {p} |-> IF i = p THEN Unopened ELSE finished[i]]
      /\ program' = [program EXCEPT ![t] = -1]
      /\ UNCHANGED <<ejecutables, archivoAE, r2, callId, inTime>>
  BY DEF ExecThreadFails, At
<1>2. Scheduled' /\ SameClass(at, pc')
  BY <1>1, SleepStep, Zenon
<1>3. t \in Threads /\ pc \in [Threads -> Points]
  BY <1>1, RunningThread, Zenon
<1>4. at[t] = "exited" /\ \A u \in Threads \ {t} : at[u] = pc[u]
  BY <1>3
<1>5. /\ Len(ejecutables) \in Nat /\ MaxExec \in Nat /\ Null \notin Threads
      /\ program \in [Threads -> -1 .. MaxExec - 1]
      /\ DOMAIN finished \subseteq 0 .. Len(ejecutables) - 1 /\ inTime \subseteq Threads
      /\ ejecutables \in Seq(Entries)
  BY EntryTypes DEF ProcessesInv, Recorded, ProcessesAssumption
<1>6. /\ p # -1 /\ p + 1 \in 1 .. Len(ejecutables) /\ ejecutables[p + 1].hilo = t
      /\ p \notin DOMAIN finished
  BY <1>1, <1>3 DEF ProcessesInv, JoinedNow, Joined, Callers
<1>7. /\ program' \in [Threads -> -1 .. MaxExec - 1]
      /\ program'[t] = -1 /\ \A u \in Threads \ {t} : program'[u] = program[u]
  BY <1>1, <1>3, <1>5
<1>8. p \in Int /\ p \in 0 .. Len(ejecutables) - 1
  BY <1>3, <1>5, <1>6
<1>9. /\ DOMAIN finished' = DOMAIN finished \cup {p} /\ finished'[p] = Unopened
      /\ \A i \in DOMAIN finished : finished'[i] = finished[i]
  BY <1>1, <1>6
<1> HIDE DEF at, p
<1>10. Recorded'
  BY <1>1, <1>5, <1>7, <1>8, <1>9 DEF ProcessesInv, Recorded
<1>11. Vector(at, ejecutables, program', callId, finished')
  <2> SUFFICES ASSUME NEW i \in 1 .. Len(ejecutables)
               PROVE  /\ ejecutables[i].sem # Null => /\ at[ejecutables[i].sem] = "joinWait"
                                                      /\ callId[ejecutables[i].sem] = i - 1
                      /\ i - 1 \in DOMAIN finished' \/ program'[ejecutables[i].hilo] = i - 1
                      /\ /\ ejecutables[i].hiloJ # Null /\ at[ejecutables[i].hiloJ] = "joinWait"
                         /\ callId[ejecutables[i].hiloJ] = i - 1
                         => ejecutables[i].sem = ejecutables[i].hiloJ
    BY DEF Vector
  <2>1. /\ ejecutables[i].hilo \in Threads /\ ejecutables[i].sem \in Threads \cup {Null}
        /\ ejecutables[i].hiloJ \in Threads \cup {Null}
    BY <1>5, EntryTypes
  <2>2. /\ ejecutables[i].sem # Null => /\ pc[ejecutables[i].sem] = "joinWait"
                                        /\ callId[ejecutables[i].sem] = i - 1
        /\ i - 1 \in DOMAIN finished \/ program[ejecutables[i].hilo] = i - 1
        /\ /\ ejecutables[i].hiloJ # Null /\ pc[ejecutables[i].hiloJ] = "joinWait"
           /\ callId[ejecutables[i].hiloJ] = i - 1
           => ejecutables[i].sem = ejecutables[i].hiloJ
    BY DEF ProcessesInv, JoinedNow, Joined, Vector
  <2> QED BY <1>1, <1>4, <1>7, <1>9, <2>1, <2>2 DEF p
<1>12. Callers(at, ejecutables, program', callId, finished')
  <2> SUFFICES ASSUME NEW u \in Threads
               PROVE  /\ at[u] = "joinRet" => callId[u] \in DOMAIN finished'
                      /\ at[u] \in {"none", "exited"} => program'[u] = -1
                      /\ at[u] \in {"execStart", "execOpen"} => program'[u] # -1
                      /\ at[u] = "joinWait" => callId[u] + 1 \in 1 .. Len(ejecutables)
                      /\ program'[u] # -1 => /\ program'[u] + 1 \in 1 .. Len(ejecutables)
                                             /\ ejecutables[program'[u] + 1].hilo = u
                                             /\ program'[u] \notin DOMAIN finished'
    BY DEF Callers
  <2>1. /\ pc[u] = "joinRet" => callId[u] \in DOMAIN finished
        /\ pc[u] \in {"none", "exited"} => program[u] = -1
        /\ pc[u] \in {"execStart", "execOpen"} => program[u] # -1
        /\ pc[u] = "joinWait" => callId[u] + 1 \in 1 .. Len(ejecutables)
        /\ program[u] # -1 => /\ program[u] + 1 \in 1 .. Len(ejecutables)
                              /\ ejecutables[program[u] + 1].hilo = u
                              /\ program[u] \notin DOMAIN finished
    BY DEF ProcessesInv, JoinedNow, Joined, Callers
  <2>2. CASE u = t
    BY <1>4, <1>7, <2>2
  <2>3. CASE u # t
    BY <1>4, <1>6, <1>7, <1>9, <2>1, <2>3
  <2> QED BY <2>2, <2>3
<1>13. Served(at, ejecutables, callId, inTime, finished')
  <2> SUFFICES ASSUME NEW u \in inTime
               PROVE  /\ at[u] \in {"joinWait", "joinRet"}
                      /\ /\ at[u] = "joinWait" /\ ejecutables[callId[u] + 1].hiloJ = u
                         /\ callId[u] \in DOMAIN finished'
                         => finished'[callId[u]] = Unopened
    BY DEF Served
  <2>1. /\ pc[u] \in {"joinWait", "joinRet"}
        /\ /\ pc[u] = "joinWait" /\ ejecutables[callId[u] + 1].hiloJ = u
           /\ callId[u] \in DOMAIN finished
           => finished[callId[u]] = Unopened
    BY DEF ProcessesInv, JoinedNow, Joined, Served
  <2> QED BY <1>1, <1>4, <1>5, <1>9, <2>1, Zenon
<1>14. Joined(at, ejecutables, program', callId, inTime, finished')
  BY <1>11, <1>12, <1>13 DEF Joined
<1>15. Joined(pc', ejecutables, program', callId, inTime, finished')
  BY <1>2, <1>5, <1>14, JoinedSame
<1> QED BY <1>1, <1>2, <1>10, <1>15 DEF ProcessesInv, JoinedNow

\* Nachos_Join: the caller's semaphore replaces the entry's.
LEMMA JoinKeeps ==
  ASSUME ProcessesAssumption, ProcessesInv, NEW t, Join(t)  PROVE ProcessesInv'
<1> DEFINE at == [pc EXCEPT ![t] = "joinWait"]
           n == Len(ejecutables)
<1>1. /\ current = t /\ ~halted /\ pc[t] = "user" /\ Sleep(t, ready, at, toBeDestroyed)
      /\ UNCHANGED <<archivoAE, r2, program, finished>>
  BY DEF Join, At
<1>2. PICK id \in 0 .. n - 1 :
        /\ ejecutables' = [ejecutables EXCEPT ![id + 1] = [hilo |-> @.hilo, sem |-> t, hiloJ |-> t]]
        /\ callId' = [callId EXCEPT ![t] = id]
        /\ inTime' = IF id \in DOMAIN finished THEN inTime ELSE inTime \cup {t}
  BY Zenon DEF Join
<1>3. Scheduled' /\ SameClass(at, pc')
  BY <1>1, SleepStep, Zenon
<1>4. t \in Threads /\ pc \in [Threads -> Points]
  BY <1>1, RunningThread, Zenon
<1>5. at[t] = "joinWait" /\ \A u \in Threads \ {t} : at[u] = pc[u]
  BY <1>4
<1>6. /\ n \in Nat /\ MaxExec \in Nat /\ Null \notin Threads /\ n <= MaxExec
      /\ callId \in [Threads -> -1 .. MaxExec - 1] /\ inTime \subseteq Threads
      /\ ejecutables \in Seq(Entries)
  BY EntryTypes DEF ProcessesInv, Recorded, ProcessesAssumption
<1>7. id \in Int /\ id + 1 \in 1 .. n /\ id \in -1 .. MaxExec - 1
  BY <1>6
<1>8. /\ ejecutables' \in Seq(Entries) /\ Len(ejecutables') = n
      /\ \A i \in 1 .. n : IF i = id + 1
                           THEN /\ ejecutables'[i].sem = t /\ ejecutables'[i].hiloJ = t
                                /\ ejecutables'[i].hilo = ejecutables[i].hilo
                           ELSE ejecutables'[i] = ejecutables[i]
  BY <1>2, <1>4, <1>6, <1>7, EntryJoined
<1>9. /\ callId' \in [Threads -> -1 .. MaxExec - 1]
      /\ callId'[t] = id /\ \A u \in Threads \ {t} : callId'[u] = callId[u]
  BY <1>2, <1>4, <1>6, <1>7
<1>10. inTime' \in SUBSET Threads /\ \A u \in inTime' : u \in inTime \/ (u = t /\ id \notin DOMAIN finished)
  BY <1>2, <1>4, <1>6
<1> HIDE DEF at, n
<1>11. Recorded'
  BY <1>1, <1>6, <1>8, <1>9, <1>10 DEF ProcessesInv, Recorded, n
<1>12. Vector(at, ejecutables', program, callId', finished)
  <2> SUFFICES ASSUME NEW i \in 1 .. n
               PROVE  /\ ejecutables'[i].sem # Null => /\ at[ejecutables'[i].sem] = "joinWait"
                                                       /\ callId'[ejecutables'[i].sem] = i - 1
                      /\ i - 1 \in DOMAIN finished \/ program[ejecutables'[i].hilo] = i - 1
                      /\ /\ ejecutables'[i].hiloJ # Null /\ at[ejecutables'[i].hiloJ] = "joinWait"
                         /\ callId'[ejecutables'[i].hiloJ] = i - 1
                         => ejecutables'[i].sem = ejecutables'[i].hiloJ
    BY <1>8 DEF Vector
  <2>1. /\ ejecutables[i].hilo \in Threads /\ ejecutables[i].sem \in Threads \cup {Null}
        /\ ejecutables[i].hiloJ \in Threads \cup {Null}
    BY <1>6, EntryTypes DEF n
  <2>2. /\ ejecutables[i].sem # Null => /\ pc[ejecutables[i].sem] = "joinWait"
                                        /\ callId[ejecutables[i].sem] = i - 1
        /\ i - 1 \in DOMAIN finished \/ program[ejecutables[i].hilo] = i - 1
        /\ /\ ejecutables[i].hiloJ # Null /\ pc[ejecutables[i].hiloJ] = "joinWait"
           /\ callId[ejecutables[i].hiloJ] = i - 1
           => ejecutables[i].sem = ejecutables[i].hiloJ
    BY DEF ProcessesInv, JoinedNow, Joined, Vector, n
  <2>3. CASE i = id + 1
    <3>1. id = i - 1
      BY <1>7, <2>3
    <3> QED BY <1>5, <1>8, <1>9, <2>2, <2>3, <3>1
  <2>4. CASE i # id + 1
    <3>1. i - 1 # id /\ ejecutables'[i] = ejecutables[i]
      BY <1>6, <1>7, <1>8, <2>4
    <3> QED BY <1>1, <1>5, <1>9, <2>1, <2>2, <3>1, ZenonT(60)
  <2> QED BY <2>3, <2>4
<1>13. Callers(at, ejecutables', program, callId', finished)
  <2> SUFFICES ASSUME NEW u \in Threads
               PROVE  /\ at[u] = "joinRet" => callId'[u] \in DOMAIN finished
                      /\ at[u] \in {"none", "exited"} => program[u] = -1
                      /\ at[u] \in {"execStart", "execOpen"} => program[u] # -1
                      /\ at[u] = "joinWait" => callId'[u] + 1 \in 1 .. n
                      /\ program[u] # -1 => /\ program[u] + 1 \in 1 .. n
                                            /\ ejecutables'[program[u] + 1].hilo = u
                                            /\ program[u] \notin DOMAIN finished
    BY <1>8 DEF Callers
  <2>1. /\ pc[u] = "joinRet" => callId[u] \in DOMAIN finished
        /\ pc[u] \in {"none", "exited"} => program[u] = -1
        /\ pc[u] \in {"execStart", "execOpen"} => program[u] # -1
        /\ pc[u] = "joinWait" => callId[u] + 1 \in 1 .. n
        /\ program[u] # -1 => /\ program[u] + 1 \in 1 .. n
                              /\ ejecutables[program[u] + 1].hilo = u
                              /\ program[u] \notin DOMAIN finished
    BY DEF ProcessesInv, JoinedNow, Joined, Callers, n
  <2>2. \A i \in 1 .. n : ejecutables'[i].hilo = ejecutables[i].hilo
    BY <1>8
  <2>3. CASE u = t
    BY <1>5, <1>7, <1>9, <2>1, <2>2, <2>3
  <2>4. CASE u # t
    BY <1>5, <1>9, <2>1, <2>2, <2>4
  <2> QED BY <2>3, <2>4
<1>14. Served(at, ejecutables', callId', inTime', finished)
  <2> SUFFICES ASSUME NEW u \in inTime'
               PROVE  /\ at[u] \in {"joinWait", "joinRet"}
                      /\ /\ at[u] = "joinWait" /\ ejecutables'[callId'[u] + 1].hiloJ = u
                         /\ callId'[u] \in DOMAIN finished
                         => finished[callId'[u]] = Unopened
    BY DEF Served
  <2>0. u \in Threads
    BY <1>10, ZenonT(60)
  <2>1. CASE u \in inTime
    <3>1. /\ pc[u] \in {"joinWait", "joinRet"}
          /\ /\ pc[u] = "joinWait" /\ ejecutables[callId[u] + 1].hiloJ = u
             /\ callId[u] \in DOMAIN finished
             => finished[callId[u]] = Unopened
      BY <2>1 DEF ProcessesInv, JoinedNow, Joined, Served
    <3>2. u # t /\ at[u] = pc[u] /\ callId'[u] = callId[u]
      BY <1>1, <1>5, <1>9, <2>0, <3>1
    <3>3. pc[u] = "joinWait" => callId[u] + 1 \in 1 .. n
      BY <2>0 DEF ProcessesInv, JoinedNow, Joined, Callers, n
    <3>4. \A i \in 1 .. n : ejecutables'[i].hiloJ = u => ejecutables[i].hiloJ = u
      BY <1>8, <3>2
    <3> QED BY <3>1, <3>2, <3>3, <3>4
  <2>2. CASE u = t /\ id \notin DOMAIN finished
    BY <1>5, <1>9, <2>2
  <2> QED BY <1>10, <2>1, <2>2
<1>15. Joined(at, ejecutables', program, callId', inTime', finished)
  BY <1>12, <1>13, <1>14 DEF Joined
<1>16. Joined(pc', ejecutables', program, callId', inTime', finished)
  BY <1>3, <1>8, <1>10, <1>15, JoinedSame
<1> QED BY <1>1, <1>3, <1>11, <1>16 DEF ProcessesInv, JoinedNow

\* Appending distinct threads that are not on the list.
LEMMA AppendMany ==
  ASSUME NEW q \in Seq(Threads), NEW w \in Seq(Threads),
         \A i, j \in 1 .. Len(q) : q[i] = q[j] => i = j,
         \A i, j \in 1 .. Len(w) : w[i] = w[j] => i = j,
         \A i \in 1 .. Len(q), j \in 1 .. Len(w) : q[i] # w[j]
  PROVE  /\ q \o w \in Seq(Threads) /\ (q \o w = <<>> <=> q = <<>> /\ w = <<>>)
         /\ \A i, j \in 1 .. Len(q \o w) : (q \o w)[i] = (q \o w)[j] => i = j
         /\ \A u : (\E i \in 1 .. Len(q \o w) : (q \o w)[i] = u)
                       <=> (\E i \in 1 .. Len(q) : q[i] = u) \/ (\E i \in 1 .. Len(w) : w[i] = u)
<1>1. /\ q \o w \in Seq(Threads) /\ Len(q) \in Nat /\ Len(w) \in Nat /\ Len(q \o w) = Len(q) + Len(w)
      /\ \A i \in 1 .. Len(q) + Len(w) :
            (q \o w)[i] = IF i <= Len(q) THEN q[i] ELSE w[i - Len(q)]
  OBVIOUS
<1>2. \A i \in 1 .. Len(q) + Len(w) :
        \/ i \in 1 .. Len(q) /\ (q \o w)[i] = q[i]
        \/ i - Len(q) \in 1 .. Len(w) /\ (q \o w)[i] = w[i - Len(q)]
  BY <1>1
<1>3. /\ \A i \in 1 .. Len(q) : i \in 1 .. Len(q) + Len(w) /\ (q \o w)[i] = q[i]
      /\ \A i \in 1 .. Len(w) : Len(q) + i \in 1 .. Len(q) + Len(w) /\ (q \o w)[Len(q) + i] = w[i]
  BY <1>1
<1>4. \A i, j \in 1 .. Len(q) + Len(w) : (q \o w)[i] = (q \o w)[j] => i = j
  <2> TAKE i, j \in 1 .. Len(q) + Len(w)
  <2> HAVE (q \o w)[i] = (q \o w)[j]
  <2>1. CASE i \in 1 .. Len(q) /\ (q \o w)[i] = q[i]
    BY <1>2, <2>1, Zenon
  <2>2. CASE i - Len(q) \in 1 .. Len(w) /\ (q \o w)[i] = w[i - Len(q)]
    <3>1. j - Len(q) \in 1 .. Len(w) /\ (q \o w)[j] = w[j - Len(q)]
      BY <1>2, <2>2, Zenon
    <3>2. i - Len(q) = j - Len(q)
      BY <2>2, <3>1, Zenon
    <3> QED BY <1>1, <3>2
  <2> QED BY <1>2, <2>1, <2>2
<1>5. q \o w = <<>> <=> q = <<>> /\ w = <<>>
  BY <1>1
<1>6. \A u : (\E i \in 1 .. Len(q) + Len(w) : (q \o w)[i] = u)
                 => (\E i \in 1 .. Len(q) : q[i] = u) \/ (\E i \in 1 .. Len(w) : w[i] = u)
  BY <1>2
<1>7. \A u : (\E i \in 1 .. Len(q) : q[i] = u) \/ (\E i \in 1 .. Len(w) : w[i] = u)
                 => (\E i \in 1 .. Len(q) + Len(w) : (q \o w)[i] = u)
  BY <1>3
<1> QED BY <1>1, <1>4, <1>5, <1>6, <1>7, ZenonT(60)

\* The statuses and places Nachos_Exit leaves: the joiners are ready, the caller is not.
LEMMA ExitPlaces ==
  ASSUME ProcessesAssumption, ProcessesInv, NEW t, current = t, ~halted, pc[t] = "user",
         NEW w \in Woken(t), NEW st, NEW at,
         st = [u \in Threads |-> IF u \in Listed(w) THEN "READY" ELSE status[u]],
         at = [u \in Threads |-> IF u \in Listed(w) THEN "joinRet"
                                 ELSE IF u = t THEN "exited" ELSE pc[u]],
         ExitLeaves(t, ready \o w, st, at)
  PROVE  Scheduled' /\ SameClass(at, pc')
<1>1. /\ t \in Threads /\ status[t] = "RUNNING" /\ pc[t] \in Resumable /\ halted = FALSE
      /\ pc \in [Threads -> Points] /\ Placed(ready, status, pc, toBeDestroyed, {t})
      /\ status \in [Threads -> {"none", "RUNNING", "READY", "BLOCKED"}]
  BY RunningThread, Zenon DEF Placed
<1>2. /\ Waking(t) \subseteq 1 .. Len(ejecutables)
      /\ w \in Seq(Threads) /\ DOMAIN w = 1 .. Len(w)
      /\ \A k, l \in 1 .. Len(w) : w[k] = w[l] => k = l
      /\ \A u : (\E k \in 1 .. Len(w) : w[k] = u)
                    <=> \E i \in Waking(t) : ejecutables[i].sem = u
  BY <1>1, WokenIs, ZenonT(60) DEF ProcessesInv
<1>3. \A i \in Waking(t) : ejecutables[i].sem # Null /\ pc[ejecutables[i].sem] = "joinWait"
  BY <1>2, Zenon DEF Waking, ProcessesInv, JoinedNow, Joined, Vector
<1>4. \A u : u \in Listed(w) <=> \E k \in 1 .. Len(w) : w[k] = u
  BY <1>2, Zenon DEF Listed
<1> DEFINE W == Listed(w)
<1>5. \A u \in W : u \in Threads /\ pc[u] = "joinWait"
  <2>1. \A u \in W : pc[u] = "joinWait"
    <3> TAKE u \in W
    <3>1. \E k \in 1 .. Len(w) : w[k] = u
      BY <1>4
    <3>2. PICK i \in Waking(t) : ejecutables[i].sem = u
      BY <1>2, <3>1, Zenon
    <3> QED BY <1>3, <3>2
  <2>2. \A k \in 1 .. Len(w) : w[k] \in Threads
    BY <1>2
  <2> QED BY <1>4, <2>1, <2>2
<1>6. \A u \in W : status[u] \notin {"READY", "none"} /\ u # t
  BY <1>1, <1>5 DEF Placed, Startable, Resumable
<1>7. /\ ready \in Seq(Threads) /\ \A i, j \in 1 .. Len(ready) : ready[i] = ready[j] => i = j
      /\ \A u \in Threads : status[u] = "READY" <=> \E i \in 1 .. Len(ready) : ready[i] = u
  BY <1>1 DEF Placed
<1> DEFINE q == ready \o w
<1>8. /\ q \in Seq(Threads) /\ (q = <<>> <=> ready = <<>> /\ w = <<>>)
      /\ \A i, j \in 1 .. Len(q) : q[i] = q[j] => i = j
      /\ \A u : (\E i \in 1 .. Len(q) : q[i] = u)
                    <=> (\E i \in 1 .. Len(ready) : ready[i] = u) \/ u \in W
  <2>1. \A i \in 1 .. Len(ready), j \in 1 .. Len(w) : ready[i] # w[j]
    <3> SUFFICES ASSUME NEW i \in 1 .. Len(ready), NEW j \in 1 .. Len(w), ready[i] = w[j]
                 PROVE  FALSE
      OBVIOUS
    <3>1. w[j] \in W
      BY <1>4
    <3>2. status[ready[i]] = "READY"
      BY <1>5, <1>7, <3>1
    <3> QED BY <1>6, <3>1, <3>2
  <2>2. /\ q \in Seq(Threads) /\ (q = <<>> <=> ready = <<>> /\ w = <<>>)
        /\ \A i, j \in 1 .. Len(q) : q[i] = q[j] => i = j
        /\ \A u : (\E i \in 1 .. Len(q) : q[i] = u)
                      <=> \/ \E i \in 1 .. Len(ready) : ready[i] = u
                          \/ \E i \in 1 .. Len(w) : w[i] = u
    BY <1>2, <1>7, <2>1, AppendMany, Zenon
  <2> HIDE DEF W, q
  <2> QED BY <1>4, <2>2, Zenon DEF W
<1> HIDE DEF q, W
<1>9. /\ st \in [Threads -> {"none", "RUNNING", "READY", "BLOCKED"}] /\ at \in [Threads -> Points]
      /\ \A u \in W : st[u] = "READY" /\ at[u] = "joinRet"
      /\ \A u \in Threads \ W : st[u] = status[u]
      /\ at[t] = "exited" /\ \A u \in Threads \ W : u # t => at[u] = pc[u]
  BY <1>1, <1>5, <1>6 DEF W, Points
<1>10. \A u \in Threads : st[u] = "READY" <=> \E i \in 1 .. Len(q) : q[i] = u
  BY <1>7, <1>8, <1>9, ZenonT(60)
<1>11. \A u \in Threads :
         /\ st[u] = "none" <=> at[u] = "none"
         /\ st[u] = "READY" => at[u] \in Startable
         /\ st[u] = "RUNNING" => at[u] = "exited"
         /\ st[u] = "BLOCKED" => at[u] \in {"joinWait", "exited"}
  <2> TAKE u \in Threads
  <2>1. CASE u \in W
    BY <1>9, <2>1 DEF Startable, Resumable
  <2>2. CASE u = t
    BY <1>1, <1>6, <1>9, <2>2
  <2>3. CASE u \notin W /\ u # t
    BY <1>1, <1>9, <2>3 DEF Placed
  <2> QED BY <2>1, <2>2, <2>3
<1>12. /\ \A u \in toBeDestroyed : u \in Threads /\ pc[u] = "exited"
       /\ \A u, v \in toBeDestroyed : u = v
  BY <1>1 DEF Placed
<1>13. \A u \in toBeDestroyed : at[u] = "exited"
  BY <1>5, <1>9, <1>12
<1>14. CASE q # <<>>
  <2>1. Run(q, st, at, toBeDestroyed)
    BY <1>14 DEF ExitLeaves, q
  <2>2. Placed(q, st, at, toBeDestroyed, {})
    BY <1>8, <1>9, <1>10, <1>11, <1>12, <1>13, Zenon DEF Placed
  <2> QED BY <1>1, <1>14, <2>1, <2>2, RunKeeps, ZenonT(60)
<1>15. CASE q = <<>>
  <2>1. Sleep(t, q, at, {t}) /\ ready = <<>> /\ w = <<>>
    BY <1>8, <1>15 DEF ExitLeaves, q
  <2>2. W = {}
    BY <1>4, <2>1 DEF W
  <2>3. at = [pc EXCEPT ![t] = "exited"]
    BY <1>1, <2>2, Zenon DEF W
  <2>4. Sleep(t, ready, [pc EXCEPT ![t] = "exited"], {t})
    BY <1>15, <2>1, <2>3, Zenon
  <2>5. Scheduled' /\ SameClass([pc EXCEPT ![t] = "exited"], pc')
    BY <2>4, SleepStep, ZenonT(60)
  <2> QED BY <2>3, <2>5, Zenon
<1> QED BY <1>14, <1>15

\* Nachos_Exit wakes the joiners of its program and of no other: an older entry that
\* has the same thread belongs to a program that has finished.
LEMMA ExitKeeps ==
  ASSUME ProcessesAssumption, ProcessesInv, NEW t, NEW value, Exit(t, value)  PROVE ProcessesInv'
<1>0. PICK w \in Woken(t) :
        LET st == [u \in Threads |-> IF u \in Listed(w) THEN "READY" ELSE status[u]]
            at == [u \in Threads |-> IF u \in Listed(w) THEN "joinRet"
                                     ELSE IF u = t THEN "exited" ELSE pc[u]]
        IN  ExitLeaves(t, ready \o w, st, at)
  BY Zenon DEF Exit
<1> DEFINE W == Listed(w)
           at == [u \in Threads |-> IF u \in Listed(w) THEN "joinRet"
                                    ELSE IF u = t THEN "exited" ELSE pc[u]]
           n == Len(ejecutables)
           p == program[t]
<1>1. /\ current = t /\ ~halted /\ pc[t] = "user" /\ ejecutables' = AfterExit(t)
      /\ finished' = [i \in DOMAIN finished \cup ({p} \ {-1}) |-> IF i = p THEN value ELSE finished[i]]
      /\ program' = [program EXCEPT ![t] = -1]
      /\ UNCHANGED <<archivoAE, r2, callId, inTime>>
  BY ZenonT(60) DEF Exit, At
<1>2. Scheduled' /\ SameClass(at, pc')
  <2>1. PICK st : /\ st = [u \in Threads |-> IF u \in Listed(w) THEN "READY" ELSE status[u]]
                  /\ ExitLeaves(t, ready \o w, st, at)
    BY <1>0, Zenon
  <2> QED BY <1>1, <2>1, ExitPlaces
<1>3. t \in Threads /\ pc \in [Threads -> Points]
  BY <1>1, RunningThread, Zenon
<1>4. /\ n \in Nat /\ MaxExec \in Nat /\ Null \notin Threads
      /\ program \in [Threads -> -1 .. MaxExec - 1]
      /\ DOMAIN finished \subseteq 0 .. n - 1 /\ inTime \subseteq Threads
      /\ ejecutables \in Seq(Entries) /\ DOMAIN ejecutables = 1 .. n
  BY EntryTypes DEF ProcessesInv, Recorded, ProcessesAssumption
<1>5. /\ Waking(t) \in SUBSET (1 .. n)
      /\ \A u : u \in W <=> \E i \in Waking(t) : ejecutables[i].sem = u
  <2>1. /\ Waking(t) \subseteq 1 .. n /\ DOMAIN w = 1 .. Len(w)
        /\ \A u : (\E k \in 1 .. Len(w) : w[k] = u)
                      <=> \E i \in Waking(t) : ejecutables[i].sem = u
    BY <1>3, WokenIs, ZenonT(60) DEF ProcessesInv
  <2>2. \A u : u \in W <=> \E k \in 1 .. Len(w) : w[k] = u
    BY <2>1 DEF Listed
  <2> QED BY <2>1, <2>2, Zenon
<1>6. \A i \in 1 .. n : i \in Waking(t) <=> ejecutables[i].hilo = t /\ ejecutables[i].sem # Null
  BY <1>4 DEF Waking
<1>7. /\ ejecutables' \in Seq(Entries) /\ Len(ejecutables') = n
      /\ \A i \in 1 .. n : IF i \in Waking(t)
                           THEN /\ ejecutables'[i].sem = Null
                                /\ ejecutables'[i].hiloJ = ejecutables[i].hiloJ
                                /\ ejecutables'[i].hilo = ejecutables[i].hilo
                           ELSE ejecutables'[i] = ejecutables[i]
  BY <1>1, <1>4, AfterExitIs
<1>8. /\ program' \in [Threads -> -1 .. MaxExec - 1]
      /\ program'[t] = -1 /\ \A u \in Threads \ {t} : program'[u] = program[u]
  BY <1>1, <1>3, <1>4
<1>9. p # -1 => /\ p + 1 \in 1 .. n /\ ejecutables[p + 1].hilo = t /\ p \notin DOMAIN finished
  BY <1>3, Zenon DEF ProcessesInv, JoinedNow, Joined, Callers
<1>10. p \in Int /\ (p # -1 => p \in 0 .. n - 1)
  BY <1>3, <1>4, <1>9
<1>11. /\ DOMAIN finished' = DOMAIN finished \cup ({p} \ {-1})
       /\ \A i \in DOMAIN finished : finished'[i] = finished[i]
  <2>1. \A i \in DOMAIN finished : i # p
    BY <1>4, <1>9
  <2> QED BY <1>1, <2>1
<1>12. \A u \in W : u \in Threads /\ pc[u] = "joinWait" /\ callId[u] \in DOMAIN finished'
  <2> TAKE u \in W
  <2>1. PICK i \in Waking(t) : ejecutables[i].sem = u
    BY <1>5
  <2>2. /\ i \in 1 .. n /\ ejecutables[i].hilo = t /\ u # Null
    BY <1>5, <1>6, <2>1, ZenonT(60)
  <2>3. /\ pc[u] = "joinWait" /\ callId[u] = i - 1 /\ (i - 1 \in DOMAIN finished \/ program[t] = i - 1)
    BY <2>1, <2>2, ZenonT(60) DEF ProcessesInv, JoinedNow, Joined, Vector
  <2>4. u \in Threads /\ i - 1 # -1
    BY <1>4, <2>1, <2>2, EntryTypes
  <2>5. i - 1 \in DOMAIN finished'
    BY <1>11, <2>3, <2>4
  <2> QED BY <2>3, <2>4, <2>5, ZenonT(60)
<1>13. /\ at[t] = "exited" /\ \A u \in W : at[u] = "joinRet"
       /\ \A u \in Threads \ W : u # t => at[u] = pc[u]
  BY <1>1, <1>3, <1>12
<1> HIDE DEF at, W, n, p
<1>14. Recorded'
  BY <1>1, <1>4, <1>7, <1>8, <1>10, <1>11, ZenonT(60) DEF ProcessesInv, Recorded, n
<1>15. Vector(at, ejecutables', program', callId, finished')
  <2> SUFFICES ASSUME NEW i \in 1 .. n
               PROVE  /\ ejecutables'[i].sem # Null => /\ at[ejecutables'[i].sem] = "joinWait"
                                                       /\ callId[ejecutables'[i].sem] = i - 1
                      /\ i - 1 \in DOMAIN finished' \/ program'[ejecutables'[i].hilo] = i - 1
                      /\ /\ ejecutables'[i].hiloJ # Null /\ at[ejecutables'[i].hiloJ] = "joinWait"
                         /\ callId[ejecutables'[i].hiloJ] = i - 1
                         => ejecutables'[i].sem = ejecutables'[i].hiloJ
    BY <1>7, ZenonT(60) DEF Vector
  <2>1. /\ ejecutables[i].hilo \in Threads /\ ejecutables[i].sem \in Threads \cup {Null}
        /\ ejecutables[i].hiloJ \in Threads \cup {Null}
    BY <1>4, EntryTypes DEF n
  <2>2. /\ ejecutables[i].sem # Null => /\ pc[ejecutables[i].sem] = "joinWait"
                                        /\ callId[ejecutables[i].sem] = i - 1
        /\ i - 1 \in DOMAIN finished \/ program[ejecutables[i].hilo] = i - 1
        /\ /\ ejecutables[i].hiloJ # Null /\ pc[ejecutables[i].hiloJ] = "joinWait"
           /\ callId[ejecutables[i].hiloJ] = i - 1
           => ejecutables[i].sem = ejecutables[i].hiloJ
    BY Zenon DEF ProcessesInv, JoinedNow, Joined, Vector, n
  <2>3. ejecutables'[i].hilo = ejecutables[i].hilo /\ ejecutables'[i].hiloJ = ejecutables[i].hiloJ
    BY <1>7
  <2>4. i - 1 # -1
    BY <1>4
  <2>5. i - 1 \in DOMAIN finished' \/ program'[ejecutables'[i].hilo] = i - 1
    BY <1>8, <1>11, <2>1, <2>2, <2>3, <2>4 DEF p
  <2>6. \A u \in Threads : at[u] = "joinWait" => pc[u] = "joinWait" /\ u \notin W
    BY <1>13
  <2>7. CASE i \in Waking(t)
    <3>1. ejecutables'[i].sem = Null /\ ejecutables[i].sem \in W /\ ejecutables[i].sem # Null
      BY <1>5, <1>6, <1>7, <2>7
    <3> QED BY <2>1, <2>2, <2>3, <2>5, <2>6, <3>1, ZenonT(60)
  <2>8. CASE i \notin Waking(t)
    <3>1. ejecutables'[i] = ejecutables[i]
      BY <1>7, <2>8
    <3>2. ejecutables[i].sem # Null => ejecutables[i].sem \notin W /\ ejecutables[i].sem # t
      <4> SUFFICES ASSUME ejecutables[i].sem # Null, ejecutables[i].sem \in W PROVE FALSE
        BY <1>1, <2>2, Zenon
      <4>1. PICK j \in Waking(t) : ejecutables[j].sem = ejecutables[i].sem
        BY <1>5, ZenonT(60)
      <4>2. j \in 1 .. n /\ callId[ejecutables[j].sem] = j - 1
        BY <1>5, <1>6, <4>1, ZenonT(60) DEF ProcessesInv, JoinedNow, Joined, Vector, n
      <4>3. j - 1 = i - 1
        BY <2>2, <4>1, <4>2
      <4>4. j = i
        BY <1>4, <4>2, <4>3
      <4> QED BY <2>8, <4>1, <4>4
    <3>3. ejecutables[i].sem # Null => at[ejecutables[i].sem] = "joinWait"
      BY <1>13, <2>1, <2>2, <3>2
    <3> QED BY <2>1, <2>2, <2>3, <2>5, <2>6, <3>1, <3>3, ZenonT(60)
  <2> QED BY <2>7, <2>8
<1>16. Callers(at, ejecutables', program', callId, finished')
  <2> SUFFICES ASSUME NEW u \in Threads
               PROVE  /\ at[u] = "joinRet" => callId[u] \in DOMAIN finished'
                      /\ at[u] \in {"none", "exited"} => program'[u] = -1
                      /\ at[u] \in {"execStart", "execOpen"} => program'[u] # -1
                      /\ at[u] = "joinWait" => callId[u] + 1 \in 1 .. n
                      /\ program'[u] # -1 => /\ program'[u] + 1 \in 1 .. n
                                             /\ ejecutables'[program'[u] + 1].hilo = u
                                             /\ program'[u] \notin DOMAIN finished'
    BY <1>7 DEF Callers
  <2>1. /\ pc[u] = "joinRet" => callId[u] \in DOMAIN finished
        /\ pc[u] \in {"none", "exited"} => program[u] = -1
        /\ pc[u] \in {"execStart", "execOpen"} => program[u] # -1
        /\ pc[u] = "joinWait" => callId[u] + 1 \in 1 .. n
        /\ program[u] # -1 => /\ program[u] + 1 \in 1 .. n
                              /\ ejecutables[program[u] + 1].hilo = u
                              /\ program[u] \notin DOMAIN finished
    BY Zenon DEF ProcessesInv, JoinedNow, Joined, Callers, n
  <2>2. \A i \in 1 .. n : ejecutables'[i].hilo = ejecutables[i].hilo
    BY <1>7
  <2>3. CASE u = t
    BY <1>8, <1>13, <2>3, ZenonT(60)
  <2>4. CASE u # t
    <3>1. program'[u] = program[u]
      BY <1>8, <2>4
    <3>2. program[u] # -1 => program[u] # p
      BY <1>9, <2>1, <2>4, ZenonT(60)
    <3>3. program'[u] # -1 => /\ program'[u] + 1 \in 1 .. n
                              /\ ejecutables'[program'[u] + 1].hilo = u
                              /\ program'[u] \notin DOMAIN finished'
      BY <1>11, <2>1, <2>2, <3>1, <3>2
    <3>4. CASE u \in W
      BY <1>12, <1>13, <3>3, <3>4, ZenonT(60)
    <3>5. CASE u \notin W
      BY <1>11, <1>13, <2>1, <2>4, <3>1, <3>3, <3>5
    <3> QED BY <3>4, <3>5
  <2> QED BY <2>3, <2>4, ZenonT(60)
<1>17. Served(at, ejecutables', callId, inTime, finished')
  <2> SUFFICES ASSUME NEW u \in inTime
               PROVE  /\ at[u] \in {"joinWait", "joinRet"}
                      /\ /\ at[u] = "joinWait" /\ ejecutables'[callId[u] + 1].hiloJ = u
                         /\ callId[u] \in DOMAIN finished'
                         => finished'[callId[u]] = Unopened
    BY DEF Served
  <2>1. /\ pc[u] \in {"joinWait", "joinRet"}
        /\ /\ pc[u] = "joinWait" /\ ejecutables[callId[u] + 1].hiloJ = u
           /\ callId[u] \in DOMAIN finished
           => finished[callId[u]] = Unopened
    BY DEF ProcessesInv, JoinedNow, Joined, Served
  <2>2. u \in Threads /\ u # t
    BY <1>1, <1>4, <2>1
  <2>3. CASE u \in W
    BY <1>13, <2>3
  <2>4. CASE u \notin W
    <3>1. at[u] = pc[u]
      BY <1>13, <2>2, <2>4
    <3> SUFFICES ASSUME at[u] = "joinWait", ejecutables'[callId[u] + 1].hiloJ = u,
                        callId[u] \in DOMAIN finished'
                 PROVE  finished'[callId[u]] = Unopened
      BY <2>1, <3>1
    <3> DEFINE i == callId[u] + 1
    <3>2. i \in 1 .. n /\ callId[u] = i - 1
      <4>1. i \in 1 .. n
        BY <2>2, <3>1, ZenonT(60) DEF ProcessesInv, JoinedNow, Joined, Callers, n
      <4>2. callId[u] \in Int
        BY <2>2 DEF ProcessesInv, Recorded
      <4> QED BY <4>1, <4>2
    <3>3. ejecutables[i].hiloJ = u
      BY <1>7, <3>2, ZenonT(60)
    <3>4. ejecutables[i].sem = u
      <4> HIDE DEF i
      <4> QED BY <1>4, <2>2, <3>1, <3>2, <3>3, ZenonT(60) DEF ProcessesInv, JoinedNow, Joined, Vector, n
    <3>5. ejecutables[i].hilo # t
      <4> HIDE DEF i
      <4> QED BY <1>4, <1>5, <1>6, <2>2, <2>4, <3>2, <3>4
    <3> HIDE DEF i
    <3>6. callId[u] # p
      <4> SUFFICES ASSUME callId[u] = p PROVE FALSE
        OBVIOUS
      <4>1. p # -1 /\ p + 1 = i
        BY <1>4, <3>2
      <4> QED BY <1>9, <3>5, <4>1, Zenon
    <3>7. callId[u] \in DOMAIN finished
      BY <1>11, <3>6
    <3>8. ejecutables[callId[u] + 1].hiloJ = u
      BY <3>3 DEF i
    <3> QED BY <1>11, <2>1, <3>1, <3>7, <3>8
  <2> QED BY <2>3, <2>4, ZenonT(60)
<1>18. Joined(at, ejecutables', program', callId, inTime, finished')
  BY <1>15, <1>16, <1>17 DEF Joined
<1>19. Joined(pc', ejecutables', program', callId, inTime, finished')
  BY <1>2, <1>4, <1>7, <1>18, JoinedSame
<1> QED BY <1>1, <1>2, <1>14, <1>19 DEF ProcessesInv, JoinedNow

\* Every system call and every time slice keeps the invariant.
LEMMA ProcessesStep ==
  ASSUME ProcessesAssumption, ProcessesInv, [Next]_vars  PROVE ProcessesInv'
<1>1. CASE UNCHANGED vars
  <2>1. /\ UNCHANGED <<current, ready, status, pc, toBeDestroyed, halted>>
        /\ UNCHANGED <<ejecutables, archivoAE, r2, program, callId, inTime, finished>>
    BY <1>1 DEF vars, kernel, history
  <2>2. Scheduled'
    BY <2>1 DEF ProcessesInv, Scheduled, Placed
  <2>3. Recorded'
    BY <2>1 DEF ProcessesInv, Recorded
  <2>4. JoinedNow'
    BY <2>1, Zenon DEF ProcessesInv, JoinedNow
  <2> QED BY <2>2, <2>3, <2>4 DEF ProcessesInv
<1>2. CASE Next
  <2>1. PICK t \in Threads : Step(t)
    BY <1>2 DEF Next
  <2>2. CASE \E value \in Statuses : Exit(t, value)
    BY <2>2, ExitKeeps
  <2> QED BY <2>1, <2>2, PreemptKeeps, ExecKeeps, ReturnKeeps, ThreadStartsKeeps, ExecThreadFailsKeeps,
             JoinKeeps, JoinUnknownKeeps, ForkKeeps, ForkYieldsKeeps, HaltKeeps DEF Step
<1> QED BY <1>1, <1>2

\* The thread of StartProcess starts alone, with no entry in ejecutables.
LEMMA ProcessesInit == ProcessesAssumption /\ Init => ProcessesInv
<1> SUFFICES ASSUME ProcessesAssumption, Init PROVE ProcessesInv
  OBVIOUS
<1>1. ready = <<>> /\ ready \in Seq(Threads) /\ Len(ready) = 0
  BY DEF Init
<1>2. /\ status \in [Threads -> {"none", "RUNNING", "READY", "BLOCKED"}] /\ pc \in [Threads -> Points]
      /\ \A t \in Threads : IF t = Main THEN status[t] = "RUNNING" /\ pc[t] = "user"
                            ELSE status[t] = "none" /\ pc[t] = "none"
      /\ toBeDestroyed = {} /\ current = Main /\ Main \in Threads /\ halted = FALSE
  BY DEF Init, ProcessesAssumption, Points
<1>3. "user" \in Resumable
  BY DEF Resumable
<1>4. Scheduled
  <2>1. \A i \in 1 .. Len(ready) : FALSE
    BY <1>1
  <2>2. \A t \in Threads : status[t] \in {"RUNNING", "none"} /\ (status[t] = "RUNNING" => t = Main)
                           /\ (status[t] = "none" <=> pc[t] = "none")
    BY <1>2
  <2>3. Placed(ready, status, pc, toBeDestroyed, {Main})
    BY <1>1, <1>2, <1>3, <2>1, <2>2 DEF Placed
  <2> QED BY <1>2, <2>3, Zenon DEF Scheduled
<1>5. /\ ejecutables = <<>> /\ ejecutables \in Seq(Entries) /\ Len(ejecutables) = 0
      /\ archivoAE = -1 /\ r2 = 0 /\ inTime = {} /\ DOMAIN finished = {}
      /\ program = [t \in Threads |-> -1] /\ callId = [t \in Threads |-> -1]
  BY DEF Init, InitialAE
<1>6. Recorded
  BY <1>5 DEF Recorded, ProcessesAssumption
<1>7. \A t \in Threads : program[t] = -1 /\ pc[t] \in {"user", "none"}
  BY <1>2, <1>5
<1>8. Joined(pc, ejecutables, program, callId, inTime, finished)
  BY <1>2, <1>5, <1>7 DEF Joined, Vector, Callers, Served
<1> QED BY <1>4, <1>6, <1>8 DEF ProcessesInv, JoinedNow

\* The invariant says all that is promised of Join.
LEMMA ProcessesAreHonest ==
  ASSUME ProcessesAssumption, ProcessesInv  PROVE JoinIsHonest
<1>1. /\ ready \in Seq(Threads) /\ Len(ready) \in Nat /\ DOMAIN ready = 1 .. Len(ready)
      /\ \A i, j \in 1 .. Len(ready) : ready[i] = ready[j] => i = j
      /\ \A t \in Threads : status[t] = "READY" <=> t \in Listed(ready)
  BY DEF ProcessesInv, Scheduled, Placed, Listed
<1>3. toBeDestroyed \in SUBSET Threads /\ \A t, u \in toBeDestroyed : t = u
  BY DEF ProcessesInv, Scheduled, Placed
<1>4. /\ Len(ejecutables) \in Nat /\ DOMAIN ejecutables = 1 .. Len(ejecutables)
      /\ \A i \in 1 .. Len(ejecutables) : /\ ejecutables[i].hilo \in Threads
                                          /\ ejecutables[i].sem \in Threads \cup {Null}
                                          /\ ejecutables[i].hiloJ \in Threads \cup {Null}
  BY EntryTypes DEF ProcessesInv, Recorded
<1>5. TypeOK
  <2>1. DOMAIN finished \subseteq 0 .. MaxExec - 1
    BY <1>4 DEF ProcessesInv, Recorded, ProcessesAssumption
  <2>2. \A i \in DOMAIN ejecutables :
          /\ ejecutables[i].hilo \in Threads
          /\ {ejecutables[i].sem, ejecutables[i].hiloJ} \subseteq Threads \cup {Null}
    BY <1>4
  <2> QED BY <1>3, <2>1, <2>2 DEF TypeOK, ProcessesInv, Recorded, Scheduled, Placed
<1>6. ReadyExactlyOnce
  BY <1>1 DEF ReadyExactlyOnce
<1>7. ExitedNeverRuns
  <2> SUFFICES ASSUME NEW t \in Threads, pc[t] = "exited", ~halted
               PROVE  t # current /\ t \notin Listed(ready)
    BY DEF ExitedNeverRuns
  <2>1. t # current
    BY DEF ProcessesInv, Scheduled, Placed, Resumable
  <2>2. status[t] # "READY"
    BY ZenonT(60) DEF ProcessesInv, Scheduled, Placed, Startable, Resumable
  <2> QED BY <1>1, <2>1, <2>2
<1>8. SemNamesWaiter
  BY <1>4, ZenonT(60) DEF SemNamesWaiter, ProcessesInv, JoinedNow, Joined, Vector
<1>9. JoinWaitsForFinish
  BY ZenonT(60) DEF JoinWaitsForFinish, ProcessesInv, JoinedNow, Joined, Callers
<1>10. LastJoinerIsServed
  BY DEF LastJoinerIsServed, ProcessesInv, JoinedNow, Joined, Served
<1> QED BY <1>5, <1>6, <1>7, <1>8, <1>9, <1>10, ZenonT(60) DEF JoinIsHonest

\* Nachos_Join returns only after the program it names has finished, and the last
\* thread that joined in time is woken, whatever the time slice does to Exec, Join and
\* Exit and however often the address of a Thread object is used again.
THEOREM JoinHonest ==
  ASSUME ProcessesAssumption
  PROVE  Spec => []JoinIsHonest
<1>1. Init => ProcessesInv
  BY ProcessesInit
<1>2. ProcessesInv /\ [Next]_vars => ProcessesInv'
  BY ProcessesStep
<1>3. ProcessesInv => JoinIsHonest
  BY ProcessesAreHonest
<1> QED BY <1>1, <1>2, <1>3, PTL DEF Spec
======================================================================
