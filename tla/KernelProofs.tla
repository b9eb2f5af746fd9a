---------------------------- MODULE KernelProofs ----------------------------
(***************************************************************************)
(* For any number of threads and semaphores (module Kernel): no thread is  *)
(* lost or in two places, a thread is deleted only after it has finished,  *)
(* the machine halts only when nothing can go on, and each semaphore under *)
(* the scheduler is one of module Semaphore.                               *)
(***************************************************************************)
EXTENDS Kernel, FiniteSetTheorems, TLAPS

\* q has every member of S once and nothing else.
Lists(q, S) ==
    /\ q \in Seq(Thread)
    /\ S \subseteq Thread
    /\ \A i, j \in 1..Len(q) : q[i] = q[j] => i = j
    /\ \A i \in 1..Len(q) : q[i] \in S
    /\ \A t \in S : \E i \in 1..Len(q) : q[i] = t

Ready == {t \in Thread : status[t] = "READY"}
Blocked(s) == {t \in Thread : status[t] = "BLOCKED" /\ at[t] = s}

\* Who runs, and where: with interrupts enabled the current thread is in its
\* body; the thread to be destroyed and the deleted ones are inside Finish.
Places ==
    /\ \A t \in Thread : status[t] = "RUNNING" => t = currentThread
    /\ level = "IntOn" => status[currentThread] = "RUNNING" /\ at[currentThread] = "Body"
    /\ threadToBeDestroyed # NULL =>
          status[threadToBeDestroyed] = "BLOCKED" /\ at[threadToBeDestroyed] = "Finish"
    /\ \A t \in Thread : status[t] = "DELETED" => at[t] = "Finish"

Listed == Lists(readyList, Ready) /\ \A s \in Sem : Lists(queue[s], Blocked(s))

IInv == TypeOK /\ Listed /\ Places
-----------------------------------------------------------------------------
(* List<Thread *> as ReadyToRun, FindNextToRun, P and V use it.            *)

\* List::Append of a thread that is not there.
LEMMA ListsAppend ==
  ASSUME NEW q, NEW S, NEW e \in Thread, Lists(q, S), e \notin S
  PROVE  Lists(Append(q, e), S \cup {e})
<1> DEFINE r == Append(q, e)
           n == Len(q)
<1>0. q \in Seq(Thread) /\ n \in Nat
  BY DEF Lists
<1>1. r \in Seq(Thread) /\ Len(r) = n + 1 /\ r[n + 1] = e /\ \A i \in 1..n : r[i] = q[i]
  BY <1>0
<1>2. \A i \in 1..n : q[i] \in S /\ q[i] # e
  BY DEF Lists
<1>3. ASSUME NEW i \in 1..n + 1, NEW j \in 1..n + 1, r[i] = r[j] PROVE i = j
  <2>1. CASE i \in 1..n /\ j \in 1..n
    BY <2>1, <1>1, <1>3 DEF Lists
  <2>2. CASE i = n + 1 /\ j \in 1..n
    BY <2>2, <1>1, <1>2, <1>3
  <2>3. CASE j = n + 1 /\ i \in 1..n
    BY <2>3, <1>1, <1>2, <1>3
  <2>4. CASE i = n + 1 /\ j = n + 1
    BY <2>4
  <2> QED BY <2>1, <2>2, <2>3, <2>4, <1>0
<1>4. \A i \in 1..n + 1 : r[i] \in S \cup {e}
  BY <1>0, <1>1, <1>2
<1>5. ASSUME NEW t \in S \cup {e} PROVE \E i \in 1..n + 1 : r[i] = t
  <2>1. CASE t = e
    BY <2>1, <1>0, <1>1
  <2>2. CASE t \in S
    <3>1. PICK i \in 1..n : q[i] = t
      BY <2>2 DEF Lists
    <3> QED BY <3>1, <1>0, <1>1
  <2> QED BY <2>1, <2>2
<1>6. S \cup {e} \subseteq Thread
  BY DEF Lists
<1> HIDE DEF r, n
<1>7. Lists(r, S \cup {e})
  BY <1>1, <1>3, <1>4, <1>5, <1>6 DEF Lists
<1> QED BY <1>7 DEF r

\* List::Remove takes the first.
LEMMA ListsTail ==
  ASSUME NEW q, NEW S, Lists(q, S), q # <<>>
  PROVE  Head(q) \in S /\ Head(q) \in Thread /\ Lists(Tail(q), S \ {Head(q)})
<1> DEFINE r == Tail(q)
           h == Head(q)
           n == Len(q)
<1>0. q \in Seq(Thread) /\ n \in Nat \ {0} /\ h = q[1] /\ 1 \in 1..n
  BY DEF Lists
<1>1. r \in Seq(Thread) /\ Len(r) = n - 1 /\ \A i \in 1..n - 1 : r[i] = q[i + 1] /\ i + 1 \in 1..n
  BY <1>0
<1>2. h \in S /\ h \in Thread /\ S \ {h} \subseteq Thread
  BY <1>0 DEF Lists
<1>3. ASSUME NEW i \in 1..n - 1, NEW j \in 1..n - 1, r[i] = r[j] PROVE i = j
  <2>1. i + 1 = j + 1
    BY <1>1, <1>3 DEF Lists
  <2> QED BY <2>1, <1>0
<1>4. ASSUME NEW i \in 1..n - 1 PROVE r[i] \in S \ {h}
  <2>1. q[i + 1] \in S
    BY <1>1 DEF Lists
  <2>2. ASSUME q[i + 1] = q[1] PROVE FALSE
    <3>1. i + 1 = 1
      BY <2>2, <1>0, <1>1 DEF Lists
    <3> QED BY <3>1, <1>0
  <2> QED BY <2>1, <2>2, <1>0, <1>1
<1>5. ASSUME NEW t \in S \ {h} PROVE \E i \in 1..n - 1 : r[i] = t
  <2>1. PICK i \in 1..n : q[i] = t
    BY DEF Lists
  <2>2. i # 1
    BY <2>1, <1>0
  <2>3. i - 1 \in 1..n - 1 /\ r[i - 1] = t
    BY <2>1, <2>2, <1>0, <1>1
  <2> QED BY <2>3
<1> HIDE DEF r, n
<1>6. Lists(r, S \ {h})
  BY <1>1, <1>2, <1>3, <1>4, <1>5 DEF Lists
<1> QED BY <1>2, <1>6 DEF r

\* An empty list has nobody.
LEMMA ListsEmpty == ASSUME NEW S, Lists(<<>>, S) PROVE S = {}
<1>1. \A t \in S : \E i \in 1..0 : <<>>[i] = t
  BY DEF Lists
<1>2. 1..0 = {}
  OBVIOUS
<1> QED BY <1>1, <1>2

\* A listed thread is counted once.
LEMMA ListsCount ==
  ASSUME NEW q, NEW S, NEW t \in Thread, Lists(q, S)
  PROVE  Times(t, q) = IF t \in S THEN 1 ELSE 0
<1>1. CASE t \in S
  <2>1. PICK i \in 1..Len(q) : q[i] = t
    BY <1>1 DEF Lists
  <2>2. {j \in 1..Len(q) : q[j] = t} = {i}
    BY <2>1 DEF Lists
  <2>3. Cardinality({i}) = 1
    BY FS_Singleton, Zenon
  <2> QED BY <1>1, <2>2, <2>3, Zenon DEF Times
<1>2. CASE t \notin S
  <2>1. {j \in 1..Len(q) : q[j] = t} = {}
    BY <1>2 DEF Lists
  <2>2. Cardinality({}) = 0
    BY FS_EmptySet
  <2> QED BY <1>2, <2>1, <2>2, Zenon DEF Times
<1> QED BY <1>1, <1>2
-----------------------------------------------------------------------------
(* The invariant.                                                          *)

\* It holds when Initialize is done (system.cc).
LEMMA InitLemma == Init => IInv
<1> SUFFICES ASSUME Init PROVE IInv
  OBVIOUS
<1>1. TypeOK
  <2>1. status \in [Thread -> ThreadStatus] /\ at \in [Thread -> Place]
    BY DEF Init, ThreadStatus, Place
  <2>2. queue \in [Sem -> Seq(Thread)] /\ pending \in [Sem -> Nat] /\ value \in [Sem -> Nat]
    BY KernelAssumption DEF Init
  <2>3. readyList \in Seq(Thread)
    BY DEF Init
  <2> QED BY <2>1, <2>2, <2>3, KernelAssumption, Zenon DEF Init, TypeOK
<1>2. Ready = {} /\ \A s \in Sem : Blocked(s) = {}
  BY DEF Init, Ready, Blocked
<1>3. Lists(<<>>, {})
  BY DEF Lists
<1>4. Listed
  BY <1>2, <1>3, Zenon DEF Init, Listed
<1>5. Places
  BY KernelAssumption DEF Init, Places
<1> QED BY <1>1, <1>4, <1>5 DEF IInv

\* A step that changes no thread and no list keeps it.
LEMMA Quiet ==
  ASSUME IInv, TypeOK', UNCHANGED <<threadVars, level, queue>>
  PROVE  IInv'
<1>1. Ready' = Ready /\ \A s \in Sem : Blocked(s)' = Blocked(s)
  BY DEF threadVars, Ready, Blocked
<1>2. Listed'
  BY <1>1 DEF IInv, Listed, threadVars
<1>3. Places'
  BY DEF IInv, Places, threadVars
<1> QED BY <1>2, <1>3 DEF IInv

\* Semaphore::V (synch.cc:88-99): the first sleeper goes from the semaphore's
\* queue to the ready list.
LEMMA WakeLemma ==
  ASSUME NEW s \in Sem, IInv, DoV(s),
         UNCHANGED <<currentThread, at, threadToBeDestroyed, level>>,
         yieldOnReturn' \in BOOLEAN, idling' \in BOOLEAN, pending' \in [Sem -> Nat], halted' \in BOOLEAN
  PROVE  IInv'
<1> USE DEF IInv
<1>0. value' = [value EXCEPT ![s] = @ + 1] /\ value' \in [Sem -> Nat]
  BY DEF DoV, WakeOne, TypeOK
<1>1. CASE queue[s] = <<>>
  <2>1. UNCHANGED <<queue, status, readyList>>
    BY <1>1 DEF DoV, WakeOne
  <2>2. TypeOK'
    BY <1>0, <2>1 DEF TypeOK
  <2> QED BY <2>1, <2>2, Quiet DEF threadVars
<1>2. CASE queue[s] # <<>>
  <2> DEFINE h == Head(queue[s])
  <2>1. /\ queue' = [queue EXCEPT ![s] = Tail(@)]
        /\ status' = [status EXCEPT ![h] = "READY"]
        /\ readyList' = Append(readyList, h)
    BY <1>2 DEF DoV, WakeOne
  <2>2. h \in Blocked(s) /\ h \in Thread /\ Lists(Tail(queue[s]), Blocked(s) \ {h})
    BY <1>2, ListsTail, Zenon DEF Listed
  <2>3. status[h] = "BLOCKED" /\ at[h] = s
    BY <2>2 DEF Blocked
  <2>4. Ready' = Ready \cup {h} /\ h \notin Ready
    BY <2>1, <2>2, <2>3 DEF Ready, TypeOK
  <2>5. /\ Blocked(s)' = Blocked(s) \ {h}
        /\ \A x \in Sem \ {s} : Blocked(x)' = Blocked(x)
    BY <2>1, <2>2, <2>3 DEF Blocked, TypeOK
  <2>6. Lists(readyList, Ready)'
    BY <2>1, <2>2, <2>4, ListsAppend DEF Listed
  <2>7. ASSUME NEW x \in Sem PROVE Lists(queue'[x], Blocked(x)')
    BY <2>1, <2>2, <2>5, Zenon DEF Listed, TypeOK
  <2>8. TypeOK'
    <3>1. queue' \in [Sem -> Seq(Thread)]
      BY <2>1, <2>2 DEF TypeOK, Lists
    <3>2. readyList' \in Seq(Thread) /\ status' \in [Thread -> ThreadStatus]
      BY <2>1, <2>2 DEF TypeOK, ThreadStatus
    <3> QED BY <1>0, <3>1, <3>2, Zenon DEF TypeOK
  <2>9. Places'
    <3>1. threadToBeDestroyed # NULL => threadToBeDestroyed # h
      BY <2>3, KernelAssumption DEF Places
    <3>2. level = "IntOn" => currentThread # h
      BY <2>3 DEF Places
    <3> QED BY <2>1, <2>2, <3>1, <3>2 DEF Places, TypeOK
  <2> QED BY <2>6, <2>7, <2>8, <2>9 DEF Listed
<1> QED BY <1>1, <1>2

\* "delete threadToBeDestroyed" in Run (scheduler.cc:123-126) touches no list.
LEMMA ReapLemma ==
  ASSUME IInv
  PROVE  /\ Reaped \in [Thread -> ThreadStatus]
         /\ \A t \in Thread : \/ Reaped[t] = status[t]
                              \/ status[t] = "BLOCKED" /\ at[t] = "Finish" /\ Reaped[t] = "DELETED"
  BY DEF IInv, TypeOK, Places, Reaped, ThreadStatus

\* One turn of the loop of Semaphore::P (synch.cc:69-73) by the running thread,
\* on its call and after it was woken.
LEMMA TakeLemma ==
  ASSUME NEW s \in Sem, IInv, NEW alive, alive \in [Thread -> ThreadStatus],
         \A t \in Thread : \/ alive[t] = status[t]
                           \/ status[t] = "BLOCKED" /\ at[t] = "Finish" /\ alive[t] = "DELETED",
         status[currentThread] = "RUNNING",
         DoP(s, alive),
         \/ alive = status /\ threadToBeDestroyed' = threadToBeDestroyed
         \/ threadToBeDestroyed' = NULL,
         UNCHANGED <<currentThread, readyList, yieldOnReturn, idling, pending, halted>>
  PROVE  IInv'
<1> USE DEF IInv
<1>0. PICK c \in Thread : c = currentThread /\ c = currentThread'
  BY DEF TypeOK
<1>1. alive[c] = "RUNNING" /\ status[c] = "RUNNING"
  BY <1>0
<1>2. s \notin {"ThreadRoot", "Body", "Yield", "Finish"}
  BY KernelAssumption
<1>3. CASE value[s] = 0
  <2>1. /\ queue' = [queue EXCEPT ![s] = Append(@, c)]
        /\ status' = [alive EXCEPT ![c] = "BLOCKED"]
        /\ at' = [at EXCEPT ![c] = s] /\ level' = "IntOff" /\ value' = value
    BY <1>0, <1>3 DEF DoP, TestAndTake
  <2>2. Ready' = Ready
    BY <1>1, <2>1 DEF Ready, TypeOK
  <2>3. /\ Blocked(s)' = Blocked(s) \cup {c} /\ c \notin Blocked(s)
        /\ \A x \in Sem \ {s} : Blocked(x)' = Blocked(x)
    BY <1>1, <1>2, <2>1, KernelAssumption DEF Blocked, TypeOK
  <2>4. Lists(Append(queue[s], c), Blocked(s) \cup {c})
    BY <2>3, ListsAppend DEF Listed
  <2>5. ASSUME NEW x \in Sem PROVE Lists(queue'[x], Blocked(x)')
    BY <2>1, <2>3, <2>4, Zenon DEF Listed, TypeOK
  <2>6. TypeOK'
    <3>1. queue' \in [Sem -> Seq(Thread)]
      BY <2>1 DEF TypeOK
    <3>2. status' \in [Thread -> ThreadStatus] /\ at' \in [Thread -> Place]
      BY <2>1 DEF TypeOK, ThreadStatus, Place
    <3> QED BY <2>1, <3>1, <3>2, <1>0 DEF TypeOK
  <2>7. Places'
    BY <1>0, <1>1, <2>1, KernelAssumption DEF Places, TypeOK
  <2> QED BY <2>2, <2>5, <2>6, <2>7 DEF Listed
<1>4. CASE value[s] # 0
  <2>1. /\ value' = [value EXCEPT ![s] = @ - 1] /\ status' = alive
        /\ at' = [at EXCEPT ![c] = "Body"] /\ level' = "IntOn" /\ queue' = queue
    BY <1>0, <1>4 DEF DoP, TestAndTake
  <2>2. Ready' = Ready
    BY <1>1, <2>1 DEF Ready, TypeOK
  <2>3. \A x \in Sem : Blocked(x)' = Blocked(x)
    BY <1>1, <2>1, KernelAssumption DEF Blocked, TypeOK
  <2>4. Listed'
    BY <2>1, <2>2, <2>3 DEF Listed
  <2>5. TypeOK'
    <3>1. value' \in [Sem -> Nat]
      BY <1>4, <2>1 DEF TypeOK
    <3>2. at' \in [Thread -> Place]
      BY <2>1 DEF TypeOK, Place
    <3> QED BY <2>1, <3>1, <3>2, <1>0 DEF TypeOK
  <2>6. Places'
    BY <1>0, <1>1, <2>1, KernelAssumption DEF Places, TypeOK
  <2> QED BY <2>4, <2>5, <2>6
<1> QED BY <1>3, <1>4

\* new Thread and Fork (thread.cc:35-48, 90-107).
LEMMA CreateLemma ==
  ASSUME NEW t \in Thread, IInv, NewThread(t) \/ Fork(t) PROVE IInv'
<1> USE DEF IInv
<1>1. CASE NewThread(t)
  <2>1. /\ status[t] = "UNUSED" /\ status' = [status EXCEPT ![t] = "JUST_CREATED"]
        /\ UNCHANGED <<currentThread, at, readyList, threadToBeDestroyed, interruptVars, semVars>>
    BY <1>1 DEF NewThread
  <2>2. Ready' = Ready /\ \A s \in Sem : Blocked(s)' = Blocked(s)
    BY <2>1 DEF Ready, Blocked, TypeOK
  <2>3. TypeOK'
    BY <2>1 DEF TypeOK, ThreadStatus, interruptVars, semVars
  <2>4. Listed'
    BY <2>1, <2>2 DEF Listed, semVars
  <2>5. Places'
    BY <2>1, KernelAssumption DEF Places, TypeOK, interruptVars
  <2> QED BY <2>3, <2>4, <2>5
<1>2. CASE Fork(t)
  <2>1. /\ status[t] = "JUST_CREATED" /\ status' = [status EXCEPT ![t] = "READY"]
        /\ readyList' = Append(readyList, t)
        /\ UNCHANGED <<currentThread, at, threadToBeDestroyed, interruptVars, semVars>>
    BY <1>2 DEF Fork
  <2>2. Ready' = Ready \cup {t} /\ t \notin Ready /\ \A s \in Sem : Blocked(s)' = Blocked(s)
    BY <2>1 DEF Ready, Blocked, TypeOK
  <2>3. TypeOK'
    BY <2>1 DEF TypeOK, ThreadStatus, interruptVars, semVars
  <2>4. Listed'
    BY <2>1, <2>2, ListsAppend DEF Listed, semVars
  <2>5. Places'
    BY <2>1, KernelAssumption DEF Places, TypeOK, interruptVars
  <2> QED BY <2>3, <2>4, <2>5
<1> QED BY <1>1, <1>2

\* Yield (thread.cc:180-195): the running thread goes to the end of the list
\* from which the first was taken.
LEMMA YieldLemma == ASSUME IInv, Yield PROVE IInv'
<1> USE DEF IInv
<1>0. /\ level = "IntOn" /\ yieldOnReturn' \in BOOLEAN
      /\ UNCHANGED <<idling, pending, halted, semVars>>
  BY Zenon DEF Yield, YieldLeaving, TypeOK
<1>1. CASE readyList = <<>>
  <2>1. UNCHANGED <<threadVars, level>>
    BY <1>1 DEF Yield, YieldLeaving
  <2>2. TypeOK'
    BY <1>0, <2>1 DEF TypeOK, threadVars, semVars
  <2> QED BY <1>0, <2>1, <2>2, Quiet DEF semVars
<1>2. CASE readyList # <<>>
  <2>1. PICK c \in Thread, h \in Thread : c = currentThread /\ h = Head(readyList)
    BY <1>2, ListsTail DEF TypeOK, Listed
  <2>2. /\ currentThread' = h /\ readyList' = Append(Tail(readyList), c)
        /\ status' = [status EXCEPT ![c] = "READY", ![h] = "RUNNING"]
        /\ at' = [at EXCEPT ![c] = "Yield"] /\ level' = "IntOff"
        /\ threadToBeDestroyed' = threadToBeDestroyed
    BY <1>2, <2>1 DEF Yield, YieldLeaving, Run
  <2>3. h \in Ready /\ Lists(Tail(readyList), Ready \ {h})
    BY <1>2, <2>1, ListsTail DEF Listed
  <2>4. status[h] = "READY" /\ status[c] = "RUNNING" /\ h # c
    BY <1>0, <2>1, <2>3 DEF Ready, Places
  <2>5. Ready' = (Ready \ {h}) \cup {c} /\ c \notin Ready \ {h}
    BY <2>2, <2>4 DEF Ready, TypeOK
  <2>6. \A s \in Sem : Blocked(s)' = Blocked(s)
    BY <2>2, <2>4 DEF Blocked, TypeOK
  <2>7. Lists(readyList, Ready)'
    BY <2>2, <2>3, <2>5, ListsAppend, Zenon
  <2>8. Listed'
    BY <1>0, <2>6, <2>7 DEF Listed, semVars
  <2>9. TypeOK'
    <3>1. status' \in [Thread -> ThreadStatus] /\ at' \in [Thread -> Place]
      BY <2>2, Zenon DEF TypeOK, ThreadStatus, Place
    <3>2. readyList' \in Seq(Thread)
      BY <2>7 DEF Lists
    <3> QED BY <1>0, <2>2, <3>1, <3>2, Zenon DEF TypeOK, semVars
  <2>10. Places'
    BY <2>1, <2>2, <2>4, KernelAssumption, Zenon DEF Places, TypeOK
  <2> QED BY <2>8, <2>9, <2>10
<1> QED BY <1>1, <1>2

\* Finish (thread.cc:149-159) puts the thread on no list.
LEMMA FinishLemma == ASSUME IInv, Finish PROVE IInv'
<1> USE DEF IInv
<1>1. PICK c \in Thread : c = currentThread /\ c = currentThread'
  BY DEF TypeOK, Finish
<1>2. /\ threadToBeDestroyed' = c /\ status' = [status EXCEPT ![c] = "BLOCKED"]
      /\ at' = [at EXCEPT ![c] = "Finish"] /\ level' = "IntOff"
      /\ UNCHANGED <<readyList, yieldOnReturn, idling, pending, halted, semVars>>
  BY <1>1 DEF Finish
<1>3. status[c] = "RUNNING"
  BY <1>1 DEF Finish, InBody, Places
<1>4. Ready' = Ready /\ \A s \in Sem : Blocked(s)' = Blocked(s)
  BY <1>2, <1>3, KernelAssumption DEF Ready, Blocked, TypeOK
<1>5. TypeOK'
  <2>1. status' \in [Thread -> ThreadStatus] /\ at' \in [Thread -> Place]
    BY <1>2 DEF TypeOK, ThreadStatus, Place
  <2> QED BY <1>1, <1>2, <2>1 DEF TypeOK, semVars
<1>6. Listed'
  BY <1>2, <1>4 DEF Listed, semVars
<1>7. Places'
  BY <1>1, <1>2, <1>3 DEF Places, TypeOK
<1> QED BY <1>5, <1>6, <1>7

\* Sleep (thread.cc:217-232) runs the first ready thread, possibly itself.
LEMMA SleepLemma == ASSUME IInv, SleepRuns PROVE IInv'
<1> USE DEF IInv
<1>1. PICK h \in Thread : h = Head(readyList)
  BY ListsTail, Zenon DEF Listed, SleepRuns
<1>2. /\ currentThread' = h /\ readyList' = Tail(readyList)
      /\ status' = [status EXCEPT ![h] = "RUNNING"] /\ idling' = FALSE
      /\ UNCHANGED <<at, threadToBeDestroyed, level, yieldOnReturn, pending, halted, semVars>>
  BY <1>1 DEF SleepRuns, Run
<1>3. h \in Ready /\ Lists(Tail(readyList), Ready \ {h})
  BY <1>1, ListsTail DEF Listed, SleepRuns
<1>4. /\ status[h] = "READY" /\ level # "IntOn"
      /\ \A t \in Thread : status[t] # "RUNNING"
  BY <1>3 DEF Ready, Places, SleepRuns, InSleep
<1>5. Ready' = Ready \ {h} /\ \A s \in Sem : Blocked(s)' = Blocked(s)
  BY <1>2, <1>4 DEF Ready, Blocked, TypeOK
<1>6. Listed'
  BY <1>2, <1>3, <1>5 DEF Listed, semVars
<1>7. TypeOK'
  <2>1. readyList' \in Seq(Thread)
    BY <1>2, <1>3 DEF Lists
  <2>2. status' \in [Thread -> ThreadStatus]
    BY <1>2 DEF TypeOK, ThreadStatus
  <2> QED BY <1>2, <2>1, <2>2, Zenon DEF TypeOK, semVars
<1>8. Places'
  BY <1>2, <1>4, KernelAssumption DEF Places, TypeOK
<1> QED BY <1>6, <1>7, <1>8

\* SWITCH returns into ThreadRoot or into Run called by Yield.
LEMMA ResumeLemma == ASSUME IInv, ResumeInThreadRoot \/ ResumeInYield PROVE IInv'
<1> USE DEF IInv
<1>1. PICK c \in Thread : c = currentThread /\ c = currentThread'
  BY DEF TypeOK, ResumeInThreadRoot, ResumeInYield
<1>2. /\ status[c] = "RUNNING" /\ at' = [at EXCEPT ![c] = "Body"] /\ level' = "IntOn"
      /\ \/ status' = status /\ threadToBeDestroyed' = threadToBeDestroyed
         \/ status' = Reaped /\ threadToBeDestroyed' = NULL
      /\ UNCHANGED <<readyList, yieldOnReturn, idling, pending, halted, semVars>>
  BY <1>1 DEF ResumeInThreadRoot, ResumeInYield, Dispatched
<1>3. /\ status' \in [Thread -> ThreadStatus]
      /\ \A t \in Thread : \/ status'[t] = status[t]
                           \/ status[t] = "BLOCKED" /\ at[t] = "Finish" /\ status'[t] = "DELETED"
  BY <1>2, ReapLemma DEF TypeOK
<1>4. Ready' = Ready /\ \A s \in Sem : Blocked(s)' = Blocked(s)
  BY <1>2, <1>3, KernelAssumption DEF Ready, Blocked, TypeOK
<1>5. TypeOK'
  <2>1. at' \in [Thread -> Place]
    BY <1>2 DEF TypeOK, Place
  <2> QED BY <1>1, <1>2, <1>3, <2>1 DEF TypeOK, semVars
<1>6. Listed'
  BY <1>2, <1>4 DEF Listed, semVars
<1>7. Places'
  BY <1>1, <1>2, <1>3, KernelAssumption, ZenonT(60) DEF Places, TypeOK
<1> QED BY <1>5, <1>6, <1>7

\* P by the running thread, on its call and after it was woken.
LEMMA PLemma == ASSUME NEW s \in Sem, IInv, P(s) \/ ResumeInP(s) PROVE IInv'
<1>1. CASE P(s)
  BY <1>1, TakeLemma, Zenon DEF P, InBody, IInv, Places, TypeOK
<1>2. CASE ResumeInP(s)
  BY <1>2, TakeLemma, ReapLemma DEF ResumeInP, Dispatched
<1> QED BY <1>1, <1>2

\* The invariant is inductive.
LEMMA InvHolds == Spec => []IInv
<1>1. IInv /\ [Next]_vars => IInv'
  <2> SUFFICES ASSUME IInv, [Next]_vars PROVE IInv'
    OBVIOUS
  <2>1. ASSUME NEW s \in Sem, V(s) \/ Idle(s) \/ DeviceInterrupt(s) PROVE IInv'
    <3>1. /\ DoV(s) /\ UNCHANGED <<currentThread, at, threadToBeDestroyed, level>>
          /\ yieldOnReturn' \in BOOLEAN /\ idling' \in BOOLEAN /\ halted' \in BOOLEAN
      BY <2>1, Zenon DEF V, Idle, DeviceInterrupt, interruptVars, IInv, TypeOK
    <3>2. pending' \in [Sem -> Nat]
      BY <2>1 DEF V, Idle, DeviceInterrupt, interruptVars, IInv, TypeOK
    <3> QED BY <3>1, <3>2, WakeLemma
  <2>2. ASSUME NEW s \in Sem, StartDevice(s) PROVE IInv'
    <3>1. TypeOK' /\ UNCHANGED <<threadVars, level, queue>>
      BY <2>2 DEF StartDevice, IInv, TypeOK, threadVars, semVars
    <3> QED BY <3>1, Quiet
  <2>3. CASE IdleHalts \/ AskForYield \/ Stopped \/ UNCHANGED vars
    <3>1. TypeOK' /\ UNCHANGED <<threadVars, level, queue>>
      BY <2>3, Zenon DEF IdleHalts, AskForYield, Stopped, vars, IInv, TypeOK, threadVars, semVars,
                  interruptVars
    <3> QED BY <3>1, Quiet
  <2> QED BY <2>1, <2>2, <2>3, CreateLemma, YieldLemma, FinishLemma, SleepLemma, ResumeLemma, PLemma
          DEF Next, KernelStep, ThreadStep
<1> QED BY InitLemma, <1>1, PTL DEF Spec

\* Thread, Scheduler and Semaphore lose no thread and put none on two lists,
\* however many threads and semaphores there are: a READY thread is on the ready
\* list once, one BLOCKED in P once on that semaphore's queue, and only
\* currentThread is RUNNING.
THEOREM NoThreadIsLost == Spec => []ThreadsInOnePlace
<1>1. IInv => ThreadsInOnePlace
  <2> SUFFICES ASSUME IInv PROVE ThreadsInOnePlace
    OBVIOUS
  <2>1. ASSUME NEW t \in Thread PROVE Times(t, readyList) = IF status[t] = "READY" THEN 1 ELSE 0
    <3>1. Times(t, readyList) = IF t \in Ready THEN 1 ELSE 0
      BY ListsCount DEF IInv, Listed
    <3> QED BY <3>1 DEF Ready
  <2>2. ASSUME NEW t \in Thread, NEW s \in Sem
        PROVE  Times(t, queue[s]) = IF status[t] = "BLOCKED" /\ at[t] = s THEN 1 ELSE 0
    <3>1. Lists(queue[s], Blocked(s))
      BY DEF IInv, Listed
    <3>2. Times(t, queue[s]) = IF t \in Blocked(s) THEN 1 ELSE 0
      BY <3>1, ListsCount
    <3>3. t \in Blocked(s) <=> status[t] = "BLOCKED" /\ at[t] = s
      BY DEF Blocked
    <3> QED BY <3>2, <3>3
  <2> QED BY <2>1, <2>2 DEF ThreadsInOnePlace, IInv, Places
<1> QED BY InvHolds, <1>1, PTL

\* Scheduler::Run deletes a thread only after its Finish and on another thread's
\* stack (the ASSERT of thread.cc:64).
THEOREM OnlyFinishedAreReaped == Spec => []ReapedAfterFinish
<1>1. IInv => ReapedAfterFinish
  BY DEF IInv, Places, ReapedAfterFinish, Dispatched, TypeOK
<1> QED BY InvHolds, <1>1, PTL
-----------------------------------------------------------------------------
(* Halting.  While threads sleep on s, each of its units has a woken thread *)
(* that will test value again.                                             *)

Woken(s) == {t \in Thread : at[t] = s /\ status[t] \in {"READY", "RUNNING"}}

UnitsAreClaimed == \A s \in Sem : queue[s] # <<>> => value[s] <= Cardinality(Woken(s))

\* A BLOCKED thread is in P or in Finish.
SleepsSomewhere == \A t \in Thread : status[t] = "BLOCKED" => at[t] \in Sem \cup {"Finish"}

HInv == UnitsAreClaimed /\ SleepsSomewhere /\ HaltsOnlyWhenStuck

\* Sets of threads are finite.
LEMMA WokenFinite == ASSUME NEW S, S \subseteq Thread PROVE IsFiniteSet(S) /\ Cardinality(S) \in Nat
  BY KernelAssumption, FS_Subset, FS_CardinalityType

\* A step that changes no semaphore and takes no thread out of P keeps the units
\* claimed.
LEMMA ClaimsKept ==
  ASSUME IInv, UnitsAreClaimed, value' = value, queue' = queue,
         \A t \in Thread : at[t] \in Sem /\ status[t] \in {"READY", "RUNNING"} =>
            at'[t] = at[t] /\ status'[t] \in {"READY", "RUNNING"}
  PROVE  UnitsAreClaimed'
<1> SUFFICES ASSUME NEW s \in Sem, queue[s] # <<>> PROVE value[s] <= Cardinality(Woken(s)')
  BY DEF UnitsAreClaimed
<1>1. Woken(s) \subseteq Woken(s)' /\ Woken(s)' \subseteq Thread
  BY DEF Woken
<1>2. Cardinality(Woken(s)) <= Cardinality(Woken(s)')
  BY <1>1, WokenFinite, FS_Subset
<1>3. value[s] \in Nat /\ Cardinality(Woken(s)) \in Nat /\ Cardinality(Woken(s)') \in Nat
  BY <1>1, WokenFinite DEF IInv, TypeOK
<1> QED BY <1>2, <1>3 DEF UnitsAreClaimed

\* V adds a unit and, if anybody sleeps, a woken thread.
LEMMA ClaimsWake ==
  ASSUME NEW s \in Sem, IInv, UnitsAreClaimed, DoV(s), at' = at PROVE UnitsAreClaimed'
<1> USE DEF IInv
<1>1. CASE queue[s] = <<>>
  <2>1. UNCHANGED <<queue, status>> /\ value' = [value EXCEPT ![s] = @ + 1]
    BY <1>1 DEF DoV, WakeOne
  <2>2. \A x \in Sem : Woken(x)' = Woken(x)
    BY <2>1 DEF Woken
  <2> QED BY <1>1, <2>1, <2>2 DEF UnitsAreClaimed, TypeOK
<1>2. CASE queue[s] # <<>>
  <2>1. PICK h \in Thread : h = Head(queue[s]) /\ h \in Blocked(s)
    BY <1>2, ListsTail, Zenon DEF Listed
  <2>2. /\ queue' = [queue EXCEPT ![s] = Tail(@)] /\ status' = [status EXCEPT ![h] = "READY"]
        /\ value' = [value EXCEPT ![s] = @ + 1]
    BY <1>2, <2>1 DEF DoV, WakeOne
  <2>3. /\ Woken(s)' = Woken(s) \cup {h} /\ h \notin Woken(s)
        /\ \A x \in Sem \ {s} : Woken(x)' = Woken(x)
    BY <2>1, <2>2 DEF Woken, Blocked, TypeOK
  <2>4. Cardinality(Woken(s) \cup {h}) = Cardinality(Woken(s)) + 1
    BY <2>3, WokenFinite, FS_AddElement DEF Woken
  <2>5. Cardinality(Woken(s)) \in Nat /\ value[s] \in Nat /\ value[s] <= Cardinality(Woken(s))
    BY <1>2, WokenFinite DEF Woken, UnitsAreClaimed, TypeOK
  <2>6. value'[s] <= Cardinality(Woken(s)')
    BY <2>2, <2>3, <2>4, <2>5 DEF TypeOK
  <2> QED BY <2>2, <2>3, <2>6, Zenon DEF UnitsAreClaimed, TypeOK
<1> QED BY <1>1, <1>2

\* P takes a unit, and the thread that took it is not counted any more.
LEMMA ClaimsTake ==
  ASSUME NEW s \in Sem, IInv, UnitsAreClaimed, NEW alive,
         alive \in [Thread -> ThreadStatus],
         \A t \in Thread : \/ alive[t] = status[t]
                           \/ status[t] = "BLOCKED" /\ at[t] = "Finish" /\ alive[t] = "DELETED",
         status[currentThread] = "RUNNING", at[currentThread] \in {"Body", s}, DoP(s, alive)
  PROVE  UnitsAreClaimed'
<1> USE DEF IInv
<1>0. PICK c \in Thread : c = currentThread
  BY DEF TypeOK
<1>2. s \notin {"ThreadRoot", "Body", "Yield", "Finish"}
  BY KernelAssumption
<1>3. CASE value[s] = 0
  <2>1. /\ queue' = [queue EXCEPT ![s] = Append(@, c)] /\ value' = value
        /\ status' = [alive EXCEPT ![c] = "BLOCKED"] /\ at' = [at EXCEPT ![c] = s]
    BY <1>0, <1>3 DEF DoP, TestAndTake
  <2>2. \A x \in Sem \ {s} : Woken(x)' = Woken(x)
    BY <1>0, <2>1, KernelAssumption DEF Woken, TypeOK
  <2>3. Cardinality(Woken(s)') \in Nat
    BY WokenFinite DEF Woken
  <2> QED BY <1>3, <2>1, <2>2, <2>3 DEF UnitsAreClaimed, TypeOK
<1>4. CASE value[s] # 0
  <2>1. /\ value' = [value EXCEPT ![s] = @ - 1] /\ status' = alive
        /\ at' = [at EXCEPT ![c] = "Body"] /\ queue' = queue
    BY <1>0, <1>4 DEF DoP, TestAndTake
  <2>2. /\ Woken(s)' = Woken(s) \ {c}
        /\ \A x \in Sem \ {s} : Woken(x)' = Woken(x)
    BY <1>0, <2>1, KernelAssumption DEF Woken, TypeOK
  <2>3. Cardinality(Woken(s)') \in Nat /\ Cardinality(Woken(s)) - 1 <= Cardinality(Woken(s)')
    BY <2>2, WokenFinite, FS_RemoveElement DEF Woken
  <2>4. Cardinality(Woken(s)) \in Nat
    BY WokenFinite DEF Woken
  <2>5. value'[s] = value[s] - 1 /\ value[s] \in Nat /\ \A x \in Sem \ {s} : value'[x] = value[x]
    BY <2>1 DEF TypeOK
  <2>6. queue[s] # <<>> => value'[s] <= Cardinality(Woken(s)')
    BY <2>3, <2>4, <2>5 DEF UnitsAreClaimed
  <2> QED BY <2>1, <2>2, <2>5, <2>6, Zenon DEF UnitsAreClaimed
<1> QED BY <1>3, <1>4

\* Every step keeps the units claimed.
LEMMA ClaimsLemma == ASSUME IInv, UnitsAreClaimed, [Next]_vars PROVE UnitsAreClaimed'
<1> USE DEF IInv
<1>1. ASSUME NEW t \in Thread, NewThread(t) \/ Fork(t) PROVE UnitsAreClaimed'
  <2>1. value' = value /\ queue' = queue /\ at' = at /\ status[t] \in {"UNUSED", "JUST_CREATED"}
        /\ \E x : status' = [status EXCEPT ![t] = x]
    BY <1>1 DEF NewThread, Fork, semVars
  <2> QED BY <2>1, ClaimsKept DEF TypeOK
<1>2. CASE Yield
  <2>0. value' = value /\ queue' = queue
    BY <1>2 DEF Yield, YieldLeaving, semVars
  <2>1. CASE readyList = <<>>
    BY <1>2, <2>0, <2>1, ClaimsKept DEF Yield, YieldLeaving, threadVars
  <2>2. CASE readyList # <<>>
    <3>1. PICK h \in Thread : h = Head(readyList)
      BY <2>2, ListsTail, Zenon DEF Listed
    <3>2. status' = [status EXCEPT ![currentThread] = "READY", ![h] = "RUNNING"]
          /\ at' = [at EXCEPT ![currentThread] = "Yield"] /\ at[currentThread] = "Body"
      BY <1>2, <2>2, <3>1 DEF Yield, YieldLeaving, Run, Places
    <3> QED BY <2>0, <3>1, <3>2, ClaimsKept, KernelAssumption DEF TypeOK
  <2> QED BY <2>1, <2>2
<1>3. CASE Finish
  <2>1. /\ value' = value /\ queue' = queue /\ at[currentThread] = "Body"
        /\ status' = [status EXCEPT ![currentThread] = "BLOCKED"]
        /\ at' = [at EXCEPT ![currentThread] = "Finish"]
    BY <1>3 DEF Finish, InBody, Places, semVars
  <2> QED BY <2>1, ClaimsKept, KernelAssumption DEF TypeOK
<1>4. CASE SleepRuns
  <2>1. value' = value /\ queue' = queue /\ at' = at
        /\ status' = [status EXCEPT ![Head(readyList)] = "RUNNING"]
    BY <1>4 DEF SleepRuns, Run, semVars
  <2> QED BY <2>1, ClaimsKept DEF TypeOK
<1>5. CASE ResumeInThreadRoot \/ ResumeInYield
  <2>1. /\ value' = value /\ queue' = queue /\ at[currentThread] \in {"ThreadRoot", "Yield"}
        /\ at' = [at EXCEPT ![currentThread] = "Body"] /\ status' \in {status, Reaped}
    BY <1>5 DEF ResumeInThreadRoot, ResumeInYield, semVars
  <2>2. \A t \in Thread : status[t] \in {"READY", "RUNNING"} => status'[t] = status[t]
    BY <2>1, ReapLemma
  <2> QED BY <2>1, <2>2, ClaimsKept, KernelAssumption DEF TypeOK
<1>6. ASSUME NEW s \in Sem, V(s) \/ Idle(s) \/ DeviceInterrupt(s) PROVE UnitsAreClaimed'
  BY <1>6, ClaimsWake DEF V, Idle, DeviceInterrupt
<1>7. ASSUME NEW s \in Sem, P(s) PROVE UnitsAreClaimed'
  BY <1>7, ClaimsTake, Zenon DEF P, InBody, Places, TypeOK
<1>8. ASSUME NEW s \in Sem, ResumeInP(s) PROVE UnitsAreClaimed'
  BY <1>8, ClaimsTake, ReapLemma DEF ResumeInP, Dispatched
<1>9. ASSUME UNCHANGED <<value, queue, status, at>> PROVE UnitsAreClaimed'
  BY <1>9, ClaimsKept
<1>10. ASSUME NEW s \in Sem, StartDevice(s) PROVE UnitsAreClaimed'
  BY <1>9, <1>10 DEF StartDevice, semVars, threadVars
<1>11. CASE IdleHalts \/ AskForYield \/ Stopped \/ UNCHANGED vars
  BY <1>9, <1>11 DEF IdleHalts, AskForYield, Stopped, vars, semVars, threadVars
<1> QED BY <1>1, <1>2, <1>3, <1>4, <1>5, <1>6, <1>7, <1>8, <1>10, <1>11 DEF Next, KernelStep, ThreadStep

\* A thread becomes BLOCKED in P and in Finish only.
LEMMA SleepsLemma == ASSUME IInv, SleepsSomewhere, [Next]_vars PROVE SleepsSomewhere'
<1> USE DEF IInv
<1>1. ASSUME NEW t \in Thread, NewThread(t) \/ Fork(t) PROVE SleepsSomewhere'
  BY <1>1 DEF NewThread, Fork, SleepsSomewhere, TypeOK
<1>2. CASE Yield
  <2>1. CASE readyList = <<>>
    BY <1>2, <2>1 DEF Yield, YieldLeaving, threadVars, SleepsSomewhere
  <2>2. CASE readyList # <<>>
    <3>1. status' = [status EXCEPT ![currentThread] = "READY", ![Head(readyList)] = "RUNNING"]
          /\ at' = [at EXCEPT ![currentThread] = "Yield"]
      BY <1>2, <2>2 DEF Yield, YieldLeaving, Run
    <3> QED BY <3>1 DEF SleepsSomewhere, TypeOK
  <2> QED BY <2>1, <2>2
<1>3. CASE Finish
  BY <1>3 DEF Finish, SleepsSomewhere, TypeOK
<1>4. CASE SleepRuns
  BY <1>4 DEF SleepRuns, Run, SleepsSomewhere, TypeOK
<1>5. CASE ResumeInThreadRoot \/ ResumeInYield
  <2>1. /\ at' = [at EXCEPT ![currentThread] = "Body"] /\ status' \in {status, Reaped}
        /\ status[currentThread] = "RUNNING"
    BY <1>5 DEF ResumeInThreadRoot, ResumeInYield, Dispatched
  <2> QED BY <2>1, ReapLemma DEF SleepsSomewhere, TypeOK
<1>6. ASSUME NEW s \in Sem, V(s) \/ Idle(s) \/ DeviceInterrupt(s) PROVE SleepsSomewhere'
  BY <1>6 DEF V, Idle, DeviceInterrupt, DoV, WakeOne, SleepsSomewhere, TypeOK
<1>7. ASSUME NEW s \in Sem, P(s) \/ ResumeInP(s) PROVE SleepsSomewhere'
  <2>1. PICK alive \in {status, Reaped} : DoP(s, alive) /\ status[currentThread] = "RUNNING"
    BY <1>7 DEF P, ResumeInP, InBody, Dispatched, Places
  <2>2. alive \in [Thread -> ThreadStatus] /\ \A t \in Thread : alive[t] = "BLOCKED" => status[t] = "BLOCKED"
    BY <2>1, ReapLemma DEF TypeOK
  <2>3. CASE value[s] = 0
    <3>1. status' = [alive EXCEPT ![currentThread] = "BLOCKED"] /\ at' = [at EXCEPT ![currentThread] = s]
      BY <2>1, <2>3 DEF DoP, TestAndTake
    <3> QED BY <2>2, <3>1 DEF SleepsSomewhere, TypeOK
  <2>4. CASE value[s] # 0
    <3>1. status' = alive /\ at' = [at EXCEPT ![currentThread] = "Body"]
      BY <2>1, <2>4 DEF DoP, TestAndTake
    <3>2. status'[currentThread] # "BLOCKED"
      BY <2>1, <2>2, <3>1 DEF TypeOK
    <3> QED BY <2>2, <3>1, <3>2 DEF SleepsSomewhere, TypeOK
  <2> QED BY <2>3, <2>4
<1>8. ASSUME UNCHANGED <<status, at>> PROVE SleepsSomewhere'
  BY <1>8 DEF SleepsSomewhere
<1>9. ASSUME NEW s \in Sem, StartDevice(s) PROVE SleepsSomewhere'
  BY <1>8, <1>9 DEF StartDevice, threadVars
<1>10. CASE IdleHalts \/ AskForYield \/ Stopped \/ UNCHANGED vars
  BY <1>8, <1>10 DEF IdleHalts, AskForYield, Stopped, vars, threadVars
<1> QED BY <1>1, <1>2, <1>3, <1>4, <1>5, <1>6, <1>7, <1>9, <1>10 DEF Next, KernelStep, ThreadStep

\* Idle halts with nobody ready, so no unit is claimed and every semaphore with
\* sleepers has none; nothing happens afterwards.
LEMMA HaltLemma == ASSUME IInv, HInv, [Next]_vars PROVE HaltsOnlyWhenStuck'
<1> USE DEF IInv, HInv
<1>1. CASE halted
  <2>1. UNCHANGED vars
    BY <1>1 DEF Next, KernelStep, ThreadStep, SleepRuns, Idle, IdleHalts, ResumeInThreadRoot,
                ResumeInYield, ResumeInP, NewThread, Fork, Yield, YieldLeaving, Finish, P, V,
                StartDevice, AskForYield, DeviceInterrupt, Stopped, InBody, InSleep, Dispatched
  <2> QED BY <2>1 DEF HaltsOnlyWhenStuck, vars, threadVars, interruptVars, semVars
<1>2. CASE ~halted /\ IdleHalts
  <2>1. /\ readyList = <<>> /\ status[currentThread] # "RUNNING" /\ \A s \in Sem : pending[s] = 0
        /\ UNCHANGED <<threadVars, pending, semVars>>
    BY <1>2 DEF IdleHalts, InSleep
  <2>2. \A t \in Thread : status[t] \notin {"READY", "RUNNING"}
    <3>1. Ready = {}
      BY <2>1, ListsEmpty DEF Listed
    <3>2. \A t \in Thread : status[t] # "READY"
      BY <3>1 DEF Ready
    <3>3. \A t \in Thread : status[t] # "RUNNING"
      BY <2>1 DEF Places
    <3> QED BY <3>2, <3>3
  <2>3. ASSUME NEW t \in Thread, NEW s \in Sem, status[t] = "BLOCKED", at[t] = s PROVE value[s] = 0
    <3>1. queue[s] # <<>>
      <4>1. t \in Blocked(s)
        BY <2>3 DEF Blocked
      <4> QED BY <4>1, ListsEmpty DEF Listed
    <3>2. Woken(s) = {} /\ Cardinality({}) = 0
      BY <2>2, FS_EmptySet DEF Woken
    <3>3. value[s] <= 0 /\ value[s] \in Nat
      BY <3>1, <3>2, Zenon DEF UnitsAreClaimed, TypeOK
    <3> QED BY <3>3
  <2> QED BY <2>1, <2>2, <2>3 DEF HaltsOnlyWhenStuck, SleepsSomewhere, TypeOK, ThreadStatus,
                                  threadVars, semVars
<1>3. CASE ~halted /\ ~IdleHalts
  <2>1. halted' = halted
    BY <1>3, Zenon DEF Next, KernelStep, ThreadStep, SleepRuns, Idle, ResumeInThreadRoot,
                ResumeInYield, ResumeInP, NewThread, Fork, Yield, YieldLeaving, Finish, P, V,
                StartDevice, AskForYield, DeviceInterrupt, Stopped, vars, interruptVars
  <2> QED BY <1>3, <2>1, Zenon DEF HaltsOnlyWhenStuck
<1> QED BY <1>1, <1>2, <1>3

\* Interrupt::Idle calls Halt (interrupt.cc:225) only when every thread that was
\* forked has finished or sleeps on a semaphore without units that no interrupt
\* is going to signal: no thread that could go on is forgotten.
THEOREM HaltIsJustified == Spec => []HaltsOnlyWhenStuck
<1>1. Init => HInv
  BY DEF Init, HInv, UnitsAreClaimed, SleepsSomewhere, HaltsOnlyWhenStuck
<1>2. IInv /\ HInv /\ [Next]_vars => HInv'
  BY ClaimsLemma, SleepsLemma, HaltLemma DEF HInv
<1>3. HInv => HaltsOnlyWhenStuck
  BY DEF HInv
<1> QED BY InvHolds, <1>1, <1>2, <1>3, PTL DEF Spec
-----------------------------------------------------------------------------
(* Every semaphore of the kernel is the free-running one of module          *)
(* Semaphore.                                                              *)

SemaphoreOf(s) == INSTANCE Semaphore
    WITH InitialValue <- InitialValue[s], value <- value[s], queue <- queue[s],
         pc <- Standing(s)

\* The V's of the interrupts that are scheduled keep within the bound.
SignalsBounded == \A s \in Sem : pending[s] > 0 => value[s] + pending[s] <= MaxValue

\* StartDevice and V respect the bound for the interrupts to come as well.
LEMMA BoundLemma == ASSUME IInv, SignalsBounded, [Next]_vars PROVE SignalsBounded'
<1> USE DEF IInv
<1>0. MaxValue \in Nat /\ pending \in [Sem -> Nat] /\ value \in [Sem -> Nat]
  BY KernelAssumption DEF TypeOK
<1>1. ASSUME NEW s \in Sem, V(s) PROVE SignalsBounded'
  BY <1>0, <1>1 DEF V, DoV, WakeOne, interruptVars, SignalsBounded
<1>2. ASSUME NEW s \in Sem, Idle(s) \/ DeviceInterrupt(s) PROVE SignalsBounded'
  <2>1. /\ pending[s] > 0 /\ pending' = [pending EXCEPT ![s] = @ - 1]
        /\ value' = [value EXCEPT ![s] = @ + 1]
    BY <1>2 DEF Idle, DeviceInterrupt, DoV, WakeOne
  <2>2. \A x \in Sem : x # s => pending'[x] = pending[x] /\ value'[x] = value[x]
    BY <1>0, <2>1
  <2>3. pending'[s] = pending[s] - 1 /\ value'[s] = value[s] + 1
        /\ value[s] \in Nat /\ pending[s] \in Nat
    BY <1>0, <2>1
  <2>4. value'[s] + pending'[s] <= MaxValue
    BY <1>0, <2>1, <2>3 DEF SignalsBounded
  <2> QED BY <2>2, <2>4 DEF SignalsBounded
<1>3. ASSUME NEW s \in Sem, StartDevice(s) PROVE SignalsBounded'
  BY <1>0, <1>3 DEF StartDevice, semVars, SignalsBounded
<1>4. ASSUME NEW s \in Sem, P(s) \/ ResumeInP(s) PROVE SignalsBounded'
  <2>1. pending' = pending /\ (value' = value \/ value' = [value EXCEPT ![s] = @ - 1])
    BY <1>4 DEF P, ResumeInP, DoP, TestAndTake
  <2> QED BY <1>0, <2>1 DEF SignalsBounded
<1>5. ASSUME UNCHANGED <<value, pending>> PROVE SignalsBounded'
  BY <1>5 DEF SignalsBounded
<1>6. ASSUME NEW t \in Thread, NewThread(t) \/ Fork(t) PROVE SignalsBounded'
  BY <1>5, <1>6 DEF NewThread, Fork, semVars, interruptVars
<1>7. CASE Yield \/ Finish \/ SleepRuns \/ ResumeInThreadRoot \/ ResumeInYield
  BY <1>5, <1>7, Zenon DEF Yield, YieldLeaving, Finish, SleepRuns, ResumeInThreadRoot, ResumeInYield, semVars
<1>8. CASE IdleHalts \/ AskForYield \/ Stopped \/ UNCHANGED vars
  BY <1>5, <1>8 DEF IdleHalts, AskForYield, Stopped, vars, semVars, interruptVars
<1> QED BY <1>1, <1>2, <1>3, <1>4, <1>6, <1>7, <1>8 DEF Next, KernelStep, ThreadStep

\* A step that leaves s, its waiters and the threads V woke where they are.
LEMMA SemStutters ==
  ASSUME NEW s \in Sem, value'[s] = value[s], queue'[s] = queue[s],
         \A t \in Thread : at'[t] = s <=> at[t] = s,
         \A t \in Thread : at[t] = s => (status'[t] = "BLOCKED" <=> status[t] = "BLOCKED")
  PROVE  UNCHANGED SemaphoreOf(s)!vars
<1>1. Standing(s)' = Standing(s)
  BY DEF Standing
<1> QED BY <1>1 DEF SemaphoreOf!vars

\* V of another semaphore is no step of s; V of s is its V.
LEMMA SemV ==
  ASSUME NEW s \in Sem, NEW x \in Sem, IInv, DoV(x), at' = at, x = s => value[s] < MaxValue
  PROVE  [SemaphoreOf(s)!Next]_(SemaphoreOf(s)!vars)
<1> USE DEF IInv
<1>1. CASE queue[x] = <<>>
  <2>1. /\ UNCHANGED <<queue, status, at>> /\ value' = [value EXCEPT ![x] = @ + 1]
    BY <1>1 DEF DoV, WakeOne
  <2>2. Standing(s)' = Standing(s)
    BY <2>1 DEF Standing
  <2>3. CASE x = s
    <3>1. SemaphoreOf(s)!V
      BY <1>1, <2>1, <2>2, <2>3 DEF SemaphoreOf!V, TypeOK
    <3> QED BY <3>1 DEF SemaphoreOf!Next
  <2>4. CASE x # s
    BY <2>1, <2>2, <2>4 DEF SemaphoreOf!vars, TypeOK
  <2> QED BY <2>3, <2>4
<1>2. CASE queue[x] # <<>>
  <2>1. PICK h \in Thread : h = Head(queue[x]) /\ h \in Blocked(x)
    BY <1>2, ListsTail, Zenon DEF Listed
  <2>2. /\ queue' = [queue EXCEPT ![x] = Tail(@)] /\ status' = [status EXCEPT ![h] = "READY"]
        /\ value' = [value EXCEPT ![x] = @ + 1]
    BY <1>2, <2>1 DEF DoV, WakeOne
  <2>3. CASE x = s
    <3>1. Standing(s)' = [Standing(s) EXCEPT ![h] = "woken"]
      BY <2>1, <2>2, <2>3, Zenon DEF Standing, Blocked, TypeOK
    <3>2. value'[s] = value[s] + 1 /\ queue'[s] = Tail(queue[s])
      BY <2>2, <2>3 DEF TypeOK
    <3>3. SemaphoreOf(s)!V
      BY <1>2, <2>1, <2>3, <3>1, <3>2 DEF SemaphoreOf!V
    <3> QED BY <3>3 DEF SemaphoreOf!Next
  <2>4. CASE x # s
    <3>1. value'[s] = value[s] /\ queue'[s] = queue[s]
      BY <2>2, <2>4 DEF TypeOK
    <3>2. \A t \in Thread : at[t] = s => status'[t] = status[t]
      BY <2>1, <2>2, <2>4 DEF Blocked, TypeOK
    <3> QED BY <3>1, <3>2, SemStutters
  <2> QED BY <2>3, <2>4
<1> QED BY <1>1, <1>2

\* P of s is its PBlocks or PTakes, P of another semaphore is no step of s.
LEMMA SemP ==
  ASSUME NEW s \in Sem, NEW x \in Sem, IInv, NEW alive,
         alive \in [Thread -> ThreadStatus],
         \A t \in Thread : \/ alive[t] = status[t]
                           \/ status[t] = "BLOCKED" /\ at[t] = "Finish" /\ alive[t] = "DELETED",
         status[currentThread] = "RUNNING", at[currentThread] \in {"Body", x}, DoP(x, alive)
  PROVE  [SemaphoreOf(s)!Next]_(SemaphoreOf(s)!vars)
<1> USE DEF IInv
<1>0. PICK c \in Thread : c = currentThread
  BY DEF TypeOK
<1>1. s \notin {"ThreadRoot", "Body", "Yield", "Finish"}
  BY KernelAssumption
<1>2. alive[c] = "RUNNING" /\ \A t \in Thread : at[t] = s => alive[t] = status[t]
  BY <1>0, <1>1
<1>3. Standing(s)[c] # "blocked"
  BY <1>0 DEF Standing
<1>4. CASE value[x] = 0
  <2>1. /\ queue' = [queue EXCEPT ![x] = Append(@, c)] /\ value' = value
        /\ status' = [alive EXCEPT ![c] = "BLOCKED"] /\ at' = [at EXCEPT ![c] = x]
    BY <1>0, <1>4 DEF DoP, TestAndTake
  <2>2. CASE x = s
    <3>1. Standing(s)' = [Standing(s) EXCEPT ![c] = "blocked"]
      BY <1>2, <2>1, <2>2, Zenon DEF Standing, TypeOK
    <3>2. value'[s] = value[s] /\ queue'[s] = Append(queue[s], c)
      BY <2>1, <2>2 DEF TypeOK
    <3>3. SemaphoreOf(s)!PBlocks(c)
      BY <1>3, <1>4, <2>2, <3>1, <3>2 DEF SemaphoreOf!PBlocks
    <3> QED BY <3>3 DEF SemaphoreOf!Next
  <2>3. CASE x # s
    <3>1. value'[s] = value[s] /\ queue'[s] = queue[s]
      BY <2>1, <2>3 DEF TypeOK
    <3>2. \A t \in Thread : (at'[t] = s <=> at[t] = s) /\ (at[t] = s => status'[t] = status[t])
      BY <1>0, <1>1, <1>2, <2>1, <2>3 DEF TypeOK
    <3> QED BY <3>1, <3>2, SemStutters
  <2> QED BY <2>2, <2>3
<1>5. CASE value[x] # 0
  <2>1. /\ value' = [value EXCEPT ![x] = @ - 1] /\ status' = alive
        /\ at' = [at EXCEPT ![c] = "Body"] /\ queue' = queue
    BY <1>0, <1>5 DEF DoP, TestAndTake
  <2>2. CASE x = s
    <3>1. Standing(s)' = [Standing(s) EXCEPT ![c] = "out"]
      BY <1>1, <1>2, <2>1, <2>2, Zenon DEF Standing, TypeOK
    <3>2. value'[s] = value[s] - 1 /\ queue'[s] = queue[s]
      BY <2>1, <2>2 DEF TypeOK
    <3>3. SemaphoreOf(s)!PTakes(c)
      BY <1>3, <1>5, <2>2, <3>1, <3>2 DEF SemaphoreOf!PTakes
    <3> QED BY <3>3 DEF SemaphoreOf!Next
  <2>3. CASE x # s
    <3>1. value'[s] = value[s] /\ queue'[s] = queue[s]
      BY <2>1, <2>3 DEF TypeOK
    <3>2. \A t \in Thread : (at'[t] = s <=> at[t] = s) /\ (at[t] = s => status'[t] = status[t])
      BY <1>0, <1>1, <1>2, <2>1, <2>3 DEF TypeOK
    <3> QED BY <3>1, <3>2, SemStutters
  <2> QED BY <2>2, <2>3
<1> QED BY <1>4, <1>5

\* Every step of the kernel is a step of semaphore s or none.
LEMMA SemStep ==
  ASSUME NEW s \in Sem, IInv, SignalsBounded, [Next]_vars
  PROVE  [SemaphoreOf(s)!Next]_(SemaphoreOf(s)!vars)
<1> DEFINE Goal == [SemaphoreOf(s)!Next]_(SemaphoreOf(s)!vars)
<1> SUFFICES Goal
  OBVIOUS
<1> USE DEF IInv
<1>0. s \notin {"ThreadRoot", "Body", "Yield", "Finish"}
  BY KernelAssumption
<1>1. ASSUME NEW x \in Sem, V(x) PROVE Goal
  <2>1. DoV(x) /\ at' = at /\ value[x] < MaxValue
    BY <1>1, KernelAssumption DEF V, TypeOK
  <2> QED BY <2>1, SemV
<1>2. ASSUME NEW x \in Sem, Idle(x) \/ DeviceInterrupt(x) PROVE Goal
  <2>1. DoV(x) /\ at' = at /\ pending[x] > 0
    BY <1>2 DEF Idle, DeviceInterrupt
  <2>2. value[x] < MaxValue
    BY <2>1, KernelAssumption DEF SignalsBounded, TypeOK
  <2> QED BY <2>1, <2>2, SemV
<1>3. ASSUME NEW x \in Sem, P(x) PROVE Goal
  <2>1. /\ status \in [Thread -> ThreadStatus] /\ status[currentThread] = "RUNNING"
        /\ at[currentThread] \in {"Body", x} /\ DoP(x, status)
    BY <1>3 DEF P, InBody, Places, TypeOK
  <2> QED BY <2>1, SemP
<1>4. ASSUME NEW x \in Sem, ResumeInP(x) PROVE Goal
  <2>1. /\ status[currentThread] = "RUNNING"
        /\ at[currentThread] \in {"Body", x} /\ DoP(x, Reaped)
    BY <1>4 DEF ResumeInP, Dispatched
  <2> QED BY <2>1, SemP, ReapLemma
<1>5. ASSUME UNCHANGED <<value, queue>>,
             \A t \in Thread : at'[t] = s <=> at[t] = s,
             \A t \in Thread : at[t] = s => (status'[t] = "BLOCKED" <=> status[t] = "BLOCKED")
      PROVE  Goal
  BY <1>5, SemStutters
<1>6. ASSUME NEW t \in Thread, NewThread(t) \/ Fork(t) PROVE Goal
  <2>1. /\ UNCHANGED <<value, queue, at>> /\ status[t] \in {"UNUSED", "JUST_CREATED"}
        /\ \E x \in {"JUST_CREATED", "READY"} : status' = [status EXCEPT ![t] = x]
    BY <1>6 DEF NewThread, Fork, semVars
  <2>2. \A u \in Thread : status'[u] = "BLOCKED" <=> status[u] = "BLOCKED"
    BY <2>1 DEF TypeOK
  <2> QED BY <1>5, <2>1, <2>2
<1>7. CASE Yield
  <2>0. UNCHANGED <<value, queue>>
    BY <1>7 DEF Yield, YieldLeaving, semVars
  <2>1. CASE readyList = <<>>
    BY <1>5, <1>7, <2>0, <2>1 DEF Yield, YieldLeaving, threadVars
  <2>2. CASE readyList # <<>>
    <3>1. PICK h \in Thread : h = Head(readyList) /\ h \in Ready
      BY <2>2, ListsTail, Zenon DEF Listed
    <3>2. status' = [status EXCEPT ![currentThread] = "READY", ![h] = "RUNNING"]
          /\ at' = [at EXCEPT ![currentThread] = "Yield"] /\ at[currentThread] = "Body"
          /\ status[currentThread] = "RUNNING"
      BY <1>7, <2>2, <3>1 DEF Yield, YieldLeaving, Run, Places
    <3>3. \A t \in Thread : (at'[t] = s <=> at[t] = s)
                            /\ (status'[t] = "BLOCKED" <=> status[t] = "BLOCKED")
      BY <1>0, <3>1, <3>2 DEF TypeOK, Ready
    <3> QED BY <1>5, <2>0, <3>3
  <2> QED BY <2>1, <2>2
<1>8. CASE Finish
  <2>1. /\ UNCHANGED <<value, queue>> /\ at[currentThread] = "Body"
        /\ status' = [status EXCEPT ![currentThread] = "BLOCKED"]
        /\ at' = [at EXCEPT ![currentThread] = "Finish"]
    BY <1>8 DEF Finish, InBody, Places, semVars
  <2> QED BY <1>0, <1>5, <2>1 DEF TypeOK
<1>9. CASE SleepRuns
  <2>1. PICK h \in Thread : h = Head(readyList) /\ h \in Ready
    BY <1>9, ListsTail, Zenon DEF SleepRuns, Listed
  <2>2. UNCHANGED <<value, queue, at>> /\ status' = [status EXCEPT ![h] = "RUNNING"]
    BY <1>9, <2>1 DEF SleepRuns, Run, semVars
  <2>3. \A t \in Thread : status'[t] = "BLOCKED" <=> status[t] = "BLOCKED"
    BY <2>1, <2>2 DEF TypeOK, Ready
  <2> QED BY <1>5, <2>2, <2>3
<1>10. CASE ResumeInThreadRoot \/ ResumeInYield
  <2>1. /\ UNCHANGED <<value, queue>> /\ at[currentThread] \in {"ThreadRoot", "Yield"}
        /\ at' = [at EXCEPT ![currentThread] = "Body"] /\ status' \in {status, Reaped}
    BY <1>10 DEF ResumeInThreadRoot, ResumeInYield, semVars
  <2>2. \A t \in Thread : at[t] = s => status'[t] = status[t]
    BY <1>0, <2>1, ReapLemma
  <2> QED BY <1>0, <1>5, <2>1, <2>2 DEF TypeOK
<1>11. ASSUME NEW x \in Sem, StartDevice(x) PROVE Goal
  BY <1>5, <1>11 DEF StartDevice, semVars, threadVars
<1>12. CASE IdleHalts \/ AskForYield \/ Stopped \/ UNCHANGED vars
  BY <1>5, <1>12 DEF IdleHalts, AskForYield, Stopped, vars, semVars, threadVars
<1> HIDE DEF Goal
<1> QED BY <1>1, <1>2, <1>3, <1>4, <1>6, <1>7, <1>8, <1>9, <1>10, <1>11, <1>12
        DEF Next, KernelStep, ThreadStep

\* Under the scheduler each semaphore behaves as module Semaphore says, where
\* the threads interleave freely (the safety part of ImplementsSemaphore, for
\* every semaphore): what ComponentProofs shows of that module holds in the
\* kernel.
THEOREM SemaphoreRefined == ASSUME NEW s \in Sem PROVE Spec => SemaphoreOf(s)!Spec
<1>1. Init => SemaphoreOf(s)!Init
  <2> SUFFICES ASSUME Init PROVE SemaphoreOf(s)!Init
    OBVIOUS
  <2>1. \A t \in Thread : at[t] # s
    BY KernelAssumption DEF Init
  <2> QED BY <2>1 DEF Init, SemaphoreOf!Init, Standing
<1>2. Init => SignalsBounded
  BY KernelAssumption DEF Init, SignalsBounded
<1>3. IInv /\ SignalsBounded /\ [Next]_vars
         => SignalsBounded' /\ [SemaphoreOf(s)!Next]_(SemaphoreOf(s)!vars)
  BY BoundLemma, SemStep
<1> QED BY InvHolds, <1>1, <1>2, <1>3, PTL DEF Spec, SemaphoreOf!Spec
=============================================================================
