----------------------------- MODULE Processes -----------------------------
(***************************************************************************)
(* The process system calls of userprog/exception.cc: Exec, Join, Exit,    *)
(* Fork, Yield and Halt, with the kernel threads that execute them.        *)
(*                                                                         *)
(* A thread is known to the code by the address of its Thread object       *)
(* (archivosEjec::hilo holds it), so Threads is the set of addresses the   *)
(* allocator can return and an address is reused once its thread has been  *)
(* deleted.  Interrupts are enabled in user code and wherever a handler    *)
(* returns from SetLevel(IntOn); those are the values of pc, and Preempt   *)
(* is the time slice (nachos -rs) that can fall at each of them.  The only *)
(* device is the timer, so a CPU without a ready thread halts the machine  *)
(* (Interrupt::Idle).                                                      *)
(***************************************************************************)
EXTENDS Integers, Sequences

CONSTANTS
    Threads,    \* addresses of Thread objects
    Main,       \* the thread StartProcess runs in
    Null,       \* the null pointer
    MaxExec,    \* bound: calls of Exec
    Statuses    \* values a program can pass to Exit

ProcessesAssumption ==
    /\ Main \in Threads /\ Null \notin Threads
    /\ MaxExec \in Nat
    /\ Statuses \subseteq Int

VARIABLES
    current,        \* currentThread
    ready,          \* scheduler->readyList
    status,         \* Thread::status, "none" for an address not in use
    pc,             \* where each thread is, see Points
    toBeDestroyed,  \* threadToBeDestroyed: the empty set or one thread
    ejecutables,    \* the vector of archivosEjec, one per Exec
    archivoAE,      \* the global counter that Exec returns
    r2,             \* register 2, as a handler last wrote it
    halted,         \* Interrupt::Halt was called
    program,        \* history: thread |-> the Exec that created it, or -1
    callId,         \* history: thread |-> id its Exec or Join call is about, or -1
    inTime,         \* history: threads that joined a program before it finished
    finished        \* history: id |-> exit status, or Unopened

kernel == <<current, ready, status, toBeDestroyed, halted>>
history == <<program, callId, inTime, finished>>
vars == <<kernel, pc, ejecutables, archivoAE, r2, history>>

\* The program points at which a thread can lose the CPU.
Points == {"none", "execStart", "execOpen", "forkStart", "forkRun", "user",
           "execRet", "forkRet", "joinWait", "joinRet", "exited"}

\* Marks a program whose executable could not be opened.
Unopened == -1000

Entry(t) == [hilo |-> t, sem |-> Null, hiloJ |-> Null]

TypeOK ==
    /\ current \in Threads
    /\ ready \in Seq(Threads)
    /\ status \in [Threads -> {"none", "RUNNING", "READY", "BLOCKED"}]
    /\ pc \in [Threads -> Points]
    /\ toBeDestroyed \in SUBSET Threads /\ (\A t, u \in toBeDestroyed : t = u)
    /\ \A i \in DOMAIN ejecutables :
          /\ ejecutables[i].hilo \in Threads
          /\ {ejecutables[i].sem, ejecutables[i].hiloJ} \subseteq Threads \cup {Null}
    /\ Len(ejecutables) <= MaxExec
    /\ archivoAE = Len(ejecutables) - 1
    /\ r2 \in -1 .. MaxExec
    /\ halted \in BOOLEAN
    /\ program \in [Threads -> -1 .. MaxExec - 1]
    /\ callId \in [Threads -> -1 .. MaxExec - 1]
    /\ inTime \subseteq Threads
    /\ DOMAIN finished \subseteq 0 .. MaxExec - 1

\* long archivoAE = -1
InitialAE == -1

\* StartProcess has loaded the program and entered machine->Run.
Init ==
    /\ current = Main
    /\ ready = <<>>
    /\ status = [t \in Threads |-> IF t = Main THEN "RUNNING" ELSE "none"]
    /\ pc = [t \in Threads |-> IF t = Main THEN "user" ELSE "none"]
    /\ toBeDestroyed = {}
    /\ ejecutables = <<>>
    /\ archivoAE = InitialAE
    /\ r2 = 0
    /\ halted = FALSE
    /\ program = [t \in Threads |-> -1]
    /\ callId = [t \in Threads |-> -1]
    /\ inTime = {}
    /\ finished = <<>>

\* The threads of a list.
Listed(queue) == {queue[i] : i \in DOMAIN queue}

At(t, point) == ~halted /\ current = t /\ pc[t] = point

\* A thread resumes either inside an earlier Scheduler::Run, whose tail
\* deletes the finished thread, or for the first time in ThreadRoot.
Started(point) == CASE point = "execStart" -> "execOpen"
                    [] point = "forkStart" -> "forkRun"
                    [] OTHER -> point

\* Scheduler::FindNextToRun removes the head of the ready list.
Rest(queue) == Tail(queue)

\* Scheduler::Run of the head of queue, after the handler left the statuses
\* st, the points at, and the thread of doomed to be deleted.  The SaveState of
\* the old thread's space is left out: it reads machine->tlb, which is NULL when
\* USE_TLB is not defined, so that build stops at the first switch away from a
\* user program; everything here is about switches that go through.
Run(queue, st, at, doomed) ==
    LET next == Head(queue)
        reaped == IF Started(at[next]) = at[next] THEN doomed ELSE {}
    IN  /\ current' = next
        /\ ready' = Rest(queue)
        /\ status' = [t \in Threads |-> IF t \in reaped THEN "none"
                                        ELSE IF t = next THEN "RUNNING" ELSE st[t]]
        /\ pc' = [t \in Threads |-> IF t \in reaped THEN "none"
                                    ELSE IF t = next THEN Started(at[t]) ELSE at[t]]
        /\ toBeDestroyed' = doomed \ reaped
        /\ UNCHANGED halted

\* Thread::Sleep: with no thread ready, Interrupt::Idle halts the machine.
Sleep(t, queue, at, doomed) ==
    LET st == [status EXCEPT ![t] = "BLOCKED"] IN
    IF queue # <<>> THEN Run(queue, st, at, doomed)
    ELSE /\ halted' = TRUE
         /\ status' = st
         /\ pc' = at
         /\ toBeDestroyed' = doomed
         /\ UNCHANGED <<current, ready>>

\* Thread::Yield, reached from a system call or from a timer interrupt.
Yield(t, point) ==
    LET at == [pc EXCEPT ![t] = point] IN
    IF ready = <<>> THEN pc' = at /\ UNCHANGED kernel
    ELSE Run(Append(ready, t), [status EXCEPT ![t] = "READY"], at, toBeDestroyed)

Preempt(t) ==
    /\ ~halted /\ current = t
    /\ ready # <<>>
    /\ Yield(t, pc[t])
    /\ UNCHANGED <<ejecutables, archivoAE, r2, history>>

\* new Thread(...) at an unused address, then Thread::Fork into point.
NewThread(t, new, mine, point) ==
    /\ status[new] = "none"
    /\ status' = [status EXCEPT ![new] = "READY"]
    /\ ready' = Append(ready, new)
    /\ pc' = [pc EXCEPT ![t] = mine, ![new] = point]
    /\ UNCHANGED <<current, toBeDestroyed, halted>>

\* Nachos_Exec up to the return of newT->Fork, which enables interrupts.
Exec(t) ==
    /\ At(t, "user")
    /\ Len(ejecutables) < MaxExec
    /\ archivoAE' = archivoAE + 1
    /\ \E new \in Threads :
          /\ NewThread(t, new, "execRet", "execStart")
          /\ ejecutables' = Append(ejecutables, Entry(new))
          /\ program' = [program EXCEPT ![new] = Len(ejecutables)]
    /\ callId' = [callId EXCEPT ![t] = Len(ejecutables)]
    /\ UNCHANGED <<r2, inTime, finished>>

\* machine->WriteRegister(2, archivoAE): the counter as it is now.
ExecReturn(t) ==
    /\ At(t, "execRet")
    /\ r2' = archivoAE
    /\ pc' = [pc EXCEPT ![t] = "user"]
    /\ callId' = [callId EXCEPT ![t] = -1]
    /\ UNCHANGED <<kernel, ejecutables, archivoAE, program, inTime, finished>>

\* NachosExecThread: the executable opens and its program starts ...
ExecThreadStarts(t) ==
    /\ At(t, "execOpen")
    /\ pc' = [pc EXCEPT ![t] = "user"]
    /\ UNCHANGED <<kernel, ejecutables, archivoAE, r2, history>>

\* ... or it does not, and the function returns into Thread::Finish.
ExecThreadFails(t) ==
    /\ At(t, "execOpen")
    /\ Sleep(t, ready, [pc EXCEPT ![t] = "exited"], {t})
    /\ finished' = [i \in DOMAIN finished \cup {program[t]} |->
                       IF i = program[t] THEN Unopened ELSE finished[i]]
    /\ program' = [program EXCEPT ![t] = -1]
    /\ UNCHANGED <<ejecutables, archivoAE, r2, callId, inTime>>

\* Nachos_Join of an id the vector has: a new semaphore with value 0 replaces
\* the entry's, and the caller sleeps in its P.
Join(t) ==
    /\ At(t, "user")
    /\ \E id \in 0 .. Len(ejecutables) - 1 :
          /\ ejecutables' = [ejecutables EXCEPT ![id + 1] =
                                [hilo |-> @.hilo, sem |-> t, hiloJ |-> t]]
          /\ callId' = [callId EXCEPT ![t] = id]
          /\ inTime' = IF id \in DOMAIN finished THEN inTime ELSE inTime \cup {t}
    /\ Sleep(t, ready, [pc EXCEPT ![t] = "joinWait"], toBeDestroyed)
    /\ UNCHANGED <<archivoAE, r2, program, finished>>

JoinReturn(t) ==
    /\ At(t, "joinRet")
    /\ r2' = 1
    /\ pc' = [pc EXCEPT ![t] = "user"]
    /\ callId' = [callId EXCEPT ![t] = -1]
    /\ inTime' = inTime \ {t}
    /\ UNCHANGED <<kernel, ejecutables, archivoAE, program, finished>>

\* Nachos_Join of any other id.
JoinUnknown(t) ==
    /\ At(t, "user")
    /\ r2' = -1
    /\ UNCHANGED <<kernel, pc, ejecutables, archivoAE, history>>

\* Mutant: every joiner is woken, whoever exits.
WakingAnyProgram(t) == {i \in DOMAIN ejecutables : ejecutables[i].sem # Null}

\* The entries whose joiner Nachos_Exit wakes.
Waking(t) == {i \in DOMAIN ejecutables :
                 ejecutables[i].hilo = t /\ ejecutables[i].sem # Null}

\* The orders in which it may meet them: its loop runs up the vector, so one.
VectorOrders(t) ==
    {f \in UNION {[1 .. n -> Waking(t)] : n \in 0 .. Len(ejecutables)} :
        /\ \A k, l \in DOMAIN f : k < l => f[k] < f[l]
        /\ \A i \in Waking(t) : \E k \in DOMAIN f : f[k] = i}

\* The joiners it makes ready, in that order.
Woken(t) == {[k \in DOMAIN f |-> ejecutables[f[k]].sem] : f \in VectorOrders(t)}

AfterExit(t) == [i \in DOMAIN ejecutables |->
                   IF i \in Waking(t) THEN [ejecutables[i] EXCEPT !.sem = Null]
                                      ELSE ejecutables[i]]

\* The thread that called Exit leaves the CPU: through Thread::Finish when no
\* thread is ready, and otherwise by Scheduler::Run, its own status untouched.
ExitLeaves(t, queue, st, at) ==
    IF queue = <<>> THEN Sleep(t, queue, at, {t})
    ELSE Run(queue, st, at, toBeDestroyed)

Exit(t, value) ==
    /\ At(t, "user")
    /\ \E woken \in Woken(t) :
          LET st == [u \in Threads |-> IF u \in Listed(woken) THEN "READY" ELSE status[u]]
              at == [u \in Threads |-> IF u \in Listed(woken) THEN "joinRet"
                                       ELSE IF u = t THEN "exited" ELSE pc[u]]
          IN  ExitLeaves(t, ready \o woken, st, at)
    /\ ejecutables' = AfterExit(t)
    /\ finished' = [i \in DOMAIN finished \cup ({program[t]} \ {-1}) |->
                       IF i = program[t] THEN value ELSE finished[i]]
    /\ program' = [program EXCEPT ![t] = -1]
    /\ UNCHANGED <<archivoAE, r2, callId, inTime>>

\* Nachos_Fork: a thread at a routine of the same program, then Yield.
Fork(t) ==
    /\ At(t, "user")
    /\ \E new \in Threads : NewThread(t, new, "forkRet", "forkStart")
    /\ UNCHANGED <<ejecutables, archivoAE, r2, history>>

ForkYields(t) ==
    /\ At(t, "forkRet")
    /\ Yield(t, "user")
    /\ UNCHANGED <<ejecutables, archivoAE, r2, history>>

\* NachosForkThread sets the registers and enters machine->Run.
ForkThreadStarts(t) ==
    /\ At(t, "forkRun")
    /\ pc' = [pc EXCEPT ![t] = "user"]
    /\ UNCHANGED <<kernel, ejecutables, archivoAE, r2, history>>

SyscallYield(t) ==
    /\ At(t, "user")
    /\ Yield(t, "user")
    /\ UNCHANGED <<ejecutables, archivoAE, r2, history>>

Halt(t) ==
    /\ At(t, "user")
    /\ halted' = TRUE
    /\ UNCHANGED <<current, ready, status, toBeDestroyed, pc, ejecutables,
                   archivoAE, r2, history>>

Step(t) ==
    \/ Preempt(t)
    \/ Exec(t) \/ ExecReturn(t) \/ ExecThreadStarts(t) \/ ExecThreadFails(t)
    \/ Join(t) \/ JoinReturn(t) \/ JoinUnknown(t)
    \/ \E value \in Statuses : Exit(t, value)
    \/ Fork(t) \/ ForkYields(t) \/ ForkThreadStarts(t)
    \/ SyscallYield(t) \/ Halt(t)

Next == \E t \in Threads : Step(t)

Spec == Init /\ [][Next]_vars

-----------------------------------------------------------------------------
(* What the code keeps. *)

\* A thread is on the ready list exactly when its status says so, and once:
\* Exit wakes joiners and dispatches in one go with interrupts off, and no
\* combination of Exit, Join and the time slice queues a thread twice.
ReadyExactlyOnce ==
    /\ \A i, j \in DOMAIN ready : ready[i] = ready[j] => i = j
    /\ \A t \in Threads : t \in Listed(ready) <=> status[t] = "READY"

\* Exit never returns to the program: the thread that called it is neither
\* dispatched nor ready again, although its status still says RUNNING.
ExitedNeverRuns ==
    \A t \in Threads : pc[t] = "exited" /\ ~halted => t # current /\ t \notin Listed(ready)

\* A semaphore pointer left in the vector belongs to a thread that sleeps in
\* Join for that entry: Exit clears it as it wakes the joiner, so no later
\* Exit at a reused thread address signals a joiner that has gone on.
SemNamesWaiter ==
    \A i \in DOMAIN ejecutables :
        LET t == ejecutables[i].sem
        IN  t # Null => pc[t] = "joinWait" /\ callId[t] = i - 1

\* Join returns 1 only after the program it names has finished, also when the
\* finished thread's address was given to another one (syscall.h).
JoinWaitsForFinish ==
    \A t \in Threads : pc[t] = "joinRet" => callId[t] \in DOMAIN finished

\* The last thread to join a program before it exits is woken by that exit.
LastJoinerIsServed ==
    \A t \in inTime :
        /\ pc[t] = "joinWait"
        /\ ejecutables[callId[t] + 1].hiloJ = t
        /\ callId[t] \in DOMAIN finished
        => finished[callId[t]] = Unopened

\* A thread is on the ready list exactly once while its status says READY and the
\* thread that called Exit never runs again; a semaphore pointer in ejecutables
\* belongs to a thread that sleeps in Join for that entry, although thread addresses
\* are reused; Join returns 1 only after the program it names has finished, and the
\* last thread to join a program is woken by its Exit.
JoinIsHonest ==
    /\ TypeOK
    /\ ReadyExactlyOnce
    /\ ExitedNeverRuns
    /\ SemNamesWaiter
    /\ JoinWaitsForFinish
    /\ LastJoinerIsServed
=============================================================================
