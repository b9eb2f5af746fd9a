-------------------------------- MODULE Kernel --------------------------------
(***************************************************************************)
(* The thread system of Nachos on its single simulated processor:          *)
(* threads/thread.cc, threads/scheduler.cc, the semaphores of              *)
(* threads/synch.cc and the part of machine/interrupt.cc that decides when *)
(* a thread loses the processor.                                           *)
(*                                                                         *)
(* A section of code that runs with interrupts disabled and does not       *)
(* switch threads is one action.  While interrupts are enabled the running *)
(* thread may be switched out between any two actions: by the timer, or by *)
(* the ptrace-based scheduler of threads/preemptive.cc.                    *)
(***************************************************************************)
EXTENDS Integers, Sequences, FiniteSets

CONSTANTS Thread,         \* all thread control blocks ever allocated
          main,           \* the thread Initialize() runs in
          Sem,            \* the semaphores
          InitialValue,   \* [Sem -> Nat], the constructor's initialValue
          MaxValue,       \* bound on a semaphore's value, counting the V's of the
                          \* device interrupts scheduled for it
          NULL

ASSUME KernelAssumption ==
    /\ IsFiniteSet(Thread)
    /\ main \in Thread
    /\ NULL \notin Thread
    /\ InitialValue \in [Sem -> Nat]
    /\ MaxValue \in Nat
    /\ Sem \cap {"ThreadRoot", "Body", "Yield", "Finish"} = {}

\* An InitialValue: no semaphore has a unit at first, as the one of SynchDisk.
AllZero == [s \in Sem |-> 0]

VARIABLES currentThread,         \* the global of threads/system.cc
          status,                \* Thread::status
          at,                    \* where the thread's kernel stack is
          readyList,             \* Scheduler::readyList
          threadToBeDestroyed,   \* the global of threads/system.cc
          level,                 \* Interrupt::level
          yieldOnReturn,         \* Interrupt::yieldOnReturn
          idling,                \* Interrupt::status = IdleMode
          pending,               \* device interrupts scheduled, by the semaphore
                                 \* their handler signals
          value, queue,          \* Semaphore::value and Semaphore::queue
          halted                 \* Interrupt::Halt was called

threadVars == <<currentThread, status, at, readyList, threadToBeDestroyed>>
interruptVars == <<level, yieldOnReturn, idling, pending, halted>>
semVars == <<value, queue>>
vars == <<threadVars, interruptVars, semVars>>

\* ThreadStatus of threads/thread.h; UNUSED and DELETED are a control block
\* before its constructor and after its destructor.
ThreadStatus == {"UNUSED", "JUST_CREATED", "RUNNING", "READY", "BLOCKED", "DELETED"}

\* ThreadRoot: will start in ThreadRoot when first dispatched.  Body: in the
\* forked procedure, interrupts enabled.  Yield, Finish: inside that method.
\* A semaphore: inside its P.
Place == {"ThreadRoot", "Body", "Yield", "Finish"} \cup Sem

Init ==
    /\ currentThread = main
    /\ status = [t \in Thread |-> IF t = main THEN "RUNNING" ELSE "UNUSED"]
    /\ at = [t \in Thread |-> IF t = main THEN "Body" ELSE "ThreadRoot"]
    /\ readyList = <<>>
    /\ threadToBeDestroyed = NULL
    /\ level = "IntOn"
    /\ yieldOnReturn = FALSE
    /\ idling = FALSE
    /\ pending = [s \in Sem |-> 0]
    /\ value = InitialValue
    /\ queue = [s \in Sem |-> <<>>]
    /\ halted = FALSE
-----------------------------------------------------------------------------
\* The current thread executes its own code: it may call the kernel.  A yield
\* the tick asked for comes first.
InBody ==
    /\ ~halted
    /\ level = "IntOn"
    /\ ~yieldOnReturn

\* The current thread is in the loop of Thread::Sleep, looking for another.
InSleep ==
    /\ ~halted
    /\ status[currentThread] # "RUNNING"

\* The current thread was just dispatched, interrupts are still disabled.
Dispatched ==
    /\ ~halted
    /\ level = "IntOff"
    /\ status[currentThread] = "RUNNING"

\* Scheduler::Run(next), up to SWITCH, when next was the head of the list.
Run(newStatus, newList) ==
    /\ currentThread' = Head(readyList)
    /\ status' = [newStatus EXCEPT ![Head(readyList)] = "RUNNING"]
    /\ readyList' = newList

\* Semaphore::V, up to restoring the interrupt level: the first waiter, if
\* somebody has to be woken, becomes ready, and value becomes newValue.
WakeOne(s, wake, newValue) ==
    /\ value' = [value EXCEPT ![s] = newValue]
    /\ IF wake
       THEN LET t == Head(queue[s])
            IN  /\ queue' = [queue EXCEPT ![s] = Tail(@)]
                /\ status' = [status EXCEPT ![t] = "READY"]
                /\ readyList' = Append(readyList, t)
       ELSE UNCHANGED <<queue, status, readyList>>

\* Mutant: V wakes a waiter only when value was 0.
DoVAtZero(s) == WakeOne(s, queue[s] # <<>> /\ value[s] = 0, value[s] + 1)

\* Mutant: V hands its unit to the waiter it wakes, although P tests again.
DoVHandsOver(s) ==
    WakeOne(s, queue[s] # <<>>, value[s] + (IF queue[s] # <<>> THEN 0 ELSE 1))

DoV(s) == WakeOne(s, queue[s] # <<>>, value[s] + 1)

\* One turn of the loop in Semaphore::P, with interrupts disabled: "alive" is
\* the status function before it.
TestAndTake(s, alive, mustSleep) ==
    IF mustSleep
    THEN /\ queue' = [queue EXCEPT ![s] = Append(@, currentThread)]
         /\ status' = [alive EXCEPT ![currentThread] = "BLOCKED"]
         /\ at' = [at EXCEPT ![currentThread] = s]
         /\ level' = "IntOff"
         /\ UNCHANGED value
    ELSE /\ value' = [value EXCEPT ![s] = @ - 1]
         /\ status' = alive
         /\ at' = [at EXCEPT ![currentThread] = "Body"]
         /\ level' = "IntOn"
         /\ UNCHANGED queue

DoP(s, alive) == TestAndTake(s, alive, value[s] = 0)

\* The end of Scheduler::Run: "delete threadToBeDestroyed".
Reaped == IF threadToBeDestroyed = NULL
          THEN status
          ELSE [status EXCEPT ![threadToBeDestroyed] = "DELETED"]
-----------------------------------------------------------------------------
\* new Thread(...)
NewThread(t) ==
    /\ InBody
    /\ status[t] = "UNUSED"
    /\ status' = [status EXCEPT ![t] = "JUST_CREATED"]
    /\ UNCHANGED <<currentThread, at, readyList, threadToBeDestroyed, interruptVars, semVars>>

\* t->Fork(...)
Fork(t) ==
    /\ InBody
    /\ status[t] = "JUST_CREATED"
    /\ status' = [status EXCEPT ![t] = "READY"]
    /\ readyList' = Append(readyList, t)
    /\ UNCHANGED <<currentThread, at, threadToBeDestroyed, interruptVars, semVars>>

\* currentThread->Yield(): called by the thread, or at an arbitrary machine
\* instruction by ContextSwitch() of preemptive.cc, or by OneTick when a
\* handler asked for it.  Nothing happens if no thread is ready; otherwise
\* the first ready thread runs and newList is the ready list.  OneTick resets
\* yieldOnReturn first; ContextSwitch() leaves it as it is.
YieldLeaving(newList) ==
    /\ ~halted
    /\ level = "IntOn"
    /\ yieldOnReturn' \in {FALSE, yieldOnReturn}
    /\ IF readyList = <<>>
       THEN UNCHANGED <<threadVars, level>>
       ELSE /\ Run([status EXCEPT ![currentThread] = "READY"], newList)
            /\ at' = [at EXCEPT ![currentThread] = "Yield"]
            /\ level' = "IntOff"
            /\ UNCHANGED threadToBeDestroyed
    /\ UNCHANGED <<idling, pending, halted, semVars>>

\* Mutant: the next thread is looked at but not removed from the list.
YieldKeepsHead == YieldLeaving(Append(readyList, currentThread))

\* Mutant: the yielding thread is put in front of the list.
YieldPrepends == YieldLeaving(<<currentThread>> \o Tail(readyList))

Yield == YieldLeaving(Append(Tail(readyList), currentThread))

\* Mutant: interrupts stay enabled between setting threadToBeDestroyed and
\* going to sleep.
FinishInterruptible ==
    /\ InBody
    /\ threadToBeDestroyed' = currentThread
    /\ UNCHANGED <<currentThread, status, at, readyList, interruptVars, semVars>>

\* currentThread->Finish(), up to the loop of Sleep.
Finish ==
    /\ InBody
    /\ threadToBeDestroyed' = currentThread
    /\ status' = [status EXCEPT ![currentThread] = "BLOCKED"]
    /\ at' = [at EXCEPT ![currentThread] = "Finish"]
    /\ level' = "IntOff"
    /\ UNCHANGED <<currentThread, readyList, yieldOnReturn, idling, pending, halted, semVars>>

\* s->P() called by the current thread.
P(s) ==
    /\ InBody
    /\ DoP(s, status)
    /\ UNCHANGED <<currentThread, readyList, threadToBeDestroyed,
                   yieldOnReturn, idling, pending, halted>>

\* s->V() called by the current thread.
V(s) ==
    /\ InBody
    /\ value[s] + pending[s] < MaxValue
    /\ DoV(s)
    /\ UNCHANGED <<currentThread, at, threadToBeDestroyed, interruptVars>>

\* A device operation: the device schedules an interrupt whose handler will
\* signal s (for the disk: SynchDisk::RequestDone).
StartDevice(s) ==
    /\ InBody
    /\ value[s] + pending[s] < MaxValue
    /\ pending' = [pending EXCEPT ![s] = @ + 1]
    /\ UNCHANGED <<threadVars, level, yieldOnReturn, idling, halted, semVars>>
-----------------------------------------------------------------------------
\* Thread::Sleep finds a ready thread and runs it.
SleepRuns ==
    /\ InSleep
    /\ readyList # <<>>
    /\ Run(status, Tail(readyList))
    /\ idling' = FALSE
    /\ UNCHANGED <<at, threadToBeDestroyed, level, yieldOnReturn, pending, halted, semVars>>

\* Interrupt::Idle() with a device interrupt to wait for: the clock advances
\* to it and its handler runs, as do the handlers due at the same time.  A
\* yield asked for meanwhile is forgotten.
Idle(s) ==
    /\ InSleep
    /\ readyList = <<>> \/ idling
    /\ pending[s] > 0
    /\ pending' = [pending EXCEPT ![s] = @ - 1]
    /\ idling' = TRUE
    /\ yieldOnReturn' = FALSE
    /\ DoV(s)
    /\ UNCHANGED <<currentThread, at, threadToBeDestroyed, level, halted>>

\* Interrupt::Idle() with nothing pending but the timer: Halt().
IdleHalts ==
    /\ InSleep
    /\ readyList = <<>>
    /\ \A s \in Sem : pending[s] = 0
    /\ halted' = TRUE
    /\ UNCHANGED <<threadVars, level, yieldOnReturn, idling, pending, semVars>>

\* First dispatch: SWITCH enters ThreadRoot, which enables interrupts and
\* calls the forked procedure.  It does not return into Scheduler::Run, so
\* nothing is reaped.
ResumeInThreadRoot ==
    /\ Dispatched
    /\ at[currentThread] = "ThreadRoot"
    /\ at' = [at EXCEPT ![currentThread] = "Body"]
    /\ level' = "IntOn"
    /\ UNCHANGED <<currentThread, status, readyList, threadToBeDestroyed,
                   yieldOnReturn, idling, pending, halted, semVars>>

\* SWITCH returns into Scheduler::Run called by Yield, which reaps, and then
\* enables interrupts.
ResumeInYield ==
    /\ Dispatched
    /\ at[currentThread] = "Yield"
    /\ status' = Reaped
    /\ threadToBeDestroyed' = NULL
    /\ at' = [at EXCEPT ![currentThread] = "Body"]
    /\ level' = "IntOn"
    /\ UNCHANGED <<currentThread, readyList, yieldOnReturn, idling, pending, halted, semVars>>

\* SWITCH returns into Scheduler::Run called by Sleep in s->P(): reap, and
\* test value again.
ResumeInP(s) ==
    /\ Dispatched
    /\ at[currentThread] = s
    /\ threadToBeDestroyed' = NULL
    /\ DoP(s, Reaped)
    /\ UNCHANGED <<currentThread, readyList, yieldOnReturn, idling, pending, halted>>
-----------------------------------------------------------------------------
\* The timer interrupts the thread (or preemptive.cc finds interrupts
\* disabled): a yield is asked for.
AskForYield ==
    /\ ~halted
    /\ ~yieldOnReturn
    /\ yieldOnReturn' = TRUE
    /\ UNCHANGED <<threadVars, level, idling, pending, halted, semVars>>

\* OneTick runs the handler of a device interrupt that is due.
DeviceInterrupt(s) ==
    /\ ~halted
    /\ level = "IntOn"
    /\ pending[s] > 0
    /\ pending' = [pending EXCEPT ![s] = @ - 1]
    /\ DoV(s)
    /\ UNCHANGED <<currentThread, at, threadToBeDestroyed, level, yieldOnReturn, idling, halted>>

\* The simulator has exited.
Stopped == halted /\ UNCHANGED vars

\* What the processor does next whether threads like it or not.
KernelStep ==
    \/ SleepRuns
    \/ \E s \in Sem : Idle(s)
    \/ IdleHalts
    \/ ResumeInThreadRoot
    \/ ResumeInYield
    \/ \E s \in Sem : ResumeInP(s)

ThreadStep ==
    \/ \E t \in Thread : NewThread(t) \/ Fork(t)
    \/ Yield
    \/ Finish
    \/ \E s \in Sem : P(s) \/ V(s) \/ StartDevice(s)

Next ==
    \/ KernelStep
    \/ ThreadStep
    \/ AskForYield
    \/ \E s \in Sem : DeviceInterrupt(s)
    \/ Stopped

Spec == Init /\ [][Next]_vars

\* The processor does not stop, and time slicing is on (the timer of "-rs" or
\* preemptive scheduling of "-p"): sooner or later a yield is asked for, and
\* OneTick carries it out.  Nothing is assumed of the threads' own calls.
Fairness ==
    /\ WF_vars(KernelStep)
    /\ WF_vars(AskForYield)
    /\ WF_vars(yieldOnReturn /\ Yield)

FairSpec == Spec /\ Fairness
-----------------------------------------------------------------------------
\* Types of the kernel's variables.
TypeOK ==
    /\ currentThread \in Thread
    /\ status \in [Thread -> ThreadStatus]
    /\ at \in [Thread -> Place]
    /\ readyList \in Seq(Thread)
    /\ threadToBeDestroyed \in Thread \cup {NULL}
    /\ level \in {"IntOn", "IntOff"}
    /\ yieldOnReturn \in BOOLEAN
    /\ idling \in BOOLEAN
    /\ pending \in [Sem -> Nat]
    /\ value \in [Sem -> Nat]
    /\ queue \in [Sem -> Seq(Thread)]
    /\ halted \in BOOLEAN

Times(t, list) == Cardinality({i \in 1..Len(list) : list[i] = t})

\* No thread is lost and none is in two places: a READY thread is on the ready
\* list once, a thread BLOCKED in P is on that semaphore's queue once, every
\* other thread is on no list, and only currentThread is RUNNING.  Thread,
\* Scheduler and Semaphore each update their part of this; a thread on two
\* lists would be run twice, one on none would never run again.
ThreadsInOnePlace ==
    /\ TypeOK
    /\ \A t \in Thread :
          /\ Times(t, readyList) = IF status[t] = "READY" THEN 1 ELSE 0
          /\ \A s \in Sem :
                Times(t, queue[s]) = IF status[t] = "BLOCKED" /\ at[t] = s THEN 1 ELSE 0
          /\ status[t] = "RUNNING" => t = currentThread

\* The thread waiting to be destroyed has finished, and Scheduler::Run deletes
\* it only on another thread's stack (the ASSERT of thread.cc:64); so a
\* deleted control block was never one that could still run.
ReapedAfterFinish ==
    /\ threadToBeDestroyed # NULL =>
          /\ at[threadToBeDestroyed] = "Finish"
          /\ status[threadToBeDestroyed] = "BLOCKED"
          /\ Dispatched => threadToBeDestroyed # currentThread
    /\ \A t \in Thread : status[t] = "DELETED" => at[t] = "Finish"

\* Interrupt::Idle assumes that nothing is left to do when it halts
\* (interrupt.cc:225): every forked thread has finished or sleeps in P on a
\* semaphore that has no unit, which no interrupt is going to signal.
HaltsOnlyWhenStuck ==
    halted =>
       \A t \in Thread :
          \/ status[t] \in {"UNUSED", "JUST_CREATED", "DELETED"}
          \/ at[t] = "Finish"
          \/ at[t] \in Sem /\ status[t] = "BLOCKED" /\ value[at[t]] = 0 /\ pending[at[t]] = 0

\* A ready thread gets the processor: Yield and Sleep take the first of the
\* ready list and ReadyToRun appends (scheduler.cc:53-74).
ReadyRuns == \A t \in Thread : status[t] = "READY" ~> status[t] = "RUNNING"

\* Where the threads stand with respect to semaphore s, in the terms of module
\* Semaphore.
Standing(s) == [t \in Thread |-> IF at[t] # s THEN "out"
                                 ELSE IF status[t] = "BLOCKED" THEN "blocked"
                                 ELSE "woken"]

\* A semaphore, under this scheduler, behaves as module Semaphore says when its
\* threads interleave freely, including that a thread V made ready goes on
\* inside P.  (Any one semaphore: they are interchangeable.)
AnySem == CHOOSE s \in Sem : TRUE

FreeSemaphore == INSTANCE Semaphore
    WITH InitialValue <- InitialValue[AnySem], value <- value[AnySem],
         queue <- queue[AnySem], pc <- Standing(AnySem)

ImplementsSemaphore == FreeSemaphore!FairSpec

\* The comment on Thread::Finish (thread.cc:137-141): "we set
\* threadToBeDestroyed, so that Scheduler::Run() will call the destructor,
\* once we're running in the context of a different thread."  A finished
\* thread that is not destroyed is still running, or still remembered.
FinishedIsRemembered ==
    \A t \in Thread :
       at[t] = "Finish" /\ status[t] # "DELETED" => t \in {currentThread, threadToBeDestroyed}
=============================================================================
