------------------------------ MODULE SynchDisk ------------------------------
(***************************************************************************)
(* filesys/synchdisk.cc on top of machine/disk.cc: threads that read and   *)
(* write sectors, the disk that takes one request at a time, and the       *)
(* interrupt that ends it.  The Lock is taken as module Monitor shows it   *)
(* to be (one holder, a free lock is taken), the semaphore as module       *)
(* Semaphore shows it to be (a counting semaphore).                        *)
(***************************************************************************)
EXTENDS Integers, FiniteSets

CONSTANTS Client, Sector, Data, NULL

ASSUME SynchDiskAssumption == Sector # {} /\ NULL \notin Client \cup Data

VARIABLES holder,      \* who has SynchDisk::lock, or NULL
          semaphore,   \* value of SynchDisk::semaphore
          active,      \* Disk::active
          scheduled,   \* DiskInt interrupts pending
          content,     \* the sectors in the UNIX file
          request,     \* the arguments of the call a thread is in
          buffer,      \* the "data" of a ReadSector call
          phase

diskVars == <<holder, semaphore, active, scheduled, content, request, buffer, phase>>

\* out -> enter (Acquire) -> go (Request) -> wait (P) -> leave (Release) -> out
DiskLocation == {"out", "enter", "go", "wait", "leave"}

\* A call: ReadSector(sector) when data is NULL, else WriteSector(sector, data).
Request == [sector : Sector, data : Data \cup {NULL}]

\* The arguments before a thread's first call.
NoRequest == [sector |-> CHOOSE s \in Sector : TRUE, data |-> NULL]

Goto(t, place) == phase' = [phase EXCEPT ![t] = place]

DiskInit ==
    /\ holder = NULL
    /\ semaphore = 0
    /\ active = FALSE
    /\ scheduled = 0
    /\ content \in [Sector -> Data]
    /\ request = [t \in Client |-> NoRequest]
    /\ buffer = [t \in Client |-> NULL]
    /\ phase = [t \in Client |-> "out"]

\* A thread calls ReadSector or WriteSector.
Call(t, r) ==
    /\ phase[t] = "out"
    /\ request' = [request EXCEPT ![t] = r]
    /\ buffer' = [buffer EXCEPT ![t] = NULL]
    /\ Goto(t, "enter")
    /\ UNCHANGED <<holder, semaphore, active, scheduled, content>>

\* lock->Acquire()
Acquire(t) ==
    /\ phase[t] = "enter"
    /\ holder = NULL
    /\ holder' = t
    /\ Goto(t, "go")
    /\ UNCHANGED <<semaphore, active, scheduled, content, request, buffer>>

\* Mutant: the lock is released as soon as the request is made.
DiskRequestUnlocks(t) ==
    /\ phase[t] = "go"
    /\ LET r == request[t]
       IN  IF r.data = NULL
           THEN buffer' = [buffer EXCEPT ![t] = content[r.sector]] /\ UNCHANGED content
           ELSE content' = [content EXCEPT ![r.sector] = r.data] /\ UNCHANGED buffer
    /\ active' = TRUE
    /\ scheduled' = scheduled + 1
    /\ holder' = NULL
    /\ Goto(t, "wait")
    /\ UNCHANGED <<semaphore, request>>

\* disk->ReadRequest / WriteRequest: the data moves at once, the interrupt is
\* scheduled.  ASSERT(!active) is property OneRequestAtATime.
DiskRequest(t) ==
    /\ phase[t] = "go"
    /\ LET r == request[t]
       IN  IF r.data = NULL
           THEN buffer' = [buffer EXCEPT ![t] = content[r.sector]] /\ UNCHANGED content
           ELSE content' = [content EXCEPT ![r.sector] = r.data] /\ UNCHANGED buffer
    /\ active' = TRUE
    /\ scheduled' = scheduled + 1
    /\ Goto(t, "wait")
    /\ UNCHANGED <<holder, semaphore, request>>

\* Mutant: the handler does not signal the semaphore.
HandleInterruptSilent ==
    /\ scheduled > 0
    /\ scheduled' = scheduled - 1
    /\ active' = FALSE
    /\ UNCHANGED <<holder, semaphore, content, request, buffer, phase>>

\* The disk interrupt: HandleInterrupt, then RequestDone.
HandleInterrupt ==
    /\ scheduled > 0
    /\ scheduled' = scheduled - 1
    /\ active' = FALSE
    /\ semaphore' = semaphore + 1
    /\ UNCHANGED <<holder, content, request, buffer, phase>>

\* semaphore->P() returns.
WaitForInterrupt(t) ==
    /\ phase[t] = "wait"
    /\ semaphore > 0
    /\ semaphore' = semaphore - 1
    /\ Goto(t, "leave")
    /\ UNCHANGED <<holder, active, scheduled, content, request, buffer>>

\* Mutant: the thread goes without releasing the lock.
ReleaseForgotten(t) ==
    /\ phase[t] = "leave"
    /\ Goto(t, "out")
    /\ UNCHANGED <<holder, semaphore, active, scheduled, content, request, buffer>>

\* lock->Release()
Release(t) ==
    /\ phase[t] = "leave"
    /\ holder' = NULL
    /\ Goto(t, "out")
    /\ UNCHANGED <<semaphore, active, scheduled, content, request, buffer>>

DiskNext ==
    \/ \E t \in Client :
          \/ \E r \in Request : Call(t, r)
          \/ Acquire(t)
          \/ DiskRequest(t)
          \/ WaitForInterrupt(t)
          \/ Release(t)
    \/ HandleInterrupt

DiskSpec == DiskInit /\ [][DiskNext]_diskVars

\* The clock reaches the interrupt, the holder of the lock goes on, and a free
\* lock is taken by some thread that wants it: the last is all that a Lock
\* promises (MesaMonitor!AbsSpec), no particular thread is favoured.
DiskFairness ==
    /\ WF_diskVars(HandleInterrupt)
    /\ \A t \in Client : WF_diskVars(DiskRequest(t) \/ WaitForInterrupt(t) \/ Release(t))
    /\ WF_diskVars(\E t \in Client : Acquire(t))

FairDiskSpec == DiskSpec /\ DiskFairness
-----------------------------------------------------------------------------
\* Types; the semaphore and the pending interrupts are at most one each.
DiskTypeOK ==
    /\ holder \in Client \cup {NULL}
    /\ semaphore \in 0..1
    /\ active \in BOOLEAN
    /\ scheduled \in 0..1
    /\ content \in [Sector -> Data]
    /\ request \in [Client -> Request]
    /\ buffer \in [Client -> Data \cup {NULL}]
    /\ phase \in [Client -> DiskLocation]

\* The ASSERT(!active) of ReadRequest and WriteRequest (disk.cc:120 and 140)
\* holds whenever a thread gets there: the lock is kept until the interrupt of
\* the request before has come.
OneRequestAtATime == \A t \in Client : phase[t] = "go" => ~active

\* P returns to a thread only for the interrupt of its own request: requests
\* under way, completions and waiting threads match one to one
\* (synchdisk.cc:72-109).
CompletionIsMine ==
    /\ DiskTypeOK
    /\ semaphore + scheduled = Cardinality({t \in Client : phase[t] = "wait"})
    /\ active <=> scheduled = 1
    /\ \A t \in Client : phase[t] = "leave" => ~active

\* What ReadSector returns is what the sector holds at that moment, not an
\* older content: nobody writes between the transfer and the return.
ReadIsCurrent ==
    \A t \in Client :
       phase[t] \in {"wait", "leave"} /\ request[t].data = NULL
          => buffer[t] = content[request[t].sector]

\* Once a thread has the disk its call returns ("Return only after the data has
\* been read", synchdisk.cc:66), and while calls are waiting some call gets the
\* disk.
CallsReturn ==
    /\ \A t \in Client : phase[t] = "go" ~> phase[t] = "out"
    /\ (\E t \in Client : phase[t] = "enter") ~> (\E t \in Client : phase[t] = "go")
=============================================================================
