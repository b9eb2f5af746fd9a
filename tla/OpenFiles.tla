------------------------------ MODULE OpenFiles ------------------------------
(***************************************************************************)
(* The file system calls Create, Open, Read, Write, Close and Fork of      *)
(* userprog/exception.cc with the table of open files that every Thread    *)
(* has, NachosOpenFilesTable.  The files are UNIX files; UNIX's            *)
(* descriptors are external.  Read and Write hold the semaphore Console.   *)
(* What the calls copy to and from user memory is in module UserCopy.      *)
(*                                                                         *)
(* The constructor of the table points openFiles at an array on its own    *)
(* stack, which is gone when it returns: a later read of an entry finds    *)
(* what was stored or anything that a later call left there (Stray).       *)
(***************************************************************************)
EXTENDS Integers, Sequences, FiniteSets

CONSTANTS Thread, main,     \* main is the thread that runs first
          File, NoFile,     \* names of UNIX files
          Tty,              \* the terminal, open on 0, 1 and 2
          maxArch,
          Handle,           \* UNIX descriptors, 0 .. n
          Stray,            \* what a read beyond the frame may find
          Closes,           \* arguments of Close
          MaxOpens, MaxCalls

OpenFilesAssumption ==
    /\ main \in Thread /\ IsFiniteSet(Thread)
    /\ Tty \in File /\ NoFile \notin File
    /\ 0 .. 2 \subseteq Handle /\ maxArch \in Nat /\ maxArch > 2

VARIABLES exists,           \* UNIX files
          descriptor,       \* UNIX handle |-> the file it is open on, or NoFile
          started,          \* threads that run
          marked,           \* thread |-> openFilesMap
          openFiles,        \* thread |-> id |-> UNIX handle last stored, id -1 the word before
          named,            \* ghost: thread |-> id |-> the name given to Open
          console,          \* value of the semaphore Console
          pc,               \* thread |-> "user", or where in Read or Write it is
          call,             \* thread |-> its Read or Write: what and the id
          target,           \* ghost: the file the last Read or Write went to
          opens, made       \* bounds

vars == <<exists, descriptor, started, marked, openFiles, named, console, pc, call, target, opens, made>>

tableVars == <<marked, openFiles, named>>
Id == 0 .. maxArch - 1

Init ==
    /\ exists = {Tty}
    /\ descriptor = [h \in Handle |-> IF h <= 2 THEN Tty ELSE NoFile]
    /\ started = {main}
    /\ marked = [t \in Thread |-> 0 .. 2]
    /\ openFiles = [t \in Thread |-> [i \in -1 .. maxArch - 1 |-> IF i \in 0 .. 2 THEN i ELSE 0]]
    /\ named = [t \in Thread |-> [i \in Id |-> IF i <= 2 THEN Tty ELSE NoFile]]
    /\ console = 1
    /\ pc = [t \in Thread |-> "user"]
    /\ call = [t \in Thread |-> [op |-> "Read", id |-> 0]]
    /\ target = Tty
    /\ opens = 0 /\ made = [t \in Thread |-> 0]

InUser(t) == t \in started /\ pc[t] = "user" /\ made[t] < MaxCalls
Called(t) == made' = [made EXCEPT ![t] = @ + 1]

\* UNIX open(2) of an existing file: the lowest free descriptor, or -1.
UnixOpens(f, h) ==
    IF f \in exists /\ \E d \in Handle : descriptor[d] = NoFile
    THEN /\ h \in Handle /\ descriptor[h] = NoFile
         /\ \A d \in Handle : descriptor[d] = NoFile => h <= d
         /\ descriptor' = [descriptor EXCEPT ![h] = f]
    ELSE h = -1 /\ UNCHANGED descriptor

UnixCloses(h) ==
    descriptor' = IF h \in Handle THEN [descriptor EXCEPT ![h] = NoFile] ELSE descriptor

\* creat and close: the file exists and no descriptor stays open.
Create(t, f) ==
    /\ InUser(t) /\ Called(t)
    /\ exists' = exists \cup {f}
    /\ UNCHANGED <<descriptor, started, tableVars, console, pc, call, target, opens>>

FindId(t) ==
    IF marked[t] = Id THEN -1
    ELSE CHOOSE i \in Id \ marked[t] : \A j \in Id \ marked[t] : i <= j

\* NachosOpenFilesTable::Open
TableOpen(t, h, f) ==
    /\ openFiles' = [openFiles EXCEPT ![t][FindId(t)] = h]
    /\ marked' = [marked EXCEPT ![t] = @ \cup ({FindId(t)} \ {-1})]
    /\ named' = IF FindId(t) = -1 THEN named ELSE [named EXCEPT ![t][FindId(t)] = f]

Open(t, f) ==
    /\ InUser(t) /\ Called(t) /\ opens < MaxOpens
    /\ \E h \in Handle \cup {-1} : UnixOpens(f, h) /\ TableOpen(t, h, f)
    /\ opens' = opens + 1
    /\ UNCHANGED <<exists, started, console, pc, call, target>>

\* getUnixHandle: what reading the entry may give
UnixHandle(t, id) == IF id \in marked[t] THEN {openFiles[t][id]} \cup Stray ELSE {-1}

\* NachosOpenFilesTable::Close
TableClose(t, id) ==
    IF id \in marked[t] /\ id > 2
    THEN /\ marked' = [marked EXCEPT ![t] = @ \ {id}]
         /\ openFiles' = [openFiles EXCEPT ![t][id] = 0]
         /\ named' = [named EXCEPT ![t][id] = NoFile]
    ELSE UNCHANGED tableVars

Close(t, id) ==
    /\ InUser(t) /\ Called(t)
    /\ \E h \in UnixHandle(t, id) : UnixCloses(h)
    /\ TableClose(t, id)
    /\ UNCHANGED <<exists, started, console, pc, call, target, opens>>

\* Read and Write up to Console->P(), and the P when the semaphore has a unit.
Enter(t, op, id) ==
    /\ InUser(t) /\ Called(t)
    /\ call' = [call EXCEPT ![t] = [op |-> op, id |-> id]]
    /\ pc' = [pc EXCEPT ![t] = "P"]
    /\ UNCHANGED <<exists, descriptor, started, tableVars, console, target, opens>>

ConsoleP(t) ==
    /\ pc[t] = "P" /\ console > 0
    /\ console' = console - 1
    /\ pc' = [pc EXCEPT ![t] = "transfer"]
    /\ UNCHANGED <<exists, descriptor, started, tableVars, call, target, opens, made>>

Transferred(t, file, place) ==
    /\ pc[t] = "transfer"
    /\ target' = file
    /\ pc' = [pc EXCEPT ![t] = place]
    /\ UNCHANGED <<exists, descriptor, started, tableVars, console, call, opens, made>>

\* The cases of the switch.  The console ids are served from stdin and stdout
\* without the table, and refused in the wrong direction.
ConsoleCase(t) ==
    /\ call[t].id <= 2
    /\ Transferred(t, IF call[t].op = "Read" /\ call[t].id = 0 THEN descriptor[0]
                      ELSE IF call[t].op = "Write" /\ call[t].id > 0 THEN descriptor[1]
                      ELSE NoFile, "V")

FileCase(t) ==
    /\ call[t].id > 2 /\ call[t].id \in marked[t]
    /\ \E h \in UnixHandle(t, call[t].id) :
          Transferred(t, IF h \in Handle THEN descriptor[h] ELSE NoFile, "V")

UnopenedCase(t) ==
    /\ call[t].id > 2 /\ call[t].id \notin marked[t]
    /\ Transferred(t, NoFile, "V")

ConsoleV(t) ==
    /\ pc[t] = "V"
    /\ console' = console + 1
    /\ pc' = [pc EXCEPT ![t] = "user"]
    /\ UNCHANGED <<exists, descriptor, started, tableVars, call, target, opens, made>>

\* Fork: new Thread gives the child a table of its own.
Fork(t, child) ==
    /\ InUser(t) /\ Called(t) /\ child \notin started
    /\ started' = started \cup {child}
    /\ UNCHANGED <<exists, descriptor, tableVars, console, pc, call, target, opens>>

IOStep(t) == ConsoleP(t) \/ ConsoleCase(t) \/ FileCase(t) \/ UnopenedCase(t) \/ ConsoleV(t)

Next == \E t \in Thread :
    \/ \E f \in File : Create(t, f) \/ Open(t, f)
    \/ \E id \in Closes : Close(t, id)
    \/ \E op \in {"Read", "Write"}, id \in Id : Enter(t, op, id)
    \/ \E child \in Thread : Fork(t, child)
    \/ IOStep(t)

\* Threads that can run are scheduled.
Spec == Init /\ [][Next]_vars /\ WF_vars(\E t \in Thread : IOStep(t))

-----------------------------------------------------------------------------
\* In every thread's table the bit map tells the ids that are open: those Open
\* returned and Close did not take back, and always the console's.
TableAgrees ==
    \A t \in Thread : /\ 0 .. 2 \subseteq marked[t]
                      /\ \A i \in Id : i \in marked[t] <=> named[t][i] # NoFile

\* The semaphore Console lets one thread at a time do input or output, on every
\* path through Read and Write.
ConsoleExclusive ==
    console + Cardinality({t \in Thread : pc[t] \in {"transfer", "V"}}) = 1

\* Every Read and Write returns to the user program.
InSystemCall(t) == pc[t] # "user"
=============================================================================
