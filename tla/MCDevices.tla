----------------------------- MODULE MCDevices ------------------------------
(***************************************************************************)
(* The devices and the programs that wait for them: what must eventually   *)
(* happen.  As in MCUserProg a behaviour is a behaviour of one part, which *)
(* Init chooses, and x1 .. x13 are its variables.                          *)
(***************************************************************************)
EXTENDS Integers, Sequences, TLC

CONSTANTS h1, h2, c1, c2, c3, None, EOF, ca, cb, cq, p1, p2, r1, r2, NULL, main, child, tty, doc,
          NoFile, t1, t2, t3, junk

VARIABLES part, x1, x2, x3, x4, x5, x6, x7, x8, x9, x10, x11, x12, x13

vars == <<part, x1, x2, x3, x4, x5, x6, x7, x8, x9, x10, x11, x12, x13>>

-----------------------------------------------------------------------------
(* The post office *)

SendTo(m, x, r, msg) == [op |-> "send", to |-> m, box |-> x, reply |-> r, msg |-> msg]
ReceiveFrom(x) == [op |-> "receive", box |-> x]
Ack == [op |-> "ack", msg |-> "ack"]

\* MailTest(farAddr)
MailTest(far) ==
    <<SendTo(far, 0, 1, "data"), ReceiveFrom(0), Ack, ReceiveFrom(1), [op |-> "halt"]>>

BothMailTest == (c1 :> MailTest(h2)) @@ (c2 :> MailTest(h1))
OnePerMachine == (c1 :> h1) @@ (c2 :> h2)

\* Two threads of h1 send to two boxes of h2 while h2 answers.
Crossing ==
    (c1 :> <<SendTo(h2, 0, 0, "x"), SendTo(h2, 1, 0, "y")>>)
    @@ (c2 :> <<SendTo(h2, 0, 1, "z"), ReceiveFrom(1)>>)
    @@ (c3 :> <<ReceiveFrom(0), SendTo(h1, 1, 0, "w"), ReceiveFrom(0), ReceiveFrom(1)>>)
TwoAndOne == (c1 :> h1) @@ (c2 :> h1) @@ (c3 :> h2)

Hosts == {h1, h2}
TwoBoxes == {0, 1}
TwoClients == {c1, c2}
ThreeClients == {c1, c2, c3}

\* MailTest on both machines, and the crossing traffic; without losses and with them.
Mail == INSTANCE PostOffice WITH
    Machines <- Hosts, Boxes <- TwoBoxes, Clients <- TwoClients, At <- OnePerMachine,
    Script <- BothMailTest, Reliability <- 100,
    sock <- x1, inbox <- x2, busy <- x3, messageAvailable <- x4, messageSent <- x5, sendLock <- x6,
    worker <- x7, boxes <- x8, client <- x9, halted <- x10, aborted <- x11, log <- x12, got <- x13
LossyMail == INSTANCE PostOffice WITH
    Machines <- Hosts, Boxes <- TwoBoxes, Clients <- TwoClients, At <- OnePerMachine,
    Script <- BothMailTest, Reliability <- 50,
    sock <- x1, inbox <- x2, busy <- x3, messageAvailable <- x4, messageSent <- x5, sendLock <- x6,
    worker <- x7, boxes <- x8, client <- x9, halted <- x10, aborted <- x11, log <- x12, got <- x13
Post == INSTANCE PostOffice WITH
    Machines <- Hosts, Boxes <- TwoBoxes, Clients <- ThreeClients, At <- TwoAndOne,
    Script <- Crossing, Reliability <- 100,
    sock <- x1, inbox <- x2, busy <- x3, messageAvailable <- x4, messageSent <- x5, sendLock <- x6,
    worker <- x7, boxes <- x8, client <- x9, halted <- x10, aborted <- x11, log <- x12, got <- x13
LossyPost == INSTANCE PostOffice WITH
    Machines <- Hosts, Boxes <- TwoBoxes, Clients <- ThreeClients, At <- TwoAndOne,
    Script <- Crossing, Reliability <- 50,
    sock <- x1, inbox <- x2, busy <- x3, messageAvailable <- x4, messageSent <- x5, sendLock <- x6,
    worker <- x7, boxes <- x8, client <- x9, halted <- x10, aborted <- x11, log <- x12, got <- x13

-----------------------------------------------------------------------------
(* The other devices and their clients *)

SourceLengths == 0 .. 12
Test == INSTANCE FsTest WITH
    Lengths <- SourceLengths, TransferSize <- 3, FileSize <- 9,
    pc <- x1, source <- x2, offset <- x3, file <- x4, seekPosition <- x5, printed <- x6,
    written <- x7

Delays == {1, 2, 4}
Latencies == {2, 5}
Polled == {"timer", "poll"}
TimerOnly == {"timer"}
Polling == INSTANCE Clock WITH Devices <- Polled,
    UserTick <- 1, SystemTick <- 3, TimerDelays <- Delays, PollTime <- 2, DiskDelays <- Latencies,
    pending <- x1, place <- x2, yieldOnReturn <- x3, diskActive <- x4
Timing == INSTANCE Clock WITH Devices <- TimerOnly,
    UserTick <- 1, SystemTick <- 3, TimerDelays <- Delays, PollTime <- 2, DiskDelays <- Latencies,
    pending <- x1, place <- x2, yieldOnReturn <- x3, diskActive <- x4

\* Texts of up to five characters with a q; what follows the q is not read.
Texts == {<<cq>>, <<ca, cq>>, <<ca, cb, cq>>, <<cb, ca, ca, cq>>, <<ca, cb, cb, ca, cq>>,
          <<ca, cq, cb, ca>>}
Terminal == INSTANCE Console WITH Text <- Texts, q <- cq,
    toType <- x1, keyboard <- x2, incoming <- x3, putBusy <- x4, readAvail <- x5,
    writeDone <- x6, pc <- x7, ch <- x8, output <- x9, text <- x10

\* Two producers, two consumers, one of which looks at the list first; and more
\* removals than items, so that some thread waits forever.
Sharers == {p1, p2, r1, r2}
Plenty ==
    [t \in Sharers |->
        CASE t = p1 -> <<"Append", "Append">>
          [] t = p2 -> <<"Append">>
          [] t = r1 -> <<"Remove", "Remove">>
          [] OTHER -> <<"Apply", "Remove">>]
Scarce ==
    [t \in Sharers |->
        CASE t = p1 -> <<"Append", "Append">>
          [] t = p2 -> <<"Remove", "Append">>
          [] OTHER -> <<"Remove", "Remove">>]
Shared == INSTANCE SynchList WITH Thread <- Sharers, Calls <- Plenty,
    holder <- x1, waiting <- x2, entering <- x3, list <- x4, appended <- x5, pc <- x6, calls <- x7,
    removed <- x8, seen <- x9
Short == INSTANCE SynchList WITH Thread <- Sharers, Calls <- Scarce,
    holder <- x1, waiting <- x2, entering <- x3, list <- x4, appended <- x5, pc <- x6, calls <- x7,
    removed <- x8, seen <- x9

Template == INSTANCE TemplateStack WITH MaxT <- 2, size <- 3,
    stack <- x1, top <- x2, popped <- x3, pc <- x4, count <- x5

FileUsers == {main, child}
UnixFiles == {tty, doc}
Handles == 0 .. 3
OpenHandles == {3}
Files == INSTANCE OpenFiles WITH
    Thread <- FileUsers, File <- UnixFiles, Tty <- tty, maxArch <- 4, Handle <- Handles,
    Stray <- OpenHandles, Closes <- OpenHandles, MaxOpens <- 1, MaxCalls <- 2,
    exists <- x1, descriptor <- x2, started <- x3, marked <- x4, openFiles <- x5, named <- x6,
    console <- x7, pc <- x8, call <- x9, target <- x10, opens <- x11, made <- x12

\* Time slices longer than ContextSwitch.
Runners == {t1, t2, t3}
LongSlices == {13, 14, 17}
Preempting == INSTANCE Preemptive WITH
    Threads <- Runners, First <- t1, Slices <- LongSlices, MaxDepth <- 2, Junk <- junk,
    pc <- x1, stack <- x2, ready <- x3, current <- x4, reg <- x5, level <- x6,
    inContextSwitch <- x7, yieldOnReturn <- x8, counter <- x9, slice <- x10, turn <- x11,
    child <- x12, monitor <- x13

ASSUME InstancesAreLegal ==
    /\ Mail!PostOfficeAssumption /\ LossyMail!PostOfficeAssumption
    /\ Post!PostOfficeAssumption /\ LossyPost!PostOfficeAssumption
    /\ Test!FsTestAssumption /\ Polling!ClockAssumption /\ Timing!ClockAssumption
    /\ Template!SizeAssumption /\ Template!TypeAssumption /\ Files!OpenFilesAssumption
    /\ Preempting!FirstAssumption
    /\ Shared!SynchListAssumption /\ Short!SynchListAssumption

-----------------------------------------------------------------------------
Unused13 == x13 = 0
Unused11 == x11 = 0 /\ x12 = 0 /\ Unused13
Unused10 == x10 = 0 /\ Unused11
Unused8 == x8 = 0 /\ x9 = 0 /\ Unused10
Unused6 == x6 = 0 /\ x7 = 0 /\ Unused8
Unused5 == x5 = 0 /\ Unused6

Init ==
    \/ part = "mail" /\ Mail!Init
    \/ part = "lossy mail" /\ LossyMail!Init
    \/ part = "post" /\ Post!Init
    \/ part = "lossy post" /\ LossyPost!Init
    \/ part = "fstest" /\ Test!Init /\ Unused8
    \/ part = "polling" /\ Polling!Init /\ Unused5
    \/ part = "timing" /\ Timing!Init /\ Unused5
    \/ part = "console" /\ Terminal!Init /\ Unused11
    \/ part = "shared list" /\ Shared!Init /\ Unused10
    \/ part = "short list" /\ Short!Init /\ Unused10
    \/ part = "stack" /\ Template!Init /\ Unused6
    \/ part = "open files" /\ Files!Init /\ Unused13
    \/ part = "preemption" /\ Preempting!Init

Kept5 == UNCHANGED <<part, x5, x6, x7, x8, x9, x10, x11, x12, x13>>
Kept6 == UNCHANGED <<part, x6, x7, x8, x9, x10, x11, x12, x13>>
Kept8 == UNCHANGED <<part, x8, x9, x10, x11, x12, x13>>
Kept10 == UNCHANGED <<part, x10, x11, x12, x13>>
Kept11 == UNCHANGED <<part, x11, x12, x13>>
Kept13 == UNCHANGED <<part, x13>>

\* In these parts everything may have been done.
MayStop == {"polling", "timing", "console", "shared list", "short list", "open files", "preemption"}
Stop == part \in MayStop /\ UNCHANGED vars

Next ==
    \/ part = "mail" /\ Mail!Next /\ UNCHANGED part
    \/ part = "lossy mail" /\ LossyMail!Next /\ UNCHANGED part
    \/ part = "post" /\ Post!Next /\ UNCHANGED part
    \/ part = "lossy post" /\ LossyPost!Next /\ UNCHANGED part
    \/ part = "fstest" /\ Test!Next /\ Kept8
    \/ part = "polling" /\ Polling!Next /\ Kept5
    \/ part = "timing" /\ Timing!Next /\ Kept5
    \/ part = "console" /\ Terminal!Next /\ Kept11
    \/ part = "shared list" /\ Shared!Next /\ Kept10
    \/ part = "short list" /\ Short!Next /\ Kept10
    \/ part = "stack" /\ Template!Next /\ Kept6
    \/ part = "open files" /\ Files!Next /\ Kept13
    \/ part = "preemption" /\ Preempting!Next /\ UNCHANGED part
    \/ Stop

-----------------------------------------------------------------------------
\* The fairness each module assumes, for the part that runs.  It is stated for
\* the reliable post office only.
Acquires(x) ==
    /\ \/ part = "mail" /\ x \in TwoClients /\ Mail!Acquire(x)
       \/ part = "post" /\ Post!Acquire(x)
    /\ UNCHANGED part
ClientSteps(x) ==
    /\ \/ part = "mail" /\ x \in TwoClients /\ Mail!ClientStep(x)
       \/ part = "post" /\ Post!ClientStep(x)
    /\ UNCHANGED part
SendDone(m) ==
    /\ (part = "mail" /\ Mail!SendDone(m)) \/ (part = "post" /\ Post!SendDone(m))
    /\ UNCHANGED part
CheckPktAvail(m) ==
    /\ (part = "mail" /\ Mail!CheckPktAvail(m)) \/ (part = "post" /\ Post!CheckPktAvail(m))
    /\ UNCHANGED part
Delivery(m) ==
    /\ \/ part = "mail" /\ (Mail!DeliveryP(m) \/ Mail!DeliveryReceive(m) \/ Mail!DeliveryPut(m))
       \/ part = "post" /\ (Post!DeliveryP(m) \/ Post!DeliveryReceive(m) \/ Post!DeliveryPut(m))
    /\ UNCHANGED part

PostOfficeFairness ==
    /\ \A x \in ThreeClients : SF_vars(Acquires(x)) /\ WF_vars(ClientSteps(x))
    /\ \A m \in Hosts : WF_vars(SendDone(m)) /\ WF_vars(CheckPktAvail(m)) /\ WF_vars(Delivery(m))

ConsoleFairness ==
    /\ WF_vars(part = "console" /\ Terminal!Type /\ Kept11)
    /\ WF_vars(part = "console" /\ Terminal!CheckCharAvail /\ Kept11)
    /\ WF_vars(part = "console" /\ Terminal!WriteDone /\ Kept11)
    /\ WF_vars(part = "console" /\ Kept11
               /\ (Terminal!ReadP \/ Terminal!GetChar \/ Terminal!PutChar \/ Terminal!WriteP))

PreemptionFairness ==
    /\ WF_vars(part = "preemption" /\ Preempting!ChildStep /\ UNCHANGED part)
    /\ WF_vars(part = "preemption" /\ Preempting!Resume /\ UNCHANGED part)
    /\ WF_vars(part = "preemption" /\ Preempting!Inject /\ UNCHANGED part)
    /\ WF_vars(part = "preemption" /\ Preempting!Exits /\ UNCHANGED part)

ProgramsFairness ==
    /\ WF_vars(part = "fstest" /\ Test!Next /\ Kept8)
    /\ WF_vars(part = "polling" /\ Polling!Machine /\ Kept5)
    /\ WF_vars(part = "timing" /\ Timing!Machine /\ Kept5)
    /\ WF_vars(part = "short list" /\ Short!Next /\ Kept10)
    /\ WF_vars(part = "stack" /\ Template!SelfTestStep /\ Kept6)
    /\ WF_vars(part = "open files" /\ (\E t \in FileUsers : Files!IOStep(t)) /\ Kept13)

Spec ==
    /\ Init /\ [][Next]_vars
    /\ PostOfficeFairness /\ ConsoleFairness /\ PreemptionFairness /\ ProgramsFairness

-----------------------------------------------------------------------------
\* Mail from one machine to one box arrives in order and at most once, and all of
\* it when the network loses nothing: the interrupt that ends a send belongs to
\* the thread inside PostOffice::Send (although sendBusy is never set), the worker
\* never takes an empty buffer from Network::Receive, no ASSERT of SendToSocket
\* or PutMail fails.  A machine that halts in MailTest has its acknowledgement,
\* and its message was received.  A SynchList, which a mailbox is, gives every
\* item to one Remove, in the order of the Appends; no consumer sleeps while
\* there is an item nobody was woken for, and Apply sees one list.
DeliveredOnceInOrder ==
    /\ part = "mail" => Mail!TypeOK /\ Mail!NoAbort
    /\ part = "lossy mail" =>
          LossyMail!NoAbort /\ LossyMail!WorkerFindsPacket /\ LossyMail!HaltMeansAcknowledged
    /\ part = "post" => Post!NoAbort /\ Post!MailInOrder
    /\ part = "lossy post" =>
          /\ LossyPost!NoAbort
          /\ LossyPost!OneOutgoing
          /\ LossyPost!WorkerFindsPacket
          /\ LossyPost!MailInOrder
    /\ part = "shared list" =>
          Shared!OnceInOrder /\ Shared!NoLostWakeUp /\ Shared!ApplySeesOneList

\* Devices and programs stay in step: the pending list is in order of time and no
\* interrupt is overdue when a thread runs, a yield asked for in a OneTick or an
\* Idle is honoured or dropped there, a machine that polls never runs out of
\* interrupts; ConsoleTest never calls PutChar while the device is busy and
\* displays what was typed, in order; Copy then Print of fstest.cc reproduces the
\* UNIX file, whatever its length.
DevicesAreInStep ==
    /\ part = "polling" =>
          Polling!NothingOverdue /\ Polling!NoYieldLeft /\ Polling!PollingNeverHalts
    /\ part = "console" => Terminal!PutCharIsFree /\ Terminal!EchoIsText
    /\ part = "fstest" => Test!TypeOK /\ Test!PrintReproducesSource

\* What is begun ends: without losses every client of the post office completes;
\* Copy, Print and PerformanceTest return; ConsoleTest echoes up to the q; of the
\* threads that share a list only those without an item stay waiting; SelfTest
\* and every Read and Write system call return.
ProgramsComplete ==
    /\ <>(/\ part = "mail" => Mail!Completed
          /\ part = "post" => Post!Completed
          /\ part = "fstest" => Test!Returned
          /\ part = "console" => Terminal!EchoedUpToQ)
    /\ <>[](part = "short list" => Short!Served)
    /\ part = "stack" /\ Template!InSelfTest ~> part = "stack" /\ ~Template!InSelfTest
    /\ \A t \in FileUsers :
          part = "open files" /\ Files!InSystemCall(t)
              ~> part = "open files" /\ ~Files!InSystemCall(t)

\* Time goes on: a disk request completes whatever else is on the pending list,
\* and the timer interrupts again and again unless the machine idles or halts.
\* With -p threads that never yield take turns, and the monitor process ends when
\* Nachos does.
TimeGoesOn ==
    /\ part = "polling" /\ Polling!DiskBusy ~> part = "polling" /\ ~Polling!DiskBusy
    /\ []<>(part = "timing" => Timing!SliceEnds)
    /\ \A t \in Runners :
          part = "preemption" /\ Preempting!Forked(t)
              ~> part = "preemption" /\ Preempting!RunsOrEnds(t)
    /\ part = "preemption" /\ Preempting!Halted ~> part = "preemption" /\ Preempting!Finished
=============================================================================
