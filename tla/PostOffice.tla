----------------------------- MODULE PostOffice -----------------------------
(***************************************************************************)
(* Mail between Nachos machines: the post office (network/post.cc) over    *)
(* the simulated network device (machine/network.cc), which drops packets  *)
(* at random, and UNIX datagram sockets, which keep order and drop none.   *)
(*                                                                         *)
(* A client is a thread that runs a script of sends and receives; the      *)
(* script MailTest is network/nettest.cc.  The semaphores and sendLock of  *)
(* the post office are used at the level of their specifications, and a    *)
(* mailbox at the level of SynchList's.  Machines and devices take their   *)
(* steps in any order.                                                     *)
(***************************************************************************)
EXTENDS Integers, Sequences, FiniteSets

CONSTANTS
    Machines, Boxes,
    Clients,        \* threads that use the post office
    At,             \* client |-> its machine
    Script,         \* client |-> sequence of the operations it calls
    Reliability,    \* Network::chanceToWork, in percent
    None

PostOfficeAssumption ==
    /\ At \in [Clients -> Machines]
    /\ Reliability \in 0 .. 100
    /\ None \notin Clients

VARIABLES
    sock,       \* packets in the UNIX socket of each machine
    inbox,      \* inHdr and inbox: the buffered packet, None when length is 0
    busy,       \* pending NetworkSendInt interrupts
    messageAvailable, messageSent,  \* semaphores
    sendLock,   \* holder
    worker,     \* the postal worker: "P", "receive", "put" and its packet
    boxes,      \* machine |-> box |-> mail in it
    client,     \* position in the script, stage of a Send, last mail received
    halted,     \* machines that called Halt
    aborted,    \* an ASSERT failed
    log, got    \* history: packets handed to the network; mail received

office == <<messageAvailable, messageSent, sendLock, worker, boxes>>
vars == <<sock, inbox, busy, office, client, halted, aborted, log, got>>

Packet(from, to, box, reply, msg, n) ==
    [from |-> from, to |-> to, box |-> box, reply |-> reply, msg |-> msg, serial |-> n]

NoPacket == Packet(None, None, 0, 0, None, 0)

\* PostOffice::PostOffice and Network::Network on every machine.
Init ==
    /\ sock = [m \in Machines |-> <<>>]
    /\ inbox = [m \in Machines |-> NoPacket]
    /\ busy = [m \in Machines |-> 0]
    /\ messageAvailable = [m \in Machines |-> 0]
    /\ messageSent = [m \in Machines |-> 0]
    /\ sendLock = [m \in Machines |-> None]
    /\ worker = [m \in Machines |-> [pc |-> "P", packet |-> NoPacket]]
    /\ boxes = [m \in Machines |-> [b \in Boxes |-> <<>>]]
    /\ client = [c \in Clients |-> [at |-> 1, stage |-> "call", last |-> NoPacket]]
    /\ halted = {} /\ aborted = FALSE
    /\ log = [m \in Machines |-> <<>>]
    /\ got = [m \in Machines |-> [b \in Boxes |-> <<>>]]

Up(m) == m \notin halted /\ ~aborted

Ended(c) == client[c].at > Len(Script[c])

Op(c) == Script[c][client[c].at]

Calls(c, op) == Up(At[c]) /\ ~Ended(c) /\ Op(c).op = op

NextCall(c, last) ==
    client' = [client EXCEPT ![c] = [at |-> @.at + 1, stage |-> "call", last |-> last]]

\* The packet a Send puts on the network.  An acknowledgement goes to the
\* sender of the mail received last, and to the box it named for replies.
Outgoing(c) ==
    LET o == Op(c)
        last == client[c].last
        n == Len(log[At[c]]) + 1
    IN  IF o.op = "send" THEN Packet(At[c], o.to, o.box, o.reply, o.msg, n)
        ELSE Packet(At[c], last.from, last.reply, last.reply, o.msg, n)

-----------------------------------------------------------------------------
\* PostOffice::Send: sendLock->Acquire.
Acquire(c) ==
    /\ Calls(c, "send") \/ Calls(c, "ack")
    /\ client[c].stage = "call" /\ sendLock[At[c]] = None
    /\ sendLock' = [sendLock EXCEPT ![At[c]] = c]
    /\ client' = [client EXCEPT ![c].stage = "locked"]
    /\ UNCHANGED <<sock, inbox, busy, messageAvailable, messageSent, worker, boxes, halted, aborted, log, got>>

\* Network::Send: the interrupt is scheduled whether or not the packet is lost.
\* Sending to a machine whose socket is gone fails an ASSERT.
NetworkSend(c) ==
    LET m == At[c]
        p == Outgoing(c)
    IN  /\ Up(m) /\ client[c].stage = "locked"
        /\ busy' = [busy EXCEPT ![m] = @ + 1]
        /\ log' = [log EXCEPT ![m] = Append(@, p)]
        /\ client' = [client EXCEPT ![c].stage = "sent"]
        /\ \/ /\ Reliability < 100
              /\ UNCHANGED <<sock, aborted>>
           \/ /\ Reliability > 0
              /\ sock' = [sock EXCEPT ![p.to] = Append(@, p)]
              /\ aborted' = (p.to \in halted)
        /\ UNCHANGED <<inbox, office, halted, got>>

\* Mutant: Send does not wait for the interrupt.
SentWithoutWaiting(c) ==
    LET m == At[c] IN
    /\ Up(m) /\ client[c].stage = "sent"
    /\ sendLock' = [sendLock EXCEPT ![m] = None]
    /\ NextCall(c, client[c].last)
    /\ UNCHANGED <<sock, inbox, busy, messageAvailable, messageSent, worker, boxes, halted, aborted, log, got>>

\* messageSent->P, sendLock->Release and the return from Send.
Sent(c) ==
    LET m == At[c] IN
    /\ Up(m) /\ client[c].stage = "sent" /\ messageSent[m] > 0
    /\ messageSent' = [messageSent EXCEPT ![m] = @ - 1]
    /\ sendLock' = [sendLock EXCEPT ![m] = None]
    /\ NextCall(c, client[c].last)
    /\ UNCHANGED <<sock, inbox, busy, messageAvailable, worker, boxes, halted, aborted, log, got>>

\* PostOffice::Receive and MailBox::Get.
Receive(c) ==
    LET m == At[c]
        b == Op(c).box
    IN  /\ Calls(c, "receive")
        /\ boxes[m][b] # <<>>
        /\ boxes' = [boxes EXCEPT ![m][b] = Tail(@)]
        /\ got' = [got EXCEPT ![m][b] = Append(@, Head(boxes[m][b]))]
        /\ NextCall(c, Head(boxes[m][b]))
        /\ UNCHANGED <<sock, inbox, busy, messageAvailable, messageSent, sendLock, worker, halted, aborted, log>>

\* The end of MailTest: Interrupt::Halt, ~PostOffice, ~Network.
Halt(c) ==
    /\ Calls(c, "halt")
    /\ halted' = halted \cup {At[c]}
    /\ NextCall(c, client[c].last)
    /\ UNCHANGED <<sock, inbox, busy, office, aborted, log, got>>

\* Mutant: the handler of the post office is not called.
SendDoneSilent(m) ==
    /\ Up(m) /\ busy[m] > 0
    /\ busy' = [busy EXCEPT ![m] = @ - 1]
    /\ UNCHANGED <<sock, inbox, office, client, halted, aborted, log, got>>

\* Network::SendDone and PostOffice::PacketSent.
SendDone(m) ==
    /\ Up(m) /\ busy[m] > 0
    /\ busy' = [busy EXCEPT ![m] = @ - 1]
    /\ messageSent' = [messageSent EXCEPT ![m] = @ + 1]
    /\ UNCHANGED <<sock, inbox, messageAvailable, sendLock, worker, boxes, client, halted, aborted, log, got>>

\* Network::CheckPktAvail and PostOffice::IncomingPacket.
CheckPktAvail(m) ==
    /\ Up(m) /\ inbox[m] = NoPacket /\ sock[m] # <<>>
    /\ inbox' = [inbox EXCEPT ![m] = Head(sock[m])]
    /\ sock' = [sock EXCEPT ![m] = Tail(@)]
    /\ messageAvailable' = [messageAvailable EXCEPT ![m] = @ + 1]
    /\ UNCHANGED <<busy, messageSent, sendLock, worker, boxes, client, halted, aborted, log, got>>

\* A poll that finds the buffer full or no packet: nothing but the next poll.
CheckPktNone(m) ==
    /\ Up(m) /\ (inbox[m] # NoPacket \/ sock[m] = <<>>)
    /\ UNCHANGED vars

\* PostOffice::PostalDelivery: messageAvailable->P, Network::Receive, Put.
DeliveryP(m) ==
    /\ Up(m) /\ worker[m].pc = "P" /\ messageAvailable[m] > 0
    /\ messageAvailable' = [messageAvailable EXCEPT ![m] = @ - 1]
    /\ worker' = [worker EXCEPT ![m].pc = "receive"]
    /\ UNCHANGED <<sock, inbox, busy, messageSent, sendLock, boxes, client, halted, aborted, log, got>>

DeliveryReceive(m) ==
    /\ Up(m) /\ worker[m].pc = "receive"
    /\ worker' = [worker EXCEPT ![m] = [pc |-> "put", packet |-> inbox[m]]]
    /\ inbox' = [inbox EXCEPT ![m] = NoPacket]
    /\ UNCHANGED <<sock, busy, messageAvailable, messageSent, sendLock, boxes, client, halted, aborted, log, got>>

Put(q, p) == Append(q, p)

DeliveryPut(m) ==
    LET p == worker[m].packet IN
    /\ Up(m) /\ worker[m].pc = "put"
    /\ IF p.box \in Boxes
       THEN boxes' = [boxes EXCEPT ![m][p.box] = Put(@, p)] /\ UNCHANGED aborted
       ELSE aborted' = TRUE /\ UNCHANGED boxes
    /\ worker' = [worker EXCEPT ![m] = [pc |-> "P", packet |-> NoPacket]]
    /\ UNCHANGED <<sock, inbox, busy, messageAvailable, messageSent, sendLock, client, halted, log, got>>

\* All clients have run their scripts.
Done == (\A c \in Clients : Ended(c)) /\ UNCHANGED vars

ClientStep(c) == Acquire(c) \/ NetworkSend(c) \/ Sent(c) \/ Receive(c) \/ Halt(c)

MachineStep(m) ==
    \/ SendDone(m) \/ CheckPktAvail(m) \/ CheckPktNone(m)
    \/ DeliveryP(m) \/ DeliveryReceive(m) \/ DeliveryPut(m)

Next == (\E c \in Clients : ClientStep(c)) \/ (\E m \in Machines : MachineStep(m)) \/ Done

\* Both device interrupts reschedule or are scheduled by simulated time, which
\* advances as long as the machine is up, and FIFO scheduling runs every ready
\* thread; a thread that waits for sendLock is served in FIFO order.
Fairness ==
    /\ \A c \in Clients : SF_vars(Acquire(c)) /\ WF_vars(ClientStep(c))
    /\ \A m \in Machines : /\ WF_vars(SendDone(m)) /\ WF_vars(CheckPktAvail(m))
                           /\ WF_vars(DeliveryP(m) \/ DeliveryReceive(m) \/ DeliveryPut(m))

Spec == Init /\ [][Next]_vars
FairSpec == Spec /\ Fairness

-----------------------------------------------------------------------------
TypeOK ==
    /\ messageAvailable \in [Machines -> 0 .. 1]
    /\ sendLock \in [Machines -> Clients \cup {None}]
    /\ worker \in [Machines -> [pc : {"P", "receive", "put"}, packet : {NoPacket} \cup
                      UNION {{log[m][i] : i \in DOMAIN log[m]} : m \in Machines}]]
    /\ halted \subseteq Machines

\* One packet at a time: a pending send interrupt, or the V it left behind,
\* belongs to the client inside sendLock, so no client can take another's
\* completion for its own.  The sendBusy flag that network.cc tests for this is
\* never set.
OneOutgoing ==
    \A m \in Machines :
        /\ busy[m] + messageSent[m] <= 1
        /\ busy[m] + messageSent[m] = 1 =>
              sendLock[m] # None /\ client[sendLock[m]].stage = "sent"

\* The worker never takes an empty header from the device: messageAvailable
\* counts exactly the buffered packet.
WorkerFindsPacket == \A m \in Machines : worker[m].pc = "receive" => inbox[m] # NoPacket

\* What was sent from m to a box of n and is received or still under way,
\* oldest first.
From(q, m, b) == SelectSeq(q, LAMBDA p : p.from = m /\ p.box = b)

Pipeline(m, n, b) ==
    From(got[n][b] \o boxes[n][b] \o <<worker[n].packet, inbox[n]>> \o sock[n], m, b)

\* Mail from one machine to one box arrives in the order of its sends and at
\* most once, whatever is lost; with a reliability of 1 nothing is.
MailInOrder ==
    \A m, n \in Machines, b \in Boxes :
        LET p == Pipeline(m, n, b)
            sent == SelectSeq(log[m], LAMBDA q : q.to = n /\ q.box = b)
        IN  /\ \A i, j \in DOMAIN p : i < j => p[i].serial < p[j].serial
            /\ Reliability = 100 => p = sent

\* No machine halts while a packet for it is still to be sent: sendto would
\* fail the ASSERT of SendToSocket.  And every packet names an existing box.
NoAbort == ~aborted

\* MailTest: a machine halts with an acknowledgement in hand, and only if the
\* machine that acknowledged received its message, with packets being lost or
\* not.
HaltMeansAcknowledged ==
    \A c \in Clients : client[c].at > 4 =>
        LET last == client[c].last IN
        /\ last.msg = "ack"
        /\ \E i \in DOMAIN got[last.from][0] : got[last.from][0][i].from = At[c]

\* Without losses every client completes: no client waits for a lock, an
\* interrupt or mail forever.
Completed == \A c \in Clients : Ended(c)
=============================================================================
