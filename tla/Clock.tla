-------------------------------- MODULE Clock --------------------------------
(***************************************************************************)
(* Simulated time: the list of pending interrupts of machine/interrupt.cc, *)
(* with OneTick, Idle and CheckIfDue, and the devices that schedule        *)
(* interrupts: the timer, a polled input (console or network) and the      *)
(* disk.  The times on the list are kept relative to totalTicks, so that   *)
(* time is not bounded.  The list behaves as module SortedList says.       *)
(***************************************************************************)
EXTENDS Integers, Sequences

CONSTANTS Devices,          \* of {"timer", "poll"}: the devices that are on
          UserTick, SystemTick,
          TimerDelays,      \* results of TimeOfNextInterrupt: one, or many with -rs
          PollTime,         \* ConsoleTime, NetworkTime
          DiskDelays        \* results of ComputeLatency

ClockAssumption ==
    \A d \in TimerDelays \cup DiskDelays \cup {PollTime, UserTick, SystemTick} : d \in Nat /\ d > 0

VARIABLES pending,          \* [type, in]: in is when - totalTicks
          place,            \* "run": a thread runs; "due": in the loop of OneTick;
                            \* "return": after it; "idle", "idleMore": in Idle,
                            \* before and in its loop; "halted"
          yieldOnReturn, diskActive

vars == <<pending, place, yieldOnReturn, diskActive>>

\* pending->SortedInsert(toOccur, when)
Insert(p, type, fromNow) ==
    LET n == CHOOSE k \in 0 .. Len(p) : /\ \A j \in 1 .. k : p[j].in <= fromNow
                                        /\ k < Len(p) => p[k + 1].in > fromNow
    IN  SubSeq(p, 1, n) \o <<[type |-> type, in |-> fromNow]>> \o SubSeq(p, n + 1, Len(p))

Advanced(p, ticks) == [i \in DOMAIN p |-> [p[i] EXCEPT !.in = @ - ticks]]

\* The constructors of the devices schedule their first interrupt.
Init ==
    /\ \E d \in TimerDelays :
          LET timer == IF "timer" \in Devices THEN Insert(<<>>, "timer", d) ELSE <<>> IN
          pending = IF "poll" \in Devices THEN Insert(timer, "poll", PollTime) ELSE timer
    /\ place = "run" /\ yieldOnReturn = FALSE /\ diskActive = FALSE

\* OneTick begins: interrupts are enabled, or a user instruction was executed.
OneTick ==
    /\ place = "run"
    /\ \E ticks \in {UserTick, SystemTick} : pending' = Advanced(pending, ticks)
    /\ place' = "due"
    /\ UNCHANGED <<yieldOnReturn, diskActive>>

\* Mutant: the poll is scheduled again only when something was read.
HandlerPollOnce(type, p) ==
    /\ \E d \in TimerDelays : pending' = IF type = "timer" THEN Insert(p, "timer", d) ELSE p
    /\ yieldOnReturn' = (yieldOnReturn \/ type = "timer")
    /\ diskActive' = (diskActive /\ type # "disk")

\* The handler of the interrupt taken off the list, which left p.
Handler(type, p) ==
    CASE type = "timer" -> /\ \E d \in TimerDelays : pending' = Insert(p, "timer", d)
                           /\ yieldOnReturn' = TRUE
                           /\ UNCHANGED diskActive
      [] type = "poll" -> pending' = Insert(p, "poll", PollTime) /\ UNCHANGED <<yieldOnReturn, diskActive>>
      [] type = "disk" -> pending' = p /\ diskActive' = FALSE /\ UNCHANGED yieldOnReturn

Due(p) == p # <<>> /\ p[1].in <= 0

\* while (CheckIfDue(FALSE)) in OneTick
CheckIfDueFires ==
    /\ place = "due" /\ Due(pending)
    /\ Handler(pending[1].type, Tail(pending))
    /\ UNCHANGED place

\* "not time yet, put it back": SortedInsert, which goes behind equal times.
PutBack(p) == IF p = <<>> THEN p ELSE Insert(Tail(p), p[1].type, p[1].in)

CheckIfDueEnds ==
    /\ place = "due" /\ ~Due(pending)
    /\ pending' = PutBack(pending)
    /\ place' = "return"
    /\ UNCHANGED <<yieldOnReturn, diskActive>>

\* if (yieldOnReturn): the thread yields; another may run, and goes on here.
OneTickReturns ==
    /\ place = "return"
    /\ yieldOnReturn' = FALSE
    /\ place' = "run"
    /\ UNCHANGED <<pending, diskActive>>

\* Disk::ReadRequest, WriteRequest, in kernel code.
DiskRequest ==
    /\ place = "run" /\ ~diskActive
    /\ \E d \in DiskDelays : pending' = Insert(pending, "disk", d)
    /\ diskActive' = TRUE
    /\ UNCHANGED <<place, yieldOnReturn>>

\* Sleep finds no thread on the ready list.
Idle == place = "run" /\ place' = "idle" /\ UNCHANGED <<pending, yieldOnReturn, diskActive>>

OnlyTimer(p) == Len(p) = 1 /\ p[1].type = "timer"

\* CheckIfDue(TRUE): the clock jumps to the next interrupt.
Jump(p) == IF p = <<>> THEN p ELSE IF Due(p) THEN p ELSE Advanced(p, p[1].in)

IdleFires ==
    /\ place = "idle" /\ pending # <<>> /\ ~OnlyTimer(Jump(pending))
    /\ Handler(pending[1].type, Tail(Jump(pending)))
    /\ place' = "idleMore"

IdleHalts ==
    /\ place = "idle" /\ (pending = <<>> \/ OnlyTimer(Jump(pending)))
    /\ pending' = Jump(pending)
    /\ place' = "halted"
    /\ UNCHANGED <<yieldOnReturn, diskActive>>

\* while (CheckIfDue(FALSE)) in Idle, where a timer alone is put back.
IdleMoreFires ==
    /\ place = "idleMore" /\ Due(pending) /\ ~OnlyTimer(pending)
    /\ Handler(pending[1].type, Tail(pending))
    /\ UNCHANGED place

IdleReturns ==
    /\ place = "idleMore" /\ (~Due(pending) \/ OnlyTimer(pending))
    /\ pending' = PutBack(pending)
    /\ yieldOnReturn' = FALSE
    /\ place' = "run"
    /\ UNCHANGED diskActive

Halted == place = "halted" /\ UNCHANGED vars

Machine == \/ OneTick \/ CheckIfDueFires \/ CheckIfDueEnds \/ OneTickReturns
           \/ IdleFires \/ IdleHalts \/ IdleMoreFires \/ IdleReturns

Next == Machine \/ DiskRequest \/ Idle \/ Halted

\* The simulation goes on: a thread executes instructions or enables interrupts
\* again and again, and the simulator's own loops run.
Spec == Init /\ [][Next]_vars /\ WF_vars(Machine)

-----------------------------------------------------------------------------
\* The list is in order of time, and when a thread runs no interrupt is overdue:
\* all that were due have been delivered, by OneTick after every advance of the
\* clock and by Idle after its jump.  The one exception is a timer interrupt alone
\* on the list when Idle returns, which waits for the next tick.
NothingOverdue ==
    /\ \A i, j \in DOMAIN pending : i < j => pending[i].in <= pending[j].in
    /\ place = "run" => \A i \in DOMAIN pending :
            pending[i].in > 0 \/ (pending[i].in = 0 /\ OnlyTimer(pending))

\* A request to yield is honoured before the interrupted thread goes on.
NoYieldLeft == place = "run" => ~yieldOnReturn

\* The loops of handlers do not keep the machine: a disk request completes,
\* whatever the other devices do.
DiskBusy == diskActive

\* interrupt.cc in Idle: "If the console or the network is operating, there are
\* *always* pending interrupts, so this code is not reached."
PollingNeverHalts == "poll" \in Devices => place # "halted"

\* Time slicing: with the timer on, a thread that runs is asked to yield again
\* and again, unless the machine idles or stops.
SliceEnds == yieldOnReturn \/ place \in {"idle", "halted"}
=============================================================================
