------------------------------- MODULE Console -------------------------------
(***************************************************************************)
(* The console device of machine/console.cc with the echo program          *)
(* ConsoleTest of userprog/progtest.cc.  The device has a buffer of one    *)
(* character in each direction; its interrupts V the semaphores readAvail  *)
(* and writeDone, which the program waits for.                             *)
(***************************************************************************)
EXTENDS Integers, Sequences

CONSTANTS Text,     \* the texts that may be typed, sequences of characters
          EOF,      \* (char) EOF, which is also the character 255
          q

VARIABLES toType, keyboard,     \* still to be typed; typed and not yet read
          incoming, putBusy,    \* the device
          readAvail, writeDone, \* values of the semaphores
          pc, ch,               \* the program
          output, text          \* what was displayed; ghost: all that is typed

vars == <<toType, keyboard, incoming, putBusy, readAvail, writeDone, pc, ch, output, text>>
deviceVars == <<incoming, putBusy>>
semVars == <<readAvail, writeDone>>
userVars == <<toType, keyboard, text>>
testVars == <<pc, ch>>

Init ==
    /\ text \in Text /\ toType = text /\ keyboard = <<>>
    /\ incoming = EOF /\ putBusy = FALSE
    /\ readAvail = 0 /\ writeDone = 0
    /\ pc = "read" /\ ch = EOF
    /\ output = <<>>

Type ==
    /\ toType # <<>>
    /\ keyboard' = Append(keyboard, Head(toType)) /\ toType' = Tail(toType)
    /\ UNCHANGED <<deviceVars, semVars, testVars, output, text>>

\* A poll, with the program's handler ReadAvail.
CheckCharAvail ==
    /\ IF incoming # EOF \/ keyboard = <<>> THEN UNCHANGED <<keyboard, incoming, readAvail>>
       ELSE /\ incoming' = Head(keyboard) /\ keyboard' = Tail(keyboard)
            /\ readAvail' = readAvail + 1
    /\ UNCHANGED <<toType, text, putBusy, writeDone, testVars, output>>

\* The interrupt PutChar scheduled, with the program's handler WriteDone.
WriteDone ==
    /\ putBusy /\ putBusy' = FALSE
    /\ writeDone' = writeDone + 1
    /\ UNCHANGED <<userVars, incoming, readAvail, testVars, output>>

\* readAvail->P()
ReadP ==
    /\ pc = "read" /\ readAvail > 0
    /\ readAvail' = readAvail - 1
    /\ pc' = "get"
    /\ UNCHANGED <<userVars, deviceVars, writeDone, ch, output>>

GetChar ==
    /\ pc = "get"
    /\ ch' = incoming /\ incoming' = EOF
    /\ pc' = "put"
    /\ UNCHANGED <<userVars, putBusy, semVars, output>>

PutChar ==
    /\ pc = "put"
    /\ output' = Append(output, ch)
    /\ putBusy' = TRUE
    /\ pc' = "written"
    /\ UNCHANGED <<userVars, incoming, semVars, ch>>

\* writeDone->P(); if (ch == 'q') return
WriteP ==
    /\ pc = "written" /\ writeDone > 0
    /\ writeDone' = writeDone - 1
    /\ pc' = IF ch = q THEN "done" ELSE "read"
    /\ UNCHANGED <<userVars, deviceVars, readAvail, ch, output>>

Next == Type \/ CheckCharAvail \/ WriteDone \/ ReadP \/ GetChar \/ PutChar \/ WriteP

\* The device polls and completes by interrupts that are always scheduled; the
\* program's thread runs when it can; the user types the text to its end.
Spec == /\ Init /\ [][Next]_vars
        /\ WF_vars(Type) /\ WF_vars(CheckCharAvail) /\ WF_vars(WriteDone)
        /\ WF_vars(ReadP \/ GetChar \/ PutChar \/ WriteP)

-----------------------------------------------------------------------------
\* console.cc asserts in PutChar that the previous character is out.
PutCharIsFree == pc = "put" => ~putBusy

\* console.cc on CheckCharAvail: "Only read it in if there is buffer space for it
\* (if the previous character has been grabbed out of the buffer by the Nachos
\* kernel)".  What is displayed is what was typed, in order, without gaps.
EchoIsText == Len(output) <= Len(text) /\ output = SubSeq(text, 1, Len(output))

\* The program echoes the text up to its first q and then returns.
EchoedUpToQ == pc = "done" /\ Len(output) > 0 /\ output[Len(output)] = q
=============================================================================
