----------------------------- MODULE DiskLatency -----------------------------
(***************************************************************************)
(* The timing of machine/disk.cc: how long a request takes, from the       *)
(* position of the head, the rotation of the disk and the track buffer.    *)
(* One request is served at a time, and time passes between requests.      *)
(***************************************************************************)
EXTENDS Integers, FiniteSets, FiniteSetsExt

CONSTANTS SectorsPerTrack, NumTracks, RotationTime, SeekTime,
          MaxTicks      \* bound on the time at which a request is made

VARIABLES totalTicks, lastSector, bufferInit,
          ticks,        \* latency of the request in progress, 0 when not active
          arrived       \* ghost: when the head reached the track it is on

vars == <<totalTicks, lastSector, bufferInit, ticks, arrived>>

NumSectors == SectorsPerTrack * NumTracks
Sector == 0 .. NumSectors - 1
Track(s) == s \div SectorsPerTrack
Distance(a, b) == IF a < b THEN b - a ELSE a - b

\* Disk::TimeToSeek, its result and *rotation
SeekTicks(newSector) == Distance(Track(newSector), Track(lastSector)) * SeekTime
Over(newSector) == (totalTicks + SeekTicks(newSector)) % RotationTime
Rotation(newSector) == IF Over(newSector) > 0 THEN RotationTime - Over(newSector) ELSE 0

ModuloDiff(to, from) ==
    (((to % SectorsPerTrack) - (from % SectorsPerTrack)) + SectorsPerTrack) % SectorsPerTrack

\* The condition under which a read is served from the track buffer.
\* Mutant: >= for >.
BufferedEarly(newSector, writing) ==
    /\ ~writing /\ SeekTicks(newSector) = 0
    /\ (totalTicks + Rotation(newSector) - bufferInit) \div RotationTime
           >= ModuloDiff(newSector, bufferInit \div RotationTime)

Buffered(newSector, writing) ==
    /\ ~writing /\ SeekTicks(newSector) = 0
    /\ (totalTicks + Rotation(newSector) - bufferInit) \div RotationTime
           > ModuloDiff(newSector, bufferInit \div RotationTime)

ComputeLatency(newSector, writing) ==
    LET timeAfter == totalTicks + SeekTicks(newSector) + Rotation(newSector)
    IN  IF Buffered(newSector, writing) THEN RotationTime
        ELSE SeekTicks(newSector) + Rotation(newSector)
             + ModuloDiff(newSector, timeAfter \div RotationTime) * RotationTime + RotationTime

\* Disk::Disk
Init ==
    /\ totalTicks = 0 /\ lastSector = 0 /\ bufferInit = 0
    /\ ticks = 0 /\ arrived = 0

UpdateLast(newSector) ==
    /\ bufferInit' = IF SeekTicks(newSector) # 0
                     THEN totalTicks + SeekTicks(newSector) + Rotation(newSector) ELSE bufferInit
    /\ lastSector' = newSector

\* ReadRequest, WriteRequest
Request(newSector, writing) ==
    /\ ticks = 0 /\ totalTicks < MaxTicks
    /\ ticks' = ComputeLatency(newSector, writing)
    /\ UpdateLast(newSector)
    /\ arrived' = IF Track(newSector) = Track(lastSector) THEN arrived
                  ELSE totalTicks + Distance(Track(newSector), Track(lastSector)) * SeekTime
    /\ UNCHANGED totalTicks

\* The interrupt comes ticks later.
HandleInterrupt ==
    /\ ticks > 0
    /\ totalTicks' = totalTicks + ticks
    /\ ticks' = 0
    /\ UNCHANGED <<lastSector, bufferInit, arrived>>

\* The kernel and the user programs take time between requests.
Pass ==
    /\ ticks = 0 /\ totalTicks < MaxTicks
    /\ totalTicks' = totalTicks + 1
    /\ UNCHANGED <<lastSector, bufferInit, ticks, arrived>>

Next == (\E s \in Sector, w \in BOOLEAN : Request(s, w)) \/ HandleInterrupt \/ Pass

Spec == Init /\ [][Next]_vars

-----------------------------------------------------------------------------
\* Whether the beginning of the sector comes under the head at time t.
BeginsAt(s, t) == t % RotationTime = 0 /\ (t \div RotationTime) % SectorsPerTrack = s % SectorsPerTrack

Horizon == NumTracks * SeekTime + (SectorsPerTrack + 1) * RotationTime

\* disk.cc on ComputeLatency: "how long it will take to rotate completely past
\* newSector" after the seek.  A request that the track buffer does not serve
\* takes until the first complete pass of its sector once the head is there.
LatencyIsFirstPass ==
    \A s \in Sector : ticks = 0 =>
        LET there == totalTicks + SeekTicks(s)
            begins == Min({t \in there .. there + Horizon : BeginsAt(s, t)})
        IN  ComputeLatency(s, TRUE) = begins + RotationTime - totalTicks

\* A read is served from the track buffer exactly when the head has passed the
\* whole sector since it reached the track: the buffer is not used for what was
\* not read and is not ignored, however requests and idle times follow each other.
BufferHoldsWhatPassed ==
    \A s \in Sector : ticks = 0 =>
        (Buffered(s, FALSE) <=>
            /\ Track(s) = Track(lastSector)
            /\ \E t \in arrived .. totalTicks + Rotation(s) - RotationTime : BeginsAt(s, t))
=============================================================================
