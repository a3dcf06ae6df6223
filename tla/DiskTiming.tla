----------------------------- MODULE DiskTiming -----------------------------
(***************************************************************************)
(* When a request to the simulated disk completes (machine/disk.cc): the   *)
(* seek, the rotation, and the track buffer, which keeps the sectors that  *)
(* have passed under the head since it came to rest on the track.          *)
(***************************************************************************)
EXTENDS Integers

CONSTANTS SectorsPerTrack, NumTracks, RotationTime, SeekTime,
          MaxTicks       \* bound on the time of a request

ASSUME DiskAssumption == /\ SectorsPerTrack \in Nat \ {0} /\ NumTracks \in Nat \ {0}
                         /\ RotationTime \in Nat \ {0} /\ SeekTime \in Nat \ {0}

VARIABLES totalTicks,    \* kernel->stats->totalTicks
          lastSector,    \* the sector of the request before
          bufferInit,    \* when the track buffer began to be loaded
          request        \* the last request: its sector, when it came and ended

disk == <<totalTicks, lastSector, bufferInit, request>>
Sectors == 0..SectorsPerTrack * NumTracks - 1
Track(sector) == sector \div SectorsPerTrack

Seek(newSector) ==
    LET tracks == Track(newSector) - Track(lastSector)
    IN (IF tracks < 0 THEN -tracks ELSE tracks) * SeekTime

\* The rest of TimeToSeek: the wait for the next sector boundary.
Rotation(newSector) ==
    LET over == (totalTicks + Seek(newSector)) % RotationTime
    IN IF over > 0 THEN RotationTime - over ELSE 0

ModuloDiff(to, from) == ((to % SectorsPerTrack) - (from % SectorsPerTrack)
                         + SectorsPerTrack) % SectorsPerTrack

\* Mutant: a sector whose pass has only begun counts as buffered.
ComputeLatencyEarly(newSector, writing) ==
    LET timeAfter == totalTicks + Seek(newSector) + Rotation(newSector)
        buffered == /\ ~writing /\ Seek(newSector) = 0
                    /\ (timeAfter - bufferInit) \div RotationTime
                           >= ModuloDiff(newSector, bufferInit \div RotationTime)
    IN IF buffered THEN RotationTime
       ELSE Seek(newSector) + Rotation(newSector) + RotationTime
            + ModuloDiff(newSector, timeAfter \div RotationTime) * RotationTime

ComputeLatency(newSector, writing) ==
    LET timeAfter == totalTicks + Seek(newSector) + Rotation(newSector)
        buffered == /\ ~writing /\ Seek(newSector) = 0
                    /\ (timeAfter - bufferInit) \div RotationTime
                           > ModuloDiff(newSector, bufferInit \div RotationTime)
    IN IF buffered THEN RotationTime
       ELSE Seek(newSector) + Rotation(newSector) + RotationTime
            + ModuloDiff(newSector, timeAfter \div RotationTime) * RotationTime

\* Disk::UpdateLast
BufferInit(newSector) ==
    IF Seek(newSector) # 0 THEN totalTicks + Seek(newSector) + Rotation(newSector)
    ELSE bufferInit

NoRequest == [sector |-> 0, came |-> 0, from |-> 0, ended |-> 0]

DiskInit == totalTicks = 0 /\ lastSector = 0 /\ bufferInit = 0 /\ request = NoRequest

Tick == /\ totalTicks < MaxTicks
        /\ totalTicks' = totalTicks + 1
        /\ request' = NoRequest
        /\ UNCHANGED <<lastSector, bufferInit>>

\* ReadRequest or WriteRequest, to the interrupt that ends it.  from is since when
\* the sector's passing under the head counts for it.
Request(newSector, writing) ==
    /\ totalTicks < MaxTicks
    /\ totalTicks' = totalTicks + ComputeLatency(newSector, writing)
    /\ request' = [sector |-> newSector, came |-> totalTicks, ended |-> totalTicks',
                   from |-> IF writing \/ Seek(newSector) # 0
                            THEN totalTicks + Seek(newSector) ELSE bufferInit]
    /\ bufferInit' = BufferInit(newSector)
    /\ lastSector' = newSector

DiskNext == Tick \/ \E s \in Sectors, writing \in BOOLEAN : Request(s, writing)

DiskSpec == DiskInit /\ [][DiskNext]_disk

\* The whole sector has passed under the head between the times from and to.
Passed(sector, from, to) ==
    \E k \in 0..to : /\ k % SectorsPerTrack = sector % SectorsPerTrack
                     /\ k * RotationTime >= from /\ (k + 1) * RotationTime <= to

\* A request ends as soon as its sector has passed under the head, since the
\* head came to rest on the track when the track buffer can serve it, and not
\* before; a sector that is in the buffer takes the time of one transfer.
LatencyRight ==
    request # NoRequest =>
        /\ Passed(request.sector, request.from, request.ended)
        /\ \/ request.ended - request.came = RotationTime
           \/ ~Passed(request.sector, request.from, request.ended - 1)
=============================================================================
