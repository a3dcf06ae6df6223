----------------------------- MODULE FileSystem -----------------------------
(***************************************************************************)
(* The file system on the simulated disk (filesys/filesys.cc, directory.cc,*)
(* filehdr.cc, pbitmap.cc, openfile.cc), one operation at a time as its    *)
(* comments require.  An operation reads what it needs, and then writes    *)
(* sector after sector; the machine may stop between two of them, and      *)
(* start again with what is on the disk.                                   *)
(***************************************************************************)
EXTENDS Integers, Sequences, FiniteSets

LOCAL INSTANCE FiniteSetsExt
LOCAL INSTANCE SequencesExt
LOCAL INSTANCE Functions

CONSTANTS FileNames, NumSectors, SectorSize, NumDirEntries,
          Split,          \* the entry of the directory that lies across its two
                          \* sectors: inUse and sector in the first, name in the second
          FileSizes,      \* sizes Create is called with, up to NumDirect sectors
          Bytes,          \* the bytes that are written
          MaxStops,       \* bound: how often the machine stops
          MaxOperations   \* bound: how many operations that write there are

ASSUME FileSystemAssumption ==
    /\ NumSectors \in Nat /\ SectorSize \in Nat \ {0} /\ MaxStops \in Nat
    /\ MaxOperations \in Nat
    /\ Split \in 0..NumDirEntries - 1 /\ FileSizes \subseteq Nat

VARIABLES sectors,        \* what is on the disk
          writes,         \* the sectors the operation has still to write, in order
          operation,      \* the operation they belong to
          handle,         \* an OpenFile, or NoHandle
          content,        \* history: the bytes of each file, as they should be
          damaged,        \* history: files whose Create or Remove was cut short
          misused,        \* history: a damaged or removed file was written or removed
          stops, operations

fileSystem == <<sectors, writes, operation, handle, content, damaged, misused, stops, operations>>

FreeMapSector == 0
DirectorySector == 1

\* Contents of a sector.  Nothing in a sector says which of these it is.
Header(n, data) == [kind |-> "header", numBytes |-> n, dataSectors |-> data]
Map(marked) == [kind |-> "map", marked |-> marked]
Entries(table) == [kind |-> "entries", table |-> table]
Data(bytes) == [kind |-> "data", bytes |-> bytes]

\* A sector that held something else, read as bytes.
Raw(s) == IF sectors[s].kind = "data" THEN sectors[s].bytes ELSE [j \in 1..SectorSize |-> 0]

NoContent == << -1 >>
NoHandle == [name |-> "", hdr |-> Header(0, << >>), removed |-> FALSE]
Doing(kind, name, bytes) == [kind |-> kind, name |-> name, bytes |-> bytes]
Quiet == Doing("none", "", << >>)
Blank == Doing("blank", "", << >>)      \* not formatted

-----------------------------------------------------------------------------
(* Bitmap, file header, directory *)

divRoundUp(n, s) == (n + s - 1) \div s
Free(marked) == (0..NumSectors - 1) \ marked
FindAndSet(marked) == Min(Free(marked))

\* FileHeader::Allocate: the first free sectors, or nothing.
Enough(marked, size) == Cardinality(Free(marked)) >= divRoundUp(size, SectorSize)
Allocate(marked, size) ==
    LET free == SelectSeq([n \in 1..NumSectors |-> n - 1], LAMBDA s : s \notin marked)
    IN Header(size, SubSeq(free, 1, divRoundUp(size, SectorSize)))

\* Mutant: the loop starts at 1.
DeallocateShort(marked, hdr) ==
    marked \ {hdr.dataSectors[k] : k \in DOMAIN hdr.dataSectors \ {1}}
\* FileHeader::Deallocate
Deallocate(marked, hdr) == marked \ ToSet(hdr.dataSectors)

\* The directory: FetchFrom, FindIndex, Find, Add and Remove.
Unused == [inUse |-> FALSE, name |-> "", sector |-> 0]
EmptyTable == [i \in 0..NumDirEntries - 1 |-> Unused]
DirSector(k) == sectors[DirectorySector].dataSectors[k]
MapSector == sectors[FreeMapSector].dataSectors[1]
Table ==
    [i \in 0..NumDirEntries - 1 |->
        LET first == sectors[DirSector(1)].table[i]
            second == sectors[DirSector(2)].table[i]
        IN CASE i < Split -> first
             [] i = Split -> [first EXCEPT !.name = second.name]
             [] OTHER -> second]
Marked == sectors[MapSector].marked

Indices(table, name) == {i \in DOMAIN table : table[i].inUse /\ table[i].name = name}
Present(table, name) == Indices(table, name) # {}
Find(table, name) == table[Min(Indices(table, name))].sector
Unoccupied(table) == {i \in DOMAIN table : ~table[i].inUse}
Add(table, name, sector) ==
    [table EXCEPT ![Min(Unoccupied(table))] = [inUse |-> TRUE, name |-> name, sector |-> sector]]
Drop(table, name) == [table EXCEPT ![Min(Indices(table, name))].inUse = FALSE]

\* WriteBack of the directory, of the bitmap and of a header.
To(sector, what) == [sector |-> sector, what |-> what, bytes |-> << >>]
DirectoryBack(table) == <<To(DirSector(1), Entries(table)), To(DirSector(2), Entries(table))>>
MapBack(marked) == <<To(MapSector, Map(marked))>>

-----------------------------------------------------------------------------
(* OpenFile::ReadAt and WriteAt *)

\* The bytes of a file, of which the disk knows whole sectors only.
BytesOf(hdr) ==
    [i \in 1..hdr.numBytes |->
        Raw(hdr.dataSectors[((i - 1) \div SectorSize) + 1])[((i - 1) % SectorSize) + 1]]

\* Requests are cut off at the end of the file.
Clipped(hdr, n, position) ==
    IF n <= 0 \/ position >= hdr.numBytes THEN 0
    ELSE IF position + n > hdr.numBytes THEN hdr.numBytes - position ELSE n

ReadAt(hdr, n, position) ==
    LET count == Clipped(hdr, n, position)
        first == position \div SectorSize
        last == (position + count - 1) \div SectorSize
        buf == FoldLeft(LAMBDA b, k : b \o Raw(hdr.dataSectors[k + 1]), << >>,
                        [k \in 1..last - first + 1 |-> first + k - 1])
    IN IF count = 0 THEN << >>
       ELSE SubSeq(buf, position - first * SectorSize + 1, position - first * SectorSize + count)

\* The sectors of a write.  Those that are changed in part are read first; the rest
\* of the buffer is not initialised (0).
WriteSectors(hdr, from, position) ==
    LET count == Clipped(hdr, Len(from), position)
        first == position \div SectorSize
        last == (position + count - 1) \div SectorSize
        firstAligned == position = first * SectorSize
        lastAligned == position + count = (last + 1) * SectorSize
        Fetched(k) == \/ k = first /\ ~firstAligned
                      \/ k = last /\ ~lastAligned /\ (first # last \/ firstAligned)
        changed == position + 1..position + count
        Byte(k, j) == LET i == k * SectorSize + j
                      IN CASE i \in changed -> from[i - position]
                           [] i \notin changed /\ Fetched(k) /\ i <= hdr.numBytes ->
                                 Raw(hdr.dataSectors[k + 1])[j]
                           [] OTHER -> 0
        Request(k) == [sector |-> hdr.dataSectors[k + 1],
                       what |-> Data([j \in 1..SectorSize |-> Byte(k, j)]),
                       bytes |-> [i \in {c \in changed : (c - 1) \div SectorSize = k} |->
                                     from[i - position]]]
    IN IF count = 0 THEN << >> ELSE [m \in 1..last - first + 1 |-> Request(first + m - 1)]

-----------------------------------------------------------------------------
(* The operations.  Each is one step up to its first write; WriteSector is a step. *)

Idle == operation = Quiet /\ ~misused
Begins(kind, name, bytes, list) ==
    /\ operations < MaxOperations /\ operations' = operations + 1
    /\ writes' = list
    /\ operation' = IF list = << >> THEN Quiet ELSE Doing(kind, name, bytes)

FileSystemInit ==
    /\ sectors = [s \in 0..NumSectors - 1 |-> Data([j \in 1..SectorSize |-> 0])]
    /\ writes = << >> /\ operation = Blank /\ handle = NoHandle
    /\ content = [f \in FileNames |-> NoContent]
    /\ damaged = {} /\ misused = FALSE /\ stops = 0 /\ operations = 0

\* FileSystem(TRUE): the headers of the bitmap and of the directory, then the two.
Format ==
    LET mapHdr == Allocate({FreeMapSector, DirectorySector}, SectorSize)
        marked == {FreeMapSector, DirectorySector} \union ToSet(mapHdr.dataSectors)
        dirHdr == Allocate(marked, 2 * SectorSize)
        all == marked \union ToSet(dirHdr.dataSectors)
        map == mapHdr.dataSectors
        dir == dirHdr.dataSectors
    IN /\ operation = Blank
       /\ Begins("format", "", << >>,
                 <<To(FreeMapSector, mapHdr), To(DirectorySector, dirHdr), To(map[1], Map(all)),
                   To(dir[1], Entries(EmptyTable)), To(dir[2], Entries(EmptyTable))>>)
       /\ UNCHANGED <<sectors, handle, content, damaged, misused, stops>>

\* Create returns FALSE, and writes nothing, when the name is there or a sector, an
\* entry or the space for the data is not.
CreateFile(f, size) ==
    LET sector == FindAndSet(Marked)
        withHdr == Marked \union {sector}
        hdr == Allocate(withHdr, size)
    IN /\ Idle
       /\ ~Present(Table, f) /\ Free(Marked) # {} /\ Unoccupied(Table) # {}
       /\ Enough(withHdr, size)
       /\ Begins("create", f, BytesOf(hdr),
                 <<To(sector, hdr)>> \o DirectoryBack(Add(Table, f, sector))
                 \o MapBack(withHdr \union ToSet(hdr.dataSectors)))
       /\ UNCHANGED <<sectors, handle, content, damaged, misused, stops>>

\* Remove writes the bitmap before the directory.  A file that a stop has damaged
\* may not be removed safely.
RemoveFile(f) ==
    LET sector == Find(Table, f)
        hdr == sectors[sector]
    IN /\ Idle /\ Present(Table, f)
       /\ IF f \in damaged
          THEN misused' = TRUE /\ UNCHANGED <<writes, operation, operations>>
          ELSE /\ Begins("remove", f, << >>,
                         MapBack(Deallocate(Marked, hdr) \ {sector}) \o DirectoryBack(Drop(Table, f)))
               /\ UNCHANGED misused
       /\ UNCHANGED <<sectors, handle, content, damaged, stops>>

\* Open brings the header into memory, where it stays.
OpenFile(f) ==
    /\ Idle /\ Present(Table, f) /\ handle = NoHandle
    /\ handle' = [name |-> f, hdr |-> sectors[Find(Table, f)], removed |-> FALSE]
    /\ UNCHANGED <<sectors, writes, operation, content, damaged, misused, stops, operations>>

Close ==
    /\ Idle /\ handle # NoHandle
    /\ handle' = NoHandle
    /\ UNCHANGED <<sectors, writes, operation, content, damaged, misused, stops, operations>>

\* A file that was removed while it is open, or that a stop has damaged, is written
\* all the same, wherever its sectors belong by now.
WriteAt(from, position) ==
    /\ Idle /\ handle # NoHandle
    /\ IF handle.removed \/ handle.name \in damaged
       THEN misused' = TRUE /\ UNCHANGED <<writes, operation, operations>>
       ELSE /\ Begins("write", handle.name, << >>, WriteSectors(handle.hdr, from, position))
            /\ UNCHANGED misused
    /\ UNCHANGED <<sectors, handle, content, damaged, stops>>

\* SynchDisk::WriteSector, and the end of the operation with the last one.
WriteSector ==
    LET e == Head(writes)
        over == writes = <<e>>
        f == operation.name
    IN /\ writes # << >> /\ ~misused
       /\ sectors' = [sectors EXCEPT ![e.sector] = e.what]
       /\ writes' = Tail(writes)
       /\ operation' = IF over THEN Quiet ELSE operation
       /\ content' = CASE operation.kind = "write" ->
                             [content EXCEPT ![f] = [i \in DOMAIN @ |->
                                 IF i \in DOMAIN e.bytes THEN e.bytes[i] ELSE @[i]]]
                       [] over /\ operation.kind = "create" -> [content EXCEPT ![f] = operation.bytes]
                       [] over /\ operation.kind = "remove" -> [content EXCEPT ![f] = NoContent]
                       [] OTHER -> content
       /\ handle' = [handle EXCEPT !.removed = @ \/ (over /\ operation.kind = "remove" /\ f = handle.name)]
       /\ UNCHANGED <<damaged, misused, stops, operations>>

\* The files an operation has in hand: its own, and the one whose name the divided
\* entry still has between the two writes of the directory.
InHand ==
    IF operation.kind \in {"create", "remove"}
    THEN {operation.name, sectors[DirSector(2)].table[Split].name} ELSE {}

\* The machine stops and starts again.  The files in hand are damaged once the
\* bitmap or the directory has been written in part.
Stop ==
    /\ stops < MaxStops /\ ~misused
    /\ stops' = stops + 1
    /\ writes' = << >> /\ handle' = NoHandle
    /\ operation' = IF operation.kind \in {"format", "blank"} THEN Blank ELSE Quiet
    /\ damaged' = damaged \union IF Len(writes) < 3 THEN InHand ELSE {}
    /\ UNCHANGED <<sectors, content, misused, operations>>

FileSystemNext ==
    \/ Format \/ Close \/ WriteSector \/ Stop
    \/ \E f \in FileNames, size \in FileSizes : CreateFile(f, size)
    \/ \E f \in FileNames : RemoveFile(f) \/ OpenFile(f)
    \/ \E from \in Bytes, position \in 0..Max(FileSizes) : WriteAt(from, position)

-----------------------------------------------------------------------------
\* The sectors of a file, by its header on the disk.
SectorsOf(f) == LET s == Find(Table, f) IN <<s>> \o sectors[s].dataSectors

\* Whatever operation is going on or was cut short by a stop, every file but those
\* it has in hand is there with its bytes: its name leads to its header, its
\* sectors are marked and its own, and ReadAt gives what was written.  While nothing
\* is damaged, no sector is marked that nothing uses.  Until a damaged file, or one
\* removed while open, is written or removed.
FilesIntact ==
    LET formatted == operation.kind \notin {"blank", "format"}
        others == FileNames \ (damaged \union InHand)
        there == {f \in others : content[f] # NoContent}
        system == {FreeMapSector, DirectorySector, MapSector, DirSector(1), DirSector(2)}
    IN formatted /\ ~misused =>
       /\ \A f \in others : Present(Table, f) <=> f \in there
       /\ \A f \in there :
            LET hdr == sectors[Find(Table, f)]
                used == ToSet(SectorsOf(f))
            IN /\ hdr.kind = "header" /\ hdr.numBytes = Len(content[f])
               /\ IsInjective(SectorsOf(f)) /\ used \subseteq Marked
               /\ used \intersect system = {}
               /\ \A g \in there \ {f} : used \intersect ToSet(SectorsOf(g)) = {}
               /\ \A n \in 1..hdr.numBytes + 1, position \in 0..hdr.numBytes :
                     ReadAt(hdr, n, position) =
                        SubSeq(content[f], position + 1, Min({position + n, hdr.numBytes}))
       /\ operation = Quiet /\ damaged = {} =>
            Marked = system \union UNION {ToSet(SectorsOf(f)) : f \in there}
=============================================================================
