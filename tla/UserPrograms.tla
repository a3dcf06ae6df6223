---------------------------- MODULE UserPrograms ----------------------------
(***************************************************************************)
(* User programs sharing the processor: coff2noff makes the executable,    *)
(* AddrSpace loads it into free page frames, Machine::Run executes it, and *)
(* the scheduler saves and restores its registers when the processor       *)
(* changes hands, between two instructions or inside a system call.        *)
(*                                                                         *)
(* alone and victims are history.  alone[p] is the machine p would have to *)
(* itself: its sections at their virtual addresses, no translation to      *)
(* scattered frames, no interrupts, and loads that land at once.           *)
(***************************************************************************)
EXTENDS Processor, FiniteSets

LOCAL INSTANCE FiniteSetsExt
LOCAL INSTANCE SequencesExt

CONSTANTS Process,       \* identifiers of the processes, numbers
          NoProcess,     \* what is no process
          Executables,   \* the COFF files each process may be started with
          UserStackSize

VARIABLES machine,       \* kernel->machine: registers, memory, pageTable
          bitmap,        \* kernel->gPhysPageBitMap: the frames that are marked
          current,       \* the process of kernel->currentThread, or NoProcess
          process,       \* the address space and saved registers of each process
          halted,        \* the simulator has stopped
          alone,
          victims        \* processes with a byte of theirs written by a loader

vars == <<machine, bitmap, current, process, halted, alone, victims>>

-----------------------------------------------------------------------------
(* coff2noff.  A section has a name, an address, a size and its bytes; a    *)
(* position in the NOFF file is counted from the end of the header.         *)

NoSegment == [virtualAddr |-> 0, inFileAddr |-> 0, size |-> 0]
EmptyNoff == [ok |-> TRUE, code |-> NoSegment, initData |-> NoSegment,
              readonlyData |-> NoSegment, uninitData |-> NoSegment, bytes |-> << >>]

\* Two sections of uninitialised data are refused when they are adjacent.
CopySection(noff, s) ==
    LET segment == [virtualAddr |-> s.paddr, inFileAddr |-> Len(noff.bytes), size |-> s.size]
        bss == noff.uninitData
    IN CASE ~noff.ok \/ s.size = 0 -> noff
         [] OTHER ->
              CASE s.name = ".text" -> [noff EXCEPT !.code = segment, !.bytes = @ \o s.bytes]
                [] s.name = ".data" -> [noff EXCEPT !.initData = segment, !.bytes = @ \o s.bytes]
                [] s.name = ".rdata" ->
                       [noff EXCEPT !.readonlyData = segment, !.bytes = @ \o s.bytes]
                [] s.name = ".bss" ->
                       CASE bss.size = 0 -> [noff EXCEPT !.uninitData = segment]
                         [] bss.size # 0 /\ s.paddr = bss.virtualAddr + bss.size ->
                                [noff EXCEPT !.ok = FALSE]
                         [] OTHER -> [noff EXCEPT !.uninitData.size = @ + s.size]
                [] OTHER -> [noff EXCEPT !.ok = FALSE]

Coff2noff(coff) == FoldLeft(CopySection, EmptyNoff, coff)

-----------------------------------------------------------------------------
(* AddrSpace *)

NumPages(noff) ==
    LET size == noff.code.size + noff.initData.size + noff.uninitData.size + UserStackSize
    IN (size + PageSize - 1) \div PageSize

\* FindAndSet for each page: the lowest clear frame.
TakeFrames(marked, n) ==
    LET take[i \in 0..n] ==
            IF i = 0 THEN << >>
            ELSE Append(take[i - 1],
                        Min((0..NumPhysPages - 1) \ (marked \union ToSet(take[i - 1]))))
    IN take[n]

\* OpenFile::ReadAt reads at most up to the end of the file.
ReadAt(noff, n, position) ==
    SubSeq(noff.bytes, position + 1, Min({position + n, Len(noff.bytes)}))

Place(memory, dest, bytes) ==
    [a \in DOMAIN memory |->
        IF a - dest \in 0..Len(bytes) - 1 THEN bytes[a - dest + 1] ELSE memory[a]]

\* One read of a page for each page of the address space.
LoadSegment(memory, frames, noff, segment) ==
    LET load[i \in 0..Len(frames)] ==
            IF i = 0 THEN memory
            ELSE Place(load[i - 1], segment.virtualAddr + frames[i] * PageSize,
                       ReadAt(noff, PageSize, segment.inFileAddr + (i - 1) * PageSize))
    IN IF segment.size = 0 THEN memory ELSE load[Len(frames)]

LoadProgram(memory, frames, noff) ==
    LET zeroed == [a \in DOMAIN memory |->
                      IF a \div PageSize \in ToSet(frames) THEN 0 ELSE memory[a]]
    IN LoadSegment(LoadSegment(zeroed, frames, noff, noff.code), frames, noff, noff.initData)

\* AddrSpace::InitRegisters
InitRegisters(n) ==
    [r \in 0..NumTotalRegs - 1 |->
        CASE r = NextPCReg -> 4
          [] r = 29 -> Wrap(n * PageSize - 16)
          [] OTHER -> 0]

\* AddrSpace::Translate for a read.
SpaceTranslate(pageTable, vaddr) ==
    LET vpn == vaddr \div PageSize
    IN CASE vpn >= Len(pageTable) -> [exc |-> "AddressErrorException", phys |-> 0]
         [] vpn < Len(pageTable) /\ pageTable[vpn + 1] >= NumPhysPages ->
                [exc |-> "BusErrorException", phys |-> 0]
         [] OTHER -> [exc |-> "NoException",
                      phys |-> pageTable[vpn + 1] * PageSize + (vaddr % PageSize)]

-----------------------------------------------------------------------------
(* History *)

\* Where the loader puts bytes of initialised data that do not belong there.
Misplaced(frames, noff) ==
    LET s == noff.initData
        Offsets == {o \in 0..Len(frames) * PageSize - 1 :
                        s.size > 0 /\ s.inFileAddr + o < Len(noff.bytes)}
        Written(o) == frames[o \div PageSize + 1] * PageSize + s.virtualAddr + (o % PageSize)
        Meant(o) == SpaceTranslate(frames, s.virtualAddr + o)
    IN {Written(o) : o \in {x \in Offsets : Meant(x).exc # "NoException"
                                            \/ Meant(x).phys # Written(x)}}

\* The sections of the COFF file at their addresses and zeros elsewhere, in a
\* memory whose page i is frame i.
Image(coff, n) ==
    [registers |-> InitRegisters(n),
     memory |-> [a \in 0..n * PageSize - 1 |->
        LET sections == {k \in DOMAIN coff : coff[k].name # ".bss"
                                             /\ a - coff[k].paddr \in 0..coff[k].size - 1}
        IN IF sections = {} THEN 0
           ELSE LET s == coff[CHOOSE k \in sections : TRUE] IN s.bytes[a - s.paddr + 1]],
     pageTable |-> [i \in 1..n |-> i - 1]]

Settled(r) == DelayedLoad(r, 0, 0)
ImmediateStep(m) == LET n == OneInstruction(m).m IN [n EXCEPT !.registers = Settled(@)]

-----------------------------------------------------------------------------
Live == {p \in Process : process[p] # NoProcess}
Owners(spaces, addresses) ==
    {p \in Process : /\ spaces[p] # NoProcess
                     /\ \E a \in addresses : a \div PageSize \in ToSet(spaces[p].pageTable)}

Init == /\ machine = NewMachine
        /\ bitmap = {}
        /\ current = NoProcess
        /\ process = [p \in Process |-> NoProcess]
        /\ halted = FALSE
        /\ alone = [p \in Process |-> NoProcess]
        /\ victims = {}

\* An interrupt finishes the load in progress.
Interrupted == DelayedLoad(machine.registers, 0, 0)

\* Mutant: only the registers that programs can name are saved.
SavedGeneral(r) ==
    IF current = NoProcess THEN process
    ELSE [process EXCEPT ![current].userRegisters =
             [n \in DOMAIN r |-> IF n <= PCReg THEN r[n] ELSE 0]]

\* Thread::SaveUserState, when the thread has an address space.
Saved(r) ==
    IF current = NoProcess THEN process
    ELSE [process EXCEPT ![current].userRegisters = r]

\* StartProcess_2 in the new thread, which the scheduler has switched to:
\* without enough clear frames the address space has no pages at all.
Start(p, coff) ==
    LET noff == Coff2noff(coff)
        needed == NumPages(noff)
        frames == IF needed > NumPhysPages - Cardinality(bitmap) THEN << >>
                  ELSE TakeFrames(bitmap, needed)
        started == [Saved(Interrupted) EXCEPT
                       ![p] = [pageTable |-> frames, inKernel |-> FALSE,
                               userRegisters |-> InitRegisters(Len(frames))]]
    IN /\ ~halted /\ process[p] = NoProcess /\ alone[p] = NoProcess
       /\ noff.ok
       /\ IF needed > NumPhysPages
          THEN halted' = TRUE /\ UNCHANGED <<machine, bitmap, current, process, alone, victims>>
          ELSE /\ machine' = [registers |-> InitRegisters(Len(frames)), pageTable |-> frames,
                              memory |-> LoadProgram(machine.memory, frames, noff)]
               /\ bitmap' = bitmap \union ToSet(frames)
               /\ process' = started
               /\ current' = p
               /\ alone' = [alone EXCEPT ![p] = Image(coff, Len(frames))]
               /\ victims' = victims \union Owners(started, Misplaced(frames, noff))
               /\ UNCHANGED halted

\* Scheduler::Run to a thread that has run before, after an interrupt or when
\* the current thread goes to sleep in the kernel.
Switch(p) ==
    /\ ~halted /\ process[p] # NoProcess /\ p # current
    /\ process' = Saved(Interrupted)
    /\ machine' = [machine EXCEPT !.registers = process[p].userRegisters,
                                  !.pageTable = process[p].pageTable]
    /\ current' = p
    /\ UNCHANGED <<bitmap, halted, alone, victims>>

\* An interrupt that does not end the time slice.
Interrupt ==
    /\ ~halted /\ current # NoProcess
    /\ machine.registers # Interrupted
    /\ machine' = [machine EXCEPT !.registers = Interrupted]
    /\ UNCHANGED <<bitmap, current, process, halted, alone, victims>>

\* One turn of Machine::Run.  Every exception but a system call halts the machine.
Run ==
    LET step == OneInstruction(machine)
    IN /\ ~halted /\ current # NoProcess /\ ~process[current].inKernel
       /\ machine' = step.m
       /\ alone' = [alone EXCEPT ![current] = ImmediateStep(@)]
       /\ process' = [process EXCEPT ![current].inKernel = (step.exc = "SyscallException")]
       /\ halted' = (step.exc \notin {"NoException", "SyscallException"})
       /\ UNCHANGED <<bitmap, current, victims>>

-----------------------------------------------------------------------------
(* System calls that end in the registers of their process alone *)

SC_Halt == 0
SC_Exit == 1
SC_Add == 42
SC_GetPid == 54
NotImplemented == {4, 5, 11, 12, 13, 14, 15}

\* The calls of modules ProcessTable, SystemCalls and Sockets.  A program that
\* makes one waits in it here.
HandledElsewhere == {2, 3} \union (6..10) \union (43..53) \union (55..60)

move_program_counter(r) ==
    [r EXCEPT ![PrevPCReg] = r[PCReg], ![PCReg] = r[NextPCReg],
              ![NextPCReg] = Wrap(r[NextPCReg] + 4)]

\* The registers after the handler of a call that returns.
Handle(r, pid) ==
    move_program_counter(
        CASE r[2] = SC_Add -> [r EXCEPT ![2] = Wrap(r[4] + r[5])]
          [] r[2] = SC_GetPid -> [r EXCEPT ![2] = pid]
          [] OTHER -> r)

Return ==
    /\ ~halted /\ current # NoProcess /\ process[current].inKernel
    /\ machine.registers[2] \in {SC_Add, SC_GetPid} \union NotImplemented
    /\ machine' = [machine EXCEPT !.registers = Handle(@, current)]
    /\ alone' = [alone EXCEPT ![current].registers = Handle(@, current)]
    /\ process' = [process EXCEPT ![current].inKernel = FALSE]
    /\ UNCHANGED <<bitmap, current, halted, victims>>

\* Exit of a process other than the first: ~AddrSpace clears its frames, and
\* the processor goes to another thread.
Exit ==
    /\ ~halted /\ current # NoProcess /\ process[current].inKernel
    /\ machine.registers[2] = SC_Exit
    /\ bitmap' = bitmap \ ToSet(process[current].pageTable)
    /\ process' = [process EXCEPT ![current] = NoProcess]
    /\ current' = NoProcess
    /\ victims' = victims \ {current}
    /\ UNCHANGED <<machine, halted, alone>>

\* Halt, and a number that is no system call (ASSERTNOTREACHED).
Halt ==
    /\ ~halted /\ current # NoProcess /\ process[current].inKernel
    /\ machine.registers[2] \notin
           {SC_Exit, SC_Add, SC_GetPid} \union NotImplemented \union HandledElsewhere
    /\ halted' = TRUE
    /\ UNCHANGED <<machine, bitmap, current, process, alone, victims>>

Next == \/ \E p \in Process : \E coff \in Executables[p] : Start(p, coff)
        \/ \E p \in Process : Switch(p)
        \/ Interrupt \/ Run \/ Return \/ Exit \/ Halt

Spec == Init /\ [][Next]_vars

-----------------------------------------------------------------------------
Registers(p) == IF p = current THEN machine.registers ELSE process[p].userRegisters
Visible == (0..HiReg - 1) \union {HiReg, LoReg, PCReg, NextPCReg}

Undisturbed(p) ==
    LET Seen(v) == SpaceTranslate(process[p].pageTable, v)
    IN /\ \A n \in Visible : Settled(Registers(p))[n] = alone[p].registers[n]
       /\ \A v \in 0..Len(process[p].pageTable) * PageSize - 1 :
              /\ Seen(v).exc = "NoException"
              /\ machine.memory[Seen(v).phys] = alone[p].memory[v]

\* Whatever runs beside it, and wherever it is interrupted or put to sleep, a
\* program's registers and memory are those it would have alone: translation
\* keeps programs apart, frames are clean when they are reused, loads in
\* progress and branch delay slots survive a change of processes, and system
\* calls return to the right place.  Excepted are programs of which a loader
\* overwrote a byte (AddrSpace::AddrSpace, the copy of initData).
AsIfAlone == \A p \in Live \ victims : Undisturbed(p)

\* noff.h calls virtualAddr the "location of segment in virt addr space".  The
\* loader adds it to the physical address of every page: with scattered frames
\* the data lands in frames of other programs.
SegmentsInPlace == \A p \in Live : Undisturbed(p)
=============================================================================
