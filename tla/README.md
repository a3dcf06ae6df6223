# A formal model of the NachOS network project

The repository holds a NachOS kernel in C++ (`src/Nachos_Project/code`), extended
with user processes, a UDP/IP/Ethernet stack and socket system calls, and a learning
switch (`src/Switch/switch.cpp`) that connects several NachOS machines over UNIX
datagram sockets. This directory models the system in TLA+, from the switch down to the
simulated processor, checks small instances with TLC, and proves with TLAPS the invariants
of the thread kernel, the interrupts, the system calls with the console, the files and the
semaphores, the processes, the sockets, IP, the link and the disk's timing for instances of
any size.
Below, `N/` stands for `src/Nachos_Project/code/`.

## 1. The system and its parts

| part | code | state | operations | what is hard about it | module |
|---|---|---|---|---|---|
| threads, scheduler, semaphores | `N/threads/{thread,scheduler,synch,alarm}.cc` | thread status, ready list, `toBeDestroyed`, value and queue of each semaphore | create, Fork, Yield, Sleep, Finish, Run, P, V, interrupt handlers | wakeups racing with P, deletion of the thread one runs on | `Threads`, `KernelProofs` |
| locks, conditions, SynchList | `N/threads/{synch,synchlist}.cc` | holder, waiters, list | Acquire, Release, Wait, Signal, Append, RemoveFront | signal between Release and sleep, item taken by a third thread | `SynchList`, `BlockingQueue`, `KernelProofs` |
| network card, Ethernet layer | `N/machine/network.cc`, `N/network/post.cc`, `N/lib/sysdep.cc` | sockets, one packet register, `messageAvailable` | Send, poll, pktrecv | register overwritten or read twice, blocking sends, restarts | `Link`, `LinkProofs` |
| switch | `src/Switch/switch.cpp` | address table, port sockets | select, recv and learn, forward or flood | blocked by one slow machine, restarts | `Link`, `LinkProofs` |
| IP and UDP | `N/network/post.cc` | `fragmentDict` | Send, SendFragment, Receive | interleaved, lost and repeated fragments, reused identifications | `Fragmentation`, `IPLayer`, `IPLayerProofs` |
| sockets | `N/threads/kernel.cc`, `N/userprog/exception.cc` | `connected_sockets`, `bind_sockets`, `datagrams` | the six socket calls, putData | maps shared by all processes, blocking calls inside | `Sockets`, `KernelProofs` |
| processes | `N/threads/{ptable,pcb}.cc` | table of PCBs, `bmsem`, `joinsem`, `exitsem`, free pages | Exec, Join, Exit, Halt | rendezvous of parent and child, deleted PCBs, slots and pages | `ProcessTable`, `ProcessTableProofs` |
| user programs, address spaces | `N/userprog/addrspace.cc`, `src/Nachos_Project/coff2noff` | page tables, `gPhysPageBitMap`, saved registers | convert, load, switch, run, return, exit | scattered frames, loads and jumps in progress at a switch | `UserPrograms` |
| processor, memory | `N/machine/{mipssim,machine,translate}.cc` | registers, memory | one instruction, Translate | signs, carries, unaligned words | `Processor` |
| interrupts, timer | `N/machine/{interrupt,timer}.cc` | pending interrupts, time, status | OneTick, Idle, Schedule, CheckIfDue | which code can be interrupted, and what it finds afterwards | `SystemCalls`, `ConsoleProofs`; their effect in `Threads` |
| console | `N/machine/console.cc`, `N/userprog/{synchconsole.cc,ksyscall.h}` | busy flags, character, `_numberBuffer` | GetChar, PutChar, ReadNum, PrintNum | global buffer used across sleeps, end of input | `SystemCalls`, `Numbers`, `ConsoleProofs`, `NumbersProofs` |
| user semaphores | `N/threads/{stable,sem}.*` | table of names | Create, Wait, Signal | table full, name taken or unknown | `SystemCalls`, `SystemCallsProofs` |
| open files | `N/filesys/{filetable,filesys,openfile}.h` | table per thread | Create, Open, Close, Read, Write, Seek | full table, entries never initialised | `SystemCalls`, `SystemCallsProofs` |
| disk | `N/machine/disk.cc`, `N/filesys/synchdisk.cc` | head, track buffer | ReadSector, WriteSector | rotation and track buffer | `DiskTiming`, `KernelProofs`; contents in `FileSystem` |
| file system on disk | `N/filesys/*.cc` | bitmap, directory, headers | Format, Create, Remove, Open, ReadAt, WriteAt | stop between write-backs | `FileSystem`; not compiled (`FILESYS_STUB`) |
| lists, bitmaps, hash tables | `N/lib/{list,bitmap,hash}.*` | chains of elements, words of bits | all | chains at their ends, resizing | `Containers` |

The build modelled is that of `N/build.linux/Makefile`: `FILESYS_STUB`, `RDATA`,
`SIM_FIX`, 32 bits, 128 pages of 128 bytes. `FileSystem` is the exception.

How they interact: `Send_Msg` (Sockets) calls UDP and IP `Send` in the caller's thread,
which hands each fragment to `Ethernet_Layer::Send` (Link); the switch forwards it; the
card's poll is an interrupt handler that does V on `messageAvailable`; the thread
`pktrecv` reads the card and appends to a `SynchList`; the thread `ethrecv` takes from
it, runs IP and UDP `Receive` (IPLayer) and `Kernel::putData` (Sockets), which appends
to the `SynchList` of a port, from which `Recv_Msg` takes. All of them are NachOS
threads that wait by semaphores only (Threads).

### What is one step

A NachOS machine is one UNIX process that simulates one processor. A thread loses it
only in `Thread::Sleep` and `Thread::Yield`, and an interrupt handler runs only inside
`Interrupt::OneTick`, which kernel code reaches when `SetLevel` turns interrupts from
off to on, that is at the end of P, V, Fork and Yield. Kernel code between two such calls
is therefore atomic, and the actions of `SynchList`, `IPLayer`, `Sockets` and
`ProcessTable` are the stretches of code between two semaphore operations. `Threads`
models the semaphores themselves; there the steps are the stretches with interrupts off,
and the context switch. `SystemCalls` has the stretches between semaphore operations and
the ticks themselves. `UserPrograms` has a step per instruction. The switch and each machine are different UNIX processes: in
`Link` every system call on a socket is a step.

## 2. Modules

**Threads.** `status`, `currentThread`, `readyList`, `toBeDestroyed`, `value` and `queue`
are the fields of the same names. `cpu` says whether the current thread runs, is in the
loop of `Thread::Sleep`, or has just been switched to and still has to call
`CheckToBeDestroyed`; `finishing` is the argument of Sleep; `waitSem` is the semaphore in
whose P-loop a thread is. `P` and `V` are the semaphore operations, `DeviceInterrupt` a
handler that calls V (on `DeviceSem` only), and `Idle` the wait for an interrupt. `Yield` is
also what a timer interrupt does (`Alarm::CallBack` asks for it whenever a thread
runs). Thread objects are used once. `ThreadIds` declares the threads, which SynchList names
too.

**SynchList, BlockingQueue.** SynchList has one variable per field of Lock (its
semaphore and `lockHolder`), Condition (`waitQueue`, and the value of each waiter's
semaphore) and the list; `pc` says where a thread is in Append or RemoveFront.
BlockingQueue is what users of the list rely on: items leave in the order they came, and
when there is an item and a thread in RemoveFront, some thread returns. SynchList is shown
to implement it, with `removing` mapped to the threads inside RemoveFront. Its specification
is `ListSpec`, that of Sockets `SocketsSpec` and that of DiskTiming `DiskSpec`: one module
has the proofs of all three and of Threads.

**Link.** `toSwitch` and `toMachine` are the UNIX sockets with room for `QLen` datagrams;
`tx` is the frame a machine is in `sendto` with. While it is, nothing of that machine
runs: the whole machine is one UNIX process. `Send`, `SendTo` and `GiveUp` are
`Ethernet_Layer::Send` down to `SendToSocket`, `Poll` is `NetworkInput::CallBack`,
`PktWait` and `PktReceive` the loop of `pktrecv`, `Select`, `Recv` and `Forward` the loop of
the switch. Halt, Boot, SwitchStop and SwitchStart end and start processes; what happens to
names and connections of UNIX sockets then is modelled in `connected` and the queues.
`SwitchStop` stands for the user's stopping the switch and has no code.

**Fragmentation, IPLayer.** Fragmentation holds the pure operators: UDP length in 16
bits, number of fragments, offset and MF of each, key of a datagram, insertion into an
entry, and the test whether an entry is complete. IPLayer uses them in the sender's loop
and the receiver's table, over a link of which `Link` shows that it keeps the order, loses
frames and can deliver one twice in a row. A payload is named by datagram and index.
`Identification` is what `rand() % 2^16` returns call by call after a boot, the same after
each start of each machine; it is a constant, so that the proofs hold for any sequence, and
the run uses one without repetition. A repetition is a reused key, which the properties
name. `Size` is bounded by the 65536 bytes of `UDP_Datagram::data`; a datagram then has at
most 45 fragments, and no offset wraps in its 13 bits. Payload bytes are not modelled.

**Sockets.** The three maps of Kernel as functions. `receiving` and `sending` are what a
process holds in local variables while it sleeps inside Recv_Msg or between two fragments of
Send_Msg. `bind_sockets` is a `map`, ordered by port, so getData and deleteSocket find the
smallest port of a socket that has several. Bind takes an int, a header carries 16 bits. A call
takes any int for a socket (`Socket`), created or not: no handler tests whether
`Create_Socket` has ever returned it.

**ProcessTable.** `pcb` is the table; `pc` is where the thread of a process is between two
semaphore operations. `destroyed` says that `~PCB` has deleted the semaphores: it then calls
`Thread::Finish`, which does not return, so that the rest of `PTable::Remove` is not
executed. Using a semaphore of a destroyed PCB sets `undefined`, and nothing is said of what
follows.

**Processor, UserPrograms.** Processor is a function from a machine (registers, memory,
page table) to the next: fetch, decode, translate, execute, delayed load, with the
exceptions. A byte has `ByteBits` bits and words scale with it; instruction encodings do
not scale, so `Fields` says which instruction a word is. UserPrograms runs programs on it:
`Coff2noff` and `Start` make and load an executable, `Run` is a turn of `Machine::Run`,
`Interrupt` and `Switch` what a tick or a sleep inside a call does to the registers,
`Return`, `Exit` and `Halt` the calls whose effect is in the registers alone (`Halt` also any
number that is no call; `HandledElsewhere` lists those the other modules have). Beside each
process the model keeps the machine it would have alone: sections at their addresses, no
scattered frames, no interrupts, loads that land at once. What the loader writes past the
end of `mainMemory` is outside the model.

**SystemCalls, Numbers.** `cpu`, `pending`, `console`, `numberBuffer`, `fileTable` and
`semTab` are the kernel's; `host` the files of the host; `task` where a process is inside a
call. A process makes the calls of its script, in order; `Command` are the calls there are,
with their arguments. Between any two steps a tick may
pass (`OneTick`) or not: the model does not count ticks per instruction, and so has more
interleavings than the code. `Idle` moves the clock to the next interrupt. `pending` is kept
sorted by `Schedule`, and `CheckIfDue` is a loop whose turns are `Fire`: the first interrupt
is taken off the list and its callback runs, until none is due. A semaphore of a user program
may be created with a negative value, which P takes for available: it waits at 0 only. Entries of a
`FileTable` that nobody has set are `Wild`, chosen by the scenario; Read follows those of the
descriptors 0 and 1 and below, which nobody sets, and Write those below 0 (`IsWild`). Following one, or
deleting a name twice after a failed semaphore call, sets `undefined`. Exec is modelled for
its effect on the child's descriptors and on the ready list; the process it starts is one that
does not run. Numbers has the conversions of ReadNum and PrintNum for an int of `IntBits` bits.

**FileSystem.** The disk as a function from sectors to headers, bitmaps, directory
entries or bytes. An operation computes from the disk what it will write and
`WriteSector` writes it, a sector at a time, in the code's order; `Stop` may come between
two of them. Entry `Split` of the directory lies across two sectors, as entry 6 of 10 does
with 20-byte entries in 128-byte sectors. One operation at a time: the comment at the head of
`N/filesys/filesys.cc` says that there is no synchronisation.

**Containers, DiskTiming.** Containers has the chains of `ListElement`s, the buckets and
the words of bits, beside the sequence or set they stand for. DiskTiming has `ComputeLatency`
and `UpdateLast` under requests at any time.

## 3. Runs

| run | checks | shows |
|---|---|---|
| `kernel` | TypeOK, StatusExact, CarcassSafe, NoLostWakeup, ReadyRuns, SemProgress, MutualExclusion, NoSignalLost, NoItemForgotten, Implements | status and lists agree; a finished thread is deleted once and off its stack; P and V lose no wakeup; every ready thread runs and nobody sleeps forever on an available semaphore; SynchList is a correct monitor and a blocking FIFO queue |
| `link` | InOrder, LearnedRight, NewestKept, OnlyMutualBlocking | frames come in order and only to their destination, the switch's table is right and floods spare the sender, the newest packet is never lost in the card, and a send ends unless the switch and a machine block each other, with one restart of any process |
| `link_blocked` | SendReturns, violated | the switch and a machine wait for each other for good |
| `ip` | Integrity, EntriesPending, CleanDelivered, DeliveredOnce, EventuallyDelivered | under interleaving, loss, repetition and a sender's restart only whole datagrams are delivered, the table is well-formed, and datagrams left alone are delivered, once |
| `sockets` | QueueExists, PortFIFO, NoStealing, SomeoneReceives | ports lose and reorder nothing and are not taken away; a waiting receiver and data meet |
| `sockets_header` | HeaderMatches, violated | headers change under a sender |
| `processes` | JoinStatus, PagesBalanced, DeletedOnlyByMisuse, ExecLockReleased, JoinReturns | Join returns the right code, pages balance, bmsem comes back, Join and Exit release each other, and only two kinds of misuse reach a deleted semaphore |
| `processes_slots` | ExecFindsSlot, violated | slots are never free again |
| `userprogs` | AsIfAlone | a program computes what it would alone, unless a loader has overwritten it |
| `user_data` | SegmentsInPlace, violated | the loader of one program overwrites another |
| `syscalls` | ConsoleExact, StatusRight, NumbersIntact, ObjectsExact, CallsReturn | no character is lost or repeated and no ASSERT of the console fails; the machine's status is right after every switch; numbers are right unless two processes share the buffer; files and semaphores change only through their calls; calls return |
| `algorithms` | Reassembled, ContainersExact, LatencyRight, ArithmeticExact, NumeralsExact, FilesIntact | what one thread at a time uses does what it is for: fragments, lists, tables, bitmaps, latency, arithmetic, numerals, files |

`MutualExclusion`, `LearnedRight`, `Integrity` and `JoinStatus` include the
types of their module's variables. Each violated run contradicts a comment or a test program
of the repository; the findings in `PROJECT.json` quote it.

Some passing properties name an exception, which is behaviour of the code that a reader may
not expect:

* InOrder allows a frame to be received twice in a row: the card never marks its packet
  register empty (`N/machine/network.cc:79`), and two polls before the first read make
  `pktrecv` read the second packet twice. `N/machine/network.h:59` promises a header of
  length 0 instead.
* CleanDelivered and EventuallyDelivered except a datagram of several fragments of which one
  was repeated: `insertToMap` keeps both, and `check` never finds it complete.
* OnlyMutualBlocking excepts a machine in `sendto` to the switch and the switch in `send` to
  that machine, each with a full socket. Neither reads before its call returns. `sendto`
  blocks instead of failing, so that the ten attempts the comment of `SendToSocket` promises
  are never counted; the run `link_blocked` shows it.
* Integrity and CleanDelivered except datagrams whose key was reused. `rand()` is not seeded
  unless NachOS is started with `-rs`, so a restarted machine uses the same identifications
  again, and its first fragments join what an incomplete datagram from before has left.
* DeliveredOnce excepts datagrams whose fragments all came twice: a datagram of one fragment
  is then delivered twice.
* DeletedOnlyByMisuse: a second Join of a child passes the test in `JoinUpdate`, because the
  entry stays in the table, and an orphan's Exit calls `DecNumWait` on its parent's PCB. Both
  use semaphores that `~PCB` has deleted.
* In `ProcessTable` and `UserPrograms` a program that does not fit into memory halts the
  machine: the AddrSpace is left with no pages and executed.
* In `Sockets` Close unbinds one port of a socket that is bound to several, -1 is taken for
  "not bound", and ports beyond 16 bits can be bound but never receive.
* AsIfAlone excepts programs a byte of which was written by a loader that put its
  initialised data in the wrong place. Code is not affected, its address being 0, and neither
  is `.rdata`, which the loader does not load by its own segment but as what follows the code.
* NumbersIntact excepts calls during which another process wrote into `_numberBuffer`.
* CallsReturn excepts readers once the end of the input has been reported: no interrupt is
  scheduled after it, and the next reader sleeps with the lock. The byte 0xFF, as a `char`, is
  EOF: ConsoleExact says that nothing typed before it is lost, and nothing after it is read.
* ObjectsExact says nothing of semaphores and of bytes of files once a name has been deleted
  twice or an uninitialised entry has been followed.
* FilesIntact excepts the file a Create or Remove had in hand when the machine stopped, and
  the file whose directory entry lies across the two sectors when the stop came between
  them. Removing or writing one of these, or writing one removed while open, ends what is said.
* ArithmeticExact leaves out SRL and SRLV: they go through `tmp`, an int, and shift the sign bit
  in, as SRA does. `Processor` has them as the code does.
* Read of a file that holds fewer bytes than asked for returns -2, and Close returns 0:
  `N/userprog/syscall.h` says "whatever is available" and 1. `coff2noff` refuses two sections of `.bss` that are adjacent and accepts
  others.

### Bounds

* Kernel: four threads; in one half of the run (`subject`) a mutex and a device's semaphore,
  values up to 2, in the other a SynchList and four items. Three is the
  number a lost wakeup needs (sleeper, signaller, one that takes the value first), and
  lets a thread finish while another is on each kind of list; with four, two waiters can be
  signalled while a third thread removes and a fourth appends.
* Link: three machines with sockets of one frame; machines 0 and 1 send two frames each, to
  each other or to everybody, so that the sockets in both directions fill, and machine 2 gets
  what is flooded; one process stops and starts (none in `link_blocked`).
* IPLayer: two datagrams of one to three fragments (100, 1481 and 3008 bytes) by two threads
  of one machine and one of another, with one loss, one repetition and one restart. Every
  property relates at most two datagrams.
* Sockets: two processes that pass the descriptors 1 and 5, of which one is created at most
  and the other is a number nobody was given; ports -1, 1, 2 and 65537 (which is 1 in 16 bits),
  two incoming datagrams, one outgoing.
* ProcessTable: three slots instead of ten, four pages, programs of one and two pages:
  enough for a grandchild, for a second child, for no slot and for no memory.

* UserPrograms: words of 16 bits, pages of 8 bytes, nine frames and three processes, with
  programs of six to eight instructions that have loads, stores, calls and jumps in each
  other's delay slots. The third program has five pages and fits only when the first has
  exited, into frames that are not consecutive.
* SystemCalls: an int of 8 bits, whose numerals have up to four characters; three processes
  in eleven scenarios (`MCScenarios`), each a mixture of calls that meet on the same device,
  buffer, file or semaphore; console and timer take two ticks, so that an interrupt can come
  at every step and two can come together; two semaphores and two free descriptors, so that
  the tables fill up.
* Algorithms: messages of every length up to 16383, the memory of a
  machine being 16384 bytes; words of four bits, of which every pair is an input; numerals of up to five of seven
  characters (sign, digits at both ends, a letter); five items of four keys with one key
  twice, hash values that collide, and a table that grows at every step it can; five bits in
  words of three; three tracks of four sectors and requests at every tick up to 60, five
  rotations; files of one and three bytes in sectors of two, eleven sectors of which six are
  for files, three directory entries, six operations and one stop.

Deadlock checking is off where the bound on inputs, a script at its end or a machine that has
halted ends a behaviour; `kernel` and `syscalls` check it.

### Fairness

Weak fairness of a thread's next step is what the ready list (FIFO) and the timer, which
asks for a Yield every 100 ticks, give; `kernel` checks that they do (ReadyRuns). A semaphore's P
is a loop: a woken thread may find the value taken. So nothing is assumed of a particular
thread's getting a contended semaphore, only that some thread does (SynchList), and
`processes` does not say that every Exec returns. In `Link` the switch and each machine
go on running, the card polls every `NetworkTime` ticks, and a socket call that can complete
does; nothing is assumed to restart. In `IPLayer` senders and `ethrecv` get their turns. In
`SystemCalls` the clock advances while the machine is idle, a thread that gets the processor
again and again executes its code at some time (a turn is 100 ticks long, and kernel code takes
10), and a character that has been typed is found by some poll. The order of the ready list and
of the queues of semaphores is in the model; nothing else is assumed.

## 4. Proofs

Every safety property of the runs `kernel`, `link`, `ip`, `sockets`, `processes`
and `syscalls`, and LatencyRight of the run `algorithms`, is a theorem, for every value of the
constants that the named assumptions of the module allow. The bounds that make TLC terminate (`MaxValue`, `MaxAppends`, `MaxSend`,
`MaxDatagrams`, `MaxData` and the like) are constants too, any natural numbers. Each part has one inductive invariant (`IInv`; in `KernelProofs`, which has four parts,
`ListInv`, `SocketsInv` and `DiskInv` beside it; `Inv` for the system calls), a lemma for each
action, and a theorem for each property.

| module | theorem | property |
|---|---|---|
| `KernelProofs`, threads | `ThreadsTypeOK`, `ListsExact`, `CarcassSafety`, `SemaphoreNoLostWakeup` | TypeOK, StatusExact, CarcassSafe, NoLostWakeup |
| `KernelProofs`, SynchList | `LockExcludes`, `ConditionKeepsSignals`, `ItemsServed`, `ImplementsSafety` | MutualExclusion, NoSignalLost, NoItemForgotten, the safety part of Implements |
| `LinkProofs` | `FramesInOrder`, `SwitchLearnsRight`, `NewestPacketKept` | InOrder, LearnedRight, NewestKept |
| `IPLayerProofs` | `DatagramsIntact`, `EntriesArePending`, `CleanDatagramsDelivered`, `DatagramsDeliveredOnce` | Integrity, EntriesPending, CleanDelivered, DeliveredOnce |
| `KernelProofs`, sockets | `QueuesExist`, `PortsAreFIFO`, `PortsNotStolen` | QueueExists, PortFIFO, NoStealing |
| `ProcessTableProofs` | `JoinGivesStatus`, `PagesAlwaysBalanced`, `DeletedUseIsMisuse` | JoinStatus, PagesBalanced, DeletedOnlyByMisuse |
| `KernelProofs`, disk | `RequestsEndOnTime` | LatencyRight |
| `SystemCallsProofs`, with `ConsoleProofs` | `ConsoleAlwaysExact`, `StatusAlwaysRight`, `ObjectsAlwaysExact` | ConsoleExact, StatusRight, ObjectsExact |
| `NumbersProofs` | `NumbersAlwaysIntact` | NumbersIntact |

`LibraryLemmas` has what they share: `AppendList` and `RemoveFrontList` say what List::Append
and RemoveFront do to a list without duplicates; `LeastNatural` gives the least number of a
set, which is also how the proofs do induction (a smallest counterexample).

**KernelProofs: threads.** `IInv` is the conjunction of the invariants and `InLoopAsleep`: a thread
inside the loop of P is blocked, ready, or just switched to. None of them is inductive alone:
that Yield queues no thread twice needs OneRunning; that V makes a thread ready which is
nowhere else needs BlockedExact and ReadyListExact; that the thread deleted is on no list
needs CarcassSafe's facts on `finishing`; and that a woken thread is counted until it has
tested the value needs InLoopAsleep, since the running thread could otherwise call P again
while it still counts as woken. P and the resumption inside P share `TestValueIInv`, V and
the interrupt handlers `IncrementIInv`. Assumed: `ThreadAssumption` (finitely many threads;
the main thread is one) and `SemAssumption` (device semaphores are semaphores; initial values
within MaxValue).

**KernelProofs: SynchList.** `ListInv` is the conjunction of the three invariants and a bound on
`appended`: a thread that has called Append has one of the `MaxAppends` items reserved, so the
append it makes later is one the queue allows. NoItemForgotten needs both others. A thread
inside the monitor is alone there (`Alone`, from MutualExclusion), so RemoveFront finds the
list as the test in its loop left it. The thread Signal wakes was not yet counted as signalled
(NoSignalLost), so the append adds one item and one thread that will look at it. A thread that
goes to wait has found the list empty, so its wait leaves no item behind; a thread that takes
an item stops being counted with it. `ImplementsSafety`: the initial state is one of
BlockingQueue, and every step is a step of BlockingQueue or leaves its variables alone.
Assumed: `SynchListAssumption`, finitely many threads and `NoThread` not one of them.

**LinkProofs.** InOrder speaks of `messages` only; the invariant follows a frame all the way.
`Flow` orders the places it passes (the sender's `tx`, the sockets of the switch, the frame
the switch is forwarding, the socket of the receiver, the card's register, `messages`): what
is at one place is no newer than anything of the same sender at the places behind it. A step
moves a frame from the front of one place to the back of the next, copies it to several
machines, or drops some, and `Flow` survives all of these, restarts included; a new frame is
newer than all others because every number on the way is at most `sent`. `Own` says that a port of the switch carries
only frames of the machine behind it, from which what the switch learns is right; `CardReady` that a raised
`messageAvailable` means a packet in the register, without which NewestKept is not kept by
`PktReceive`. Assumed: `LinkAssumption` and `NoFrameAssumption` (the marker of an empty
register is not a frame).

**IPLayerProofs.** The invariant says of each fragment where it is: still to be sent
(`Sendings`), on the wire (`OnWire`), in one vector of `fragmentDict` (`Entries`) or in one
delivered datagram (`Deliveries`), in two places only if it was repeated (`Once`); and that it
is `Genuine`, having the offset, the flag and the key of its datagram. `Kept` is the other
direction: what was received of a clean datagram is in the table until the whole is delivered.
The lemmas behind it: `Offsets` (no offset wraps), `KeysDiffer` (`computeHash` tells any two
machines of `ippool` and any two identifications apart), `InsertFragment` (`insertToMap` keeps
a vector sorted, and adds one fragment), `Staircase` (a rising sequence of all numbers below n
has each in its place), and with it `CheckedIsDeliverable` and `CompletePassesCheck`: `check`
accepts a sorted vector of a clean datagram exactly when it is the whole of it. Nothing is
assumed of loss, repetition, order of sending or identifications. Assumed: `IPAssumption`,
that is ten machines as in `ippool`, sizes from the UDP header alone to a full
`UDP_Datagram`, and identifications of 16 bits.

**KernelProofs: sockets.** `SocketsInv` is QueueExists, PortFIFO and the types that go with them, for
calls with any numbers for sockets, created or not. PortFIFO needs QueueExists, since RemoveFront takes from the queue of the port its process waits for,
and that no step removes a queue. NoStealing is an action property: Bind refuses a bound port,
and Close erases only a port of its own socket (`PortOfSocket`; the smallest port exists by `MinOfFinite`). Assumed: `SocketAssumption`
(sockets are ints; finitely many ports, which are ints; a header's port has 16 bits).

**ProcessTableProofs.** JoinStatus depends on where `joinsem`, `exitsem`, the child and its parent's
Join can be together; `Meeting` lists the five combinations, from the child before its V of
joinsem to the child that has taken exitsem, and each action moves a child from one to the
next. `Family` (parents exist, and are not their own children), `Forking` (a child with a PCB
but no thread yet), `Joining` and `Exits` are needed to see that nobody else touches the two
semaphores. DeletedOnlyByMisuse follows because a destroyed PCB is in the last combination
(so its Join has returned before), or belongs to the parent of an orphan. PagesBalanced counts
the set `Held` of pages; by `GivePages`, a process that has none and gets n adds n to it, and
one that gives back all it has takes as many away. Assumed: `ProcessAssumption` (some slots; the main program fits into memory,
others need not) and `NoPCBAssumption` (NULL is not a PCB).

**KernelProofs: the disk.** Time is cut into passings, each of one sector under the head, and
TimeToSeek ends at the boundary before the passing numbered q (`AtBoundary`). ModuloDiff counts
the passings until the sector's next one (`NextPassing`): it passes then, and no passing between
q and that one is its own, since two numbers with the same remainder are at least the divisor
apart (`SameRemainder`). A request that waits ends with that passing (`WaitServed`). What is
left to show is that the sector has not passed before q: it cannot have when the request had to
wait from its own arrival, less than one passing before q; and when the track buffer was
looked at, the test of ComputeLatency said that fewer passings lie between the one in which
the buffer began to be loaded and q than the sector takes to come round. When the test says the
opposite, the sector has passed before q (`BufferedServed`). `DiskInv` adds to LatencyRight
that `bufferInit` is a sector boundary and not in the future, without which the number of
passings since then, which the code gets by a division, would not be exact. Assumed:
`DiskAssumption`, positive numbers of sectors and tracks and positive times. Time is an
integer without a width: a simulation that overflows `totalTicks` is not covered.

**ConsoleProofs, SystemCallsProofs.** One invariant, `Inv`, serves the console, the status and
the objects, because a step of any of them can be followed by a tick. `ListOK`: the list of
interrupts is sorted, has each device once, and nothing on it is overdue. `InputOK`: what was
typed is what was handed out, the character in the device, if there is one, and what is still to
come, in this order; a poll is pending only while the device is empty, nobody has been told of a
character and no byte 0xFF has been read, so nothing is read after one. `OutputOK`: the device is busy exactly while its interrupt is pending, and the thread
that holds the lock waits for that interrupt or has had it; without it the ASSERT of `PutChar`
could fail. `RunOK`: the ready list has no thread twice, a thread on it is there with the status it
had (`oldStatus`), and `status` belongs to the current thread; this is StatusRight, which is not
inductive without the ready list. `QueueOK`: a thread in the queue of a semaphore is at that
semaphore's P and is neither ready nor running, so V makes nobody ready twice. `SemsOK` has the
names and counts of the semaphores, `CallOK` that a number being printed fits into the buffer.

The clock: inside `CheckIfDue` the invariant does not hold, since interrupts that are due are
still on the list. `Turn(m, due)` is the invariant with at most `due` of them left; a turn of the
loop (`FireTurn`, from one lemma for each callback: `WriteTurn`, `ReadTurn`, `TimerTurn`) brings `due`
down by one, since what a callback schedules is never due at once (ConsoleTime and TimerTicks are
positive). The loop is a recursive function; `TurnsExist` shows by a smallest counterexample that
it is defined, and `CheckIfDueTurn` that it ends with nothing due. The same is done for the digits of a number
(`DigitsExist`). The handlers: `NextOut` and `NextIn` do one of a few things (`NextOutCases`,
`NextInCases`), each of which leaves a task of the right kind (`Turned`). For files, `FileDidAllowed`
says what an operation may do to the table and to the files, from which the two action
properties of ObjectsExact follow (`FilesStep`).

Assumed: `SystemCallsAssumption` (scripts of calls, a ready list without duplicates, characters
typed that are not NUL, positive times), `NumbersAssumption` and `LongestNumeral` (the buffer is
as long as the longest numeral, which TLC evaluates for the width it is given).

**NumbersProofs.** `NumberOK` says of a call in progress what NumbersIntact says of one that has
returned. PrintNum (`Printing`): the characters printed and the digits below `k`, read from the top,
make up the numeral, and those digits are in the buffer; before the buffer is filled, only the sign
has been printed. ReadNum (`Holds`): the buffer has the characters read and then zeros, which is how
the conversion finds the end of the numeral (`PrefixIs`). Both only until another call writes into the
buffer: `disturbed` is set then for every call that uses it, so `OthersFine` has nothing to show for
those. `RestStep`: the next digit moves from the rest to what is printed. NumbersIntact needs `Inv`
for the bounds on `k` and because a step of one thread leaves the tasks of the others alone.

### Only model-checked

* Liveness, which is out of the prover's reach: ReadyRuns, SemProgress, OnlyMutualBlocking,
  EventuallyDelivered, SomeoneReceives, ExecLockReleased, JoinReturns, CallsReturn and the
  fairness part of Implements.
* The other properties of the run `algorithms`. ContainersExact and ArithmeticExact are about words
  of bits, and their modules use bitwise operators, which the prover does not have;
  NumeralsExact and Reassembled compute with recursive functions and folds over sequences
  of any length, which would take induction over data. (That reassembly gives back what was sent is
  Integrity, which is proved; the length field of UDP is checked by Reassembled.)
  FilesIntact rests on what Allocate selects from the bitmap (`SelectSeq`) and on the
  bytes WriteAt assembles (`FoldLeft`), recursions over sequences again.
* AsIfAlone, which compares two runs of a simulated processor, again on bits.

## 5. Not modelled, and why

* `Condition::Broadcast` and `SynchList::Apply`, which have no caller; checksums and lifetimes
  in headers, which the code fills with constants and never reads.
* The TLB, which the build does not have, and the debuggers.
* SynchDisk as a protocol of two threads: SynchDisk has the lock and the semaphore of
  SynchConsoleOutput, and its only user, the file system, is used by one thread at a time.
* Copying of strings between user memory and the kernel, and `RandomNum`: values with no state.
  With a count of 0 the copy of ReadConsole, WriteConsole and Write runs to the end of memory and
  halts the machine. So does ReadString with a length above 255, at once, and a negative length
  writes before its buffer. None of these is a `Command`.
* Addresses that are not numbers: `stoi` throws in Connect, which ends the machine.
* Reading of COFF headers, command lines, statistics, output, the self tests and the test
  programs, in whose place the models have scripts or let processes call anything in any order.
* Sending to an address outside `ippool`, which indexes before the first entry of `macpool`, and
  the size of stacks: memory the models do not have.
* Thread switching in assembler (`switch.S`): a switch is one step.
