---------------------------- MODULE SystemCalls ----------------------------
(***************************************************************************)
(* User processes making the system calls for the console, files and       *)
(* semaphores, over the interrupt simulation (machine/interrupt.cc,        *)
(* timer.cc, threads/alarm.cc), the console devices (machine/console.cc),  *)
(* SynchConsole, FileTable and STable.                                     *)
(*                                                                         *)
(* One processor: a step is the code the current thread runs up to a       *)
(* semaphore operation, or a tick, at which interrupts happen and the      *)
(* timer takes the processor away.  A process has a script of calls; what  *)
(* it computes between two of them is left out.  Time is counted in ticks. *)
(***************************************************************************)
EXTENDS Numbers, FiniteSetsExt, Functions

CONSTANTS Process, NoProcess,
          Scenarios,      \* initial situations: the script of each process, the
                          \* characters typed, whether the input ends after them
          Names,          \* names of files
          SemNames,       \* names of semaphores
          ConsoleTime, TimerTicks, FileMax, MaxSemaphore

\* What a user types is not NUL; the byte 0xFF is the char EOF.
Character == (Nat \ {0}) \union {EOF}

\* The calls and their arguments.  Read of 0 is ReadConsole and Write of 1 is
\* WriteConsole.  ReadString of more than MAX_READ_STRING_LENGTH characters halts
\* the machine: a script ends before it.  Buffers are not empty, lengths not negative.
MAX_READ_STRING_LENGTH == 255
Bytes == Seq(Nat) \ {<< >>}
Command ==
    [op : {"PrintNum"}, n : MinInt..-MinInt - 1]
    \union [op : {"PrintChar", "PrintString"}, chars : Seq(Nat)]
    \union [op : {"WriteConsole"}, chars : Bytes] \union [op : {"ReadNum", "ReadChar"}]
    \union [op : {"ReadString"}, n : 0..MAX_READ_STRING_LENGTH]
    \union [op : {"ReadConsole"}, n : Nat \ {0}]
    \union [op : {"Create"}, name : Names] \union [op : {"Open"}, name : Names, mode : Int]
    \union [op : {"Close"}, fd : Int] \union [op : {"Read"}, n : Nat \ {0}, fd : Int \ {0}]
    \union [op : {"Write"}, chars : Bytes, fd : Int \ {1}]
    \union [op : {"Seek"}, pos : Int, fd : Int]
    \union [op : {"Exec"}, child : Process]
    \union [op : {"CreateSemaphore"}, name : SemNames, value : Int]
    \union [op : {"Wait", "Signal"}, name : SemNames]

ASSUME SystemCallsAssumption ==
    /\ NoProcess \notin Process
    /\ ConsoleTime \in Nat \ {0} /\ TimerTicks \in Nat \ {0}
    /\ FileMax \in Nat /\ MaxSemaphore \in Nat
    /\ \A s \in Scenarios :
         /\ s \in [script : [Process -> Seq(Command)], ready : Seq(Process),
                   typed : Seq(Character), closed : BOOLEAN, wild : SUBSET Int]
         /\ IsInjective(s.ready)

VARIABLES cpu,            \* current thread, ready list, machine status, and the
                          \* oldStatus of each thread that yields in OneTick
          pending,        \* Interrupt::pending: the type of each interrupt and the
                          \* ticks left until it is due
          console,        \* the console devices and what SynchConsole guards them with
          task,           \* where each process is: pc, its call and the call's locals
          script,         \* the calls each process still makes
          numberBuffer,   \* _numberBuffer
          host,           \* the files of the host: whether they exist, their bytes
          fileTable, semTab,
          undefined,      \* memory has been used after it was deleted
          history

vars == <<cpu, pending, console, task, script, numberBuffer, host, fileTable, semTab,
          undefined, history>>

-----------------------------------------------------------------------------
(* Threads and semaphores *)

Semaphore(value) == [value |-> value, queue |-> << >>]

\* Mutant: OneTick does not put the status back.
DispatchInSystem(c) ==
    IF c.ready = << >> THEN [c EXCEPT !.current = NoProcess, !.status = "IdleMode"]
    ELSE [c EXCEPT !.current = Head(c.ready), !.ready = Tail(@), !.status = "SystemMode"]

\* The next ready thread runs; without one the machine is idle.  A thread that
\* was in OneTick puts its status back.
Dispatch(c) ==
    IF c.ready = << >> THEN [c EXCEPT !.current = NoProcess, !.status = "IdleMode"]
    ELSE LET p == Head(c.ready)
         IN [c EXCEPT !.current = p, !.ready = Tail(@), !.oldStatus[p] = "none",
                      !.status = IF c.oldStatus[p] = "none" THEN "SystemMode" ELSE c.oldStatus[p]]

Block(s, p) == [s EXCEPT !.queue = Append(@, p)]
Take(s) == [s EXCEPT !.value = @ - 1]
\* V: the value, and the thread it makes ready.
Give(s) == [value |-> s.value + 1, queue |-> IF s.queue = << >> THEN << >> ELSE Tail(s.queue)]
Wake(c, s) == IF s.queue = << >> THEN c ELSE [c EXCEPT !.ready = Append(@, Head(s.queue))]

-----------------------------------------------------------------------------
(* Interrupts *)

\* Interrupt::Schedule into the sorted list: before the first that is due later.
Schedule(list, type, fromNow) ==
    LET at == Min({n \in DOMAIN list : list[n].left > fromNow} \union {Len(list) + 1})
    IN [n \in 1..Len(list) + 1 |-> CASE n < at -> list[n]
                                     [] n = at -> [type |-> type, left |-> fromNow]
                                     [] OTHER -> list[n - 1]]

\* A machine in the middle of CheckIfDue.
Machine(list) == [pending |-> list, console |-> console, cpu |-> cpu, yield |-> FALSE]

\* ConsoleInput::CallBack.  There may be nothing to read yet (available).  At the
\* end of the file nothing is scheduled any more, but the reader is told.
ReadCallBack(m, available) ==
    LET con == m.console
        told == [con EXCEPT !.inSem = Give(@)]
    IN CASE ~available -> [m EXCEPT !.pending = Schedule(@, "ConsoleReadInt", ConsoleTime)]
         [] available /\ con.input = << >> ->
                [m EXCEPT !.console = told, !.cpu = Wake(@, con.inSem)]
         [] OTHER -> [m EXCEPT !.console = [told EXCEPT !.incoming = Head(con.input),
                                                        !.input = Tail(@)],
                               !.cpu = Wake(@, con.inSem)]

\* Mutant: the printer is not told.
WriteCallBackQuiet(m) == [m EXCEPT !.console.putBusy = FALSE]

\* ConsoleOutput::CallBack
WriteCallBack(m) ==
    LET con == m.console
        told == [con EXCEPT !.putBusy = FALSE, !.outSem = Give(@)]
    IN [m EXCEPT !.console = told, !.cpu = Wake(@, con.outSem)]

\* Alarm::CallBack: YieldOnReturn, unless the machine is idle.
AlarmCallBack(m) == [m EXCEPT !.yield = @ \/ m.cpu.status # "IdleMode"]

\* Timer::CallBack tells the alarm and sets itself again.
TimerCallBack(m) == [AlarmCallBack(m) EXCEPT !.pending = Schedule(@, "TimerInt", TimerTicks)]

\* One turn of CheckIfDue's loop: the first interrupt happens, if it is due.
Fire(m, available) ==
    LET first == Head(m.pending)
        rest == [m EXCEPT !.pending = Tail(@)]
    IN IF m.pending = << >> \/ first.left > 0 THEN m
       ELSE CASE first.type = "ConsoleReadInt" -> ReadCallBack(rest, available)
              [] first.type = "ConsoleWriteInt" -> WriteCallBack(rest)
              [] first.type = "TimerInt" -> TimerCallBack(rest)

\* CheckIfDue once the clock has reached the first interrupt: all that are due
\* happen, one after the other.
CheckIfDue(m, available) ==
    LET fire[n \in 0..Len(m.pending)] ==
            IF n = 0 THEN m ELSE Fire(fire[n - 1], available)
    IN fire[Len(m.pending)]

Later(list, ticks) == [n \in DOMAIN list |-> [list[n] EXCEPT !.left = @ - ticks]]

\* PollFile: characters at hand.  A regular file is always ready, a keyboard may
\* not be, and never is again when all has been typed.
Polls == IF console.input # << >> THEN BOOLEAN ELSE {console.closed}

\* Interrupt::OneTick in the current thread, and its Yield.
OneTick ==
    \E available \in Polls :
        LET m == CheckIfDue(Machine(Later(pending, 1)), available)
            old == [m.cpu EXCEPT !.oldStatus[cpu.current] = cpu.status,
                                 !.ready = Append(@, cpu.current)]
        IN /\ cpu.current # NoProcess
           /\ pending' = m.pending /\ console' = m.console
           /\ cpu' = IF m.yield /\ m.cpu.ready # << >> THEN Dispatch(old) ELSE m.cpu
           /\ UNCHANGED <<task, script, numberBuffer, host, fileTable, semTab, undefined, history>>

\* Interrupt::Idle in the thread that went to sleep, until a thread is ready.
Idle ==
    \E available \in Polls :
        LET m == CheckIfDue(Machine(Later(pending, Head(pending).left)), available)
        IN /\ cpu.current = NoProcess
           /\ pending' = m.pending /\ console' = m.console
           /\ cpu' = Dispatch(m.cpu)
           /\ UNCHANGED <<task, script, numberBuffer, host, fileTable, semTab, undefined, history>>

-----------------------------------------------------------------------------
(* The calls.  A call that uses the console goes round a loop of steps, one *)
(* turn for each character.                                                 *)

At(pc) == cpu.current # NoProcess /\ task[cpu.current].pc = pc
Me == cpu.current
My == task[cpu.current]
Call == Head(script[cpu.current])

NoCall == [op |-> "none"]
\* A process in user code.  chars: what is still to be printed; put and heard: the
\* characters printed and read so far; shares: its digits are in _numberBuffer;
\* disturbed: another process has written there meanwhile.
Idling == [pc |-> "user", call |-> NoCall, ch |-> EOF, k |-> 0, chars |-> << >>,
           put |-> << >>, heard |-> << >>, shares |-> FALSE, disturbed |-> FALSE]

\* What a handler does next: the task, the number buffer, whether it wrote there,
\* and whether the call returns.
Goes(t) == [t |-> t, buffer |-> numberBuffer, wrote |-> FALSE, returns |-> FALSE]
Returns(t) == [Goes(t) EXCEPT !.returns = TRUE]

\* Mutant: the first digit is not stored.
FillShort(n) ==
    LET d == Digits(IF n < 0 THEN -n ELSE n)
    IN [i \in DOMAIN numberBuffer |-> IF i + 1 < Len(d) THEN d[i + 1] ELSE numberBuffer[i]]

\* The digits of n, least significant first, over what the buffer held.
Fill(n) ==
    LET d == Digits(IF n < 0 THEN -n ELSE n)
    IN [i \in DOMAIN numberBuffer |-> IF i < Len(d) THEN d[i + 1] ELSE numberBuffer[i]]

\* The next PutChar of a call, its argument read now.
NextOut(t) ==
    LET Put(u, c) == [u EXCEPT !.pc = "lockOut", !.ch = c]
        n == t.call.n
        last == Len(Digits(IF n < 0 THEN -n ELSE n)) - 1
    IN CASE t.chars # << >> -> Goes(Put([t EXCEPT !.chars = Tail(@)], Head(t.chars)))
         [] t.chars = << >> /\ t.call.op = "PrintNum" ->
              CASE ~t.shares ->
                     [Goes(Put([t EXCEPT !.shares = TRUE, !.k = last], Fill(n)[last] + Zero))
                         EXCEPT !.buffer = Fill(n), !.wrote = TRUE]
                [] t.shares /\ t.k > 0 ->
                     Goes(Put([t EXCEPT !.k = @ - 1], numberBuffer[t.k - 1] + Zero))
                [] OTHER -> Returns(t)
         [] OTHER -> Returns(t)

\* What a call does with the character t.ch that GetChar returned.
NextIn(t) ==
    LET c == t.ch
        again == [t EXCEPT !.pc = "lockIn", !.heard = Append(@, c)]
        stored == [again EXCEPT !.k = @ + 1]
    IN CASE t.call.op = "ReadChar" -> Returns(again)
         [] t.call.op = "ReadString" ->
              IF Len(again.heard) = t.call.n THEN Returns(again) ELSE Goes(again)
         [] t.call.op = "ReadConsole" ->
              IF c = EOF \/ Len(again.heard) = t.call.n THEN Returns(again) ELSE Goes(again)
         [] t.call.op = "ReadNum" ->
              IF isBlank(c) \/ c = EOF THEN Returns(t)
              ELSE [Goes(stored) EXCEPT !.buffer = [numberBuffer EXCEPT ![t.k] = c],
                                        !.wrote = TRUE, !.returns = stored.k > MaxNumLength]

\* strlen
Prefix(buffer) ==
    LET n == Min({i \in DOMAIN buffer : buffer[i] = 0} \union {MaxNumLength + 2})
    IN [i \in 1..n |-> buffer[i - 1]]

\* What the last call that had to do with numbers should have come to, and did.
Answer(r) ==
    CASE r.t.call.op = "PrintNum" ->
            [wanted |-> Numeral(r.t.call.n), got |-> r.t.put, disturbed |-> r.t.disturbed]
      [] r.t.call.op = "ReadNum" ->
            [wanted |-> <<ParseNum(r.t.heard)>>, got |-> <<ParseNum(Prefix(r.buffer))>>,
             disturbed |-> r.t.disturbed]
      [] OTHER -> [wanted |-> << >>, got |-> << >>, disturbed |-> FALSE]

Proceed(r, c) ==
    /\ numberBuffer' = r.buffer
    /\ task' = [p \in Process |->
                   IF p = Me THEN IF r.returns THEN Idling ELSE r.t
                   ELSE [task[p] EXCEPT !.disturbed = @ \/ (r.wrote /\ task[p].shares)]]
    /\ cpu' = [c EXCEPT !.status = IF r.returns THEN "UserMode" ELSE "SystemMode"]
    /\ history' = IF r.returns THEN [history EXCEPT !.answer[Me] = Answer(r)] ELSE history

-----------------------------------------------------------------------------
(* SynchConsole *)

\* P on a semaphore of the console that has to wait.  The thread tries again when
\* it is woken.
Waits(pc, sem) ==
    /\ At(pc) /\ console[sem].value = 0
    /\ console' = [console EXCEPT ![sem] = Block(@, Me)]
    /\ cpu' = Dispatch(cpu)
    /\ UNCHANGED <<pending, task, script, numberBuffer, host, fileTable, semTab, undefined, history>>

LockIn ==
    /\ At("lockIn") /\ console.inLock.value > 0
    /\ console' = [console EXCEPT !.inLock = Take(@)]
    /\ task' = [task EXCEPT ![Me].pc = "waitIn"]
    /\ UNCHANGED <<cpu, pending, script, numberBuffer, host, fileTable, semTab, undefined, history>>

\* Mutant: the next character is asked for as soon as this one is there.
GetCharTwice(ch) ==
    /\ pending' = Schedule(Schedule(pending, "ConsoleReadInt", ConsoleTime),
                           "ConsoleReadInt", ConsoleTime)
    /\ history' = [history EXCEPT !.taken = IF ch = EOF THEN @ ELSE Append(@, ch)]

\* ConsoleInput::GetChar
GetChar(ch) ==
    /\ pending' = IF ch = EOF THEN pending ELSE Schedule(pending, "ConsoleReadInt", ConsoleTime)
    /\ history' = [history EXCEPT !.taken = IF ch = EOF THEN @ ELSE Append(@, ch)]

WaitIn ==
    /\ At("waitIn") /\ console.inSem.value > 0
    /\ GetChar(console.incoming)
    /\ console' = [console EXCEPT !.inSem = Take(@), !.incoming = EOF]
    /\ task' = [task EXCEPT ![Me] = [My EXCEPT !.pc = "unlockIn", !.ch = console.incoming]]
    /\ UNCHANGED <<cpu, script, numberBuffer, host, fileTable, semTab, undefined>>

UnlockIn ==
    /\ At("unlockIn")
    /\ console' = [console EXCEPT !.inLock = Give(@)]
    /\ cpu' = Wake(cpu, console.inLock)
    /\ task' = [task EXCEPT ![Me].pc = "heard"]
    /\ UNCHANGED <<pending, script, numberBuffer, host, fileTable, semTab, undefined, history>>

\* The caller of GetChar goes on; another thread may have run since the Release.
GotChar ==
    /\ At("heard") /\ Proceed(NextIn(My), cpu)
    /\ UNCHANGED <<console, pending, script, host, fileTable, semTab, undefined>>

\* The lock, and ConsoleOutput::PutChar.
LockOut ==
    /\ At("lockOut") /\ console.outLock.value > 0
    /\ console' = [console EXCEPT !.outLock = Take(@), !.putBusy = TRUE]
    /\ pending' = Schedule(pending, "ConsoleWriteInt", ConsoleTime)
    /\ task' = [task EXCEPT ![Me] = [My EXCEPT !.pc = "waitOut", !.put = Append(@, My.ch)]]
    /\ UNCHANGED <<cpu, script, numberBuffer, host, fileTable, semTab, undefined, history>>

WaitOut ==
    /\ At("waitOut") /\ console.outSem.value > 0
    /\ console' = [console EXCEPT !.outSem = Take(@)]
    /\ task' = [task EXCEPT ![Me].pc = "unlockOut"]
    /\ UNCHANGED <<cpu, pending, script, numberBuffer, host, fileTable, semTab, undefined, history>>

UnlockOut ==
    /\ At("unlockOut")
    /\ console' = [console EXCEPT !.outLock = Give(@)]
    /\ cpu' = Wake(cpu, console.outLock)
    /\ task' = [task EXCEPT ![Me].pc = "printed"]
    /\ UNCHANGED <<pending, script, numberBuffer, host, fileTable, semTab, undefined, history>>

PrintNext ==
    /\ At("printed") /\ Proceed(NextOut(My), cpu)
    /\ UNCHANGED <<console, pending, script, host, fileTable, semTab, undefined>>

-----------------------------------------------------------------------------
(* The start of a call *)

Calls(ops) == At("user") /\ script[Me] # << >> /\ Call.op \in ops
Called == script' = [script EXCEPT ![Me] = Tail(@)]

\* SysPrintNum of 0 and of the smallest number, and the calls with a string of
\* their own, have their characters at hand.
PrintCall ==
    LET own == Call.op # "PrintNum" \/ Call.n \in {0, MinInt}
        t == [Idling EXCEPT !.call = IF own THEN [op |-> "Print", n |-> 0] ELSE Call,
                            !.chars = IF Call.op # "PrintNum" THEN Call.chars
                                      ELSE IF own THEN Numeral(Call.n)
                                      ELSE IF Call.n < 0 THEN <<Minus>> ELSE << >>]
    IN /\ Calls({"PrintChar", "PrintString", "WriteConsole", "PrintNum"})
       /\ Called /\ Proceed(NextOut(t), cpu)
       /\ UNCHANGED <<console, pending, host, fileTable, semTab, undefined>>

\* SysReadNum clears the buffer before it reads; a string of length 0 takes nothing.
ReadCall ==
    LET number == Call.op = "ReadNum"
        t == [Idling EXCEPT !.pc = "lockIn", !.call = Call, !.shares = number]
    IN /\ Calls({"ReadChar", "ReadNum", "ReadString", "ReadConsole"})
       /\ Called
       /\ Proceed([Goes(t) EXCEPT !.returns = Call.op = "ReadString" /\ Call.n = 0,
                                  !.wrote = number,
                                  !.buffer = [i \in DOMAIN @ |-> IF number THEN 0 ELSE @[i]]], cpu)
       /\ UNCHANGED <<console, pending, host, fileTable, semTab, undefined>>

-----------------------------------------------------------------------------
(* Files of user programs (FILESYS_STUB): FileTable over the files of the host *)

NoFile == [name |-> "", mode |-> 0, offset |-> 0]
Table == 2..FileMax - 1
\* An entry of a table that was never Renewed: the constructor leaves the array as
\* the heap gave it.  To follow it is undefined.
Wild == [NoFile EXCEPT !.name = "wild"]
ReadWrite == 0        \* MODE_READWRITE, MODE_READ
ReadOnly == 1

\* lseek and write: past the end the gap is filled with zeros.
Written(bytes, at, chars) ==
    LET Byte(i) == CASE i \in at + 1..at + Len(chars) -> chars[i - at]
                     [] i \notin at + 1..at + Len(chars) /\ i <= Len(bytes) -> bytes[i]
                     [] OTHER -> 0
    IN [i \in 1..Max({Len(bytes), at + Len(chars)}) |-> Byte(i)]

\* What a call does to the caller's table and to the files, and what it returns.
Did(files, table, result) == [files |-> files, table |-> table, result |-> result]

\* Create opens the host's file for writing, which empties it.
CreateFile(c, t) == Did([host EXCEPT ![c.name] = [exists |-> TRUE, bytes |-> << >>]], t, 0)

\* FileTable::Insert
Insert(c, t) ==
    LET free == {fd \in Table : t[fd] = NoFile}
    IN IF c.mode \notin {ReadWrite, ReadOnly} \/ free = {} \/ ~host[c.name].exists
       THEN Did(host, t, -1)
       ELSE Did(host, [t EXCEPT ![Min(free)] = [name |-> c.name, mode |-> c.mode, offset |-> 0]],
                Min(free))

\* FileTable::Remove, Read, Write and Seek on a descriptor that may not be open.
\* A Read that comes to the end returns -2, but has read what there was.
RemoveFile(c, t) == Did(host, [t EXCEPT ![c.fd] = NoFile], 0)

ReadFile(c, t) ==
    LET there == Len(host[t[c.fd].name].bytes) - t[c.fd].offset
        got == Min({c.n, Max({there, 0})})
    IN Did(host, [t EXCEPT ![c.fd].offset = @ + got], IF got = c.n THEN got ELSE -2)

\* Mutant: the mode of the descriptor is not looked at.
WriteFileAnyway(c, t) ==
    LET f == t[c.fd]
    IN Did([host EXCEPT ![f.name].bytes = Written(@, f.offset, c.chars)],
           [t EXCEPT ![c.fd].offset = @ + Len(c.chars)], Len(c.chars))

WriteFile(c, t) ==
    LET f == t[c.fd]
    IN IF f.mode = ReadOnly THEN Did(host, t, -1)
       ELSE Did([host EXCEPT ![f.name].bytes = Written(@, f.offset, c.chars)],
                [t EXCEPT ![c.fd].offset = @ + Len(c.chars)], Len(c.chars))

SeekFile(c, t) ==
    LET end == Len(host[t[c.fd].name].bytes)
        pos == IF c.pos = -1 THEN end ELSE c.pos
    IN IF pos \notin 0..end THEN Did(host, t, -1)
       ELSE Did(host, [t EXCEPT ![c.fd].offset = pos], pos)

Open(c, t) == c.fd \in Table /\ t[c.fd] # NoFile

\* Read and Write follow the entries below 2 too, which nobody ever sets; but the
\* mode of descriptor 0 is MODE_READ, so that Write of 0 fails.
IsWild(c, t) ==
    \/ c.op \in {"Close", "Read", "Write", "Seek"} /\ Open(c, t) /\ t[c.fd] = Wild
    \/ c.op = "Read" /\ c.fd < 2
    \/ c.op = "Write" /\ c.fd < 0

FileDid(c, t) ==
    LET opened == Open(c, t) /\ ~IsWild(c, t)
    IN CASE c.op = "Create" -> CreateFile(c, t)
         [] c.op = "Open" -> Insert(c, t)
         [] c.op = "Close" /\ opened -> RemoveFile(c, t)
         [] c.op = "Read" /\ opened -> ReadFile(c, t)
         [] c.op = "Write" /\ opened -> WriteFile(c, t)
         [] c.op = "Seek" /\ opened -> SeekFile(c, t)
         [] OTHER -> Did(host, t, -1)

FileCall ==
    LET did == FileDid(Call, fileTable[Me])
    IN /\ Calls({"Create", "Open", "Close", "Read", "Write", "Seek"})
       /\ Called
       /\ host' = did.files /\ fileTable' = [fileTable EXCEPT ![Me] = did.table]
       /\ undefined' = (undefined \/ IsWild(Call, fileTable[Me]))
       /\ history' = [history EXCEPT !.result[Me] = did.result]
       /\ UNCHANGED <<cpu, pending, console, task, numberBuffer, semTab>>

\* Exec, as far as files are concerned: the child gets a number that no process
\* has, and FileSystem::Renew closes what the last one with it left open.
Exec ==
    LET child == Call.child
    IN /\ Calls({"Exec"}) /\ Called
       /\ task[child].pc \in {"none", "done"}
       /\ fileTable' = [fileTable EXCEPT ![child] = [fd \in Table |-> NoFile]]
       /\ undefined' = (undefined \/ \E fd \in Table : fileTable[child][fd] = Wild)
       /\ task' = [task EXCEPT ![child].pc = "new"]
       /\ cpu' = [cpu EXCEPT !.ready = Append(@, child)]
       /\ UNCHANGED <<pending, console, numberBuffer, host, semTab, history>>

-----------------------------------------------------------------------------
(* Semaphores of user programs: STable *)

\* The first semaphore of that name; 0 without one.
Slot(name) ==
    LET found == {k \in DOMAIN semTab : semTab[k].name = name}
    IN IF found = {} THEN 0 ELSE Min(found)

\* A call that fails has deleted the name, which its caller deletes again.
SemFails ==
    /\ undefined' = TRUE
    /\ history' = [history EXCEPT !.result[Me] = -1]
    /\ UNCHANGED <<cpu, pending, console, task, numberBuffer, host, fileTable, semTab>>

\* STable::Create
CreateSemaphore ==
    /\ Calls({"CreateSemaphore"}) /\ Called
    /\ IF Slot(Call.name) # 0 \/ Len(semTab) = MaxSemaphore THEN SemFails
       ELSE /\ semTab' = Append(semTab, [name |-> Call.name, init |-> Call.value,
                                         sem |-> Semaphore(Call.value), waits |-> 0, signals |-> 0])
            /\ history' = [history EXCEPT !.result[Me] = 0]
            /\ UNCHANGED <<cpu, pending, console, task, numberBuffer, host, fileTable, undefined>>

\* STable::Wait finds the semaphore, then P.
Wait ==
    /\ Calls({"Wait"}) /\ Called
    /\ IF Slot(Call.name) = 0 THEN SemFails
       ELSE /\ task' = [task EXCEPT ![Me] = [Idling EXCEPT !.pc = "wait", !.call = Call,
                                                           !.k = Slot(Call.name)]]
            /\ cpu' = [cpu EXCEPT !.status = "SystemMode"]
            /\ UNCHANGED <<pending, console, numberBuffer, host, fileTable, semTab, undefined, history>>

WaitP ==
    LET e == semTab[My.k]
    IN /\ At("wait")
       /\ IF e.sem.value # 0
          THEN /\ semTab' = [semTab EXCEPT ![My.k] = [e EXCEPT !.sem = Take(@), !.waits = @ + 1]]
               /\ task' = [task EXCEPT ![Me] = Idling]
               /\ cpu' = [cpu EXCEPT !.status = "UserMode"]
               /\ history' = [history EXCEPT !.result[Me] = 0]
          ELSE /\ semTab' = [semTab EXCEPT ![My.k] = [e EXCEPT !.sem = Block(@, Me)]]
               /\ cpu' = Dispatch(cpu)
               /\ UNCHANGED <<task, history>>
       /\ UNCHANGED <<pending, console, script, numberBuffer, host, fileTable, undefined>>

\* STable::Signal
Signal ==
    LET k == Slot(Call.name)
        e == semTab[k]
    IN /\ Calls({"Signal"}) /\ Called
       /\ IF k = 0 THEN SemFails
          ELSE /\ semTab' = [semTab EXCEPT ![k] = [e EXCEPT !.sem = Give(@), !.signals = @ + 1]]
               /\ cpu' = Wake(cpu, e.sem)
               /\ history' = [history EXCEPT !.result[Me] = 0]
               /\ UNCHANGED <<pending, console, task, numberBuffer, host, fileTable, undefined>>

-----------------------------------------------------------------------------
\* A new thread enters Machine::Run.
Enter ==
    /\ At("new")
    /\ task' = [task EXCEPT ![Me] = Idling]
    /\ cpu' = [cpu EXCEPT !.status = "UserMode"]
    /\ UNCHANGED <<pending, console, script, numberBuffer, host, fileTable, semTab, undefined, history>>

\* A process without calls to make has finished.
Finish ==
    /\ At("user") /\ script[Me] = << >>
    /\ task' = [task EXCEPT ![Me].pc = "done"]
    /\ cpu' = Dispatch(cpu)
    /\ UNCHANGED <<pending, console, script, numberBuffer, host, fileTable, semTab, undefined, history>>

\* The timer and the input device are set when the kernel starts; the first
\* process is ready, the others are started by Exec.
Init ==
    \E s \in Scenarios :
        /\ cpu = [current |-> NoProcess, ready |-> s.ready, status |-> "IdleMode",
                  oldStatus |-> [p \in Process |-> "none"]]
        /\ pending = Schedule(Schedule(<< >>, "TimerInt", TimerTicks), "ConsoleReadInt", ConsoleTime)
        /\ console = [incoming |-> EOF, input |-> s.typed, closed |-> s.closed, putBusy |-> FALSE,
                      inLock |-> Semaphore(1), inSem |-> Semaphore(0),
                      outLock |-> Semaphore(1), outSem |-> Semaphore(0)]
        /\ task = [p \in Process |-> [Idling EXCEPT !.pc = IF p \in Range(s.ready) THEN "new" ELSE "none"]]
        /\ script = s.script
        /\ numberBuffer = [i \in 0..MaxNumLength + 1 |-> 0]
        /\ host = [f \in Names |-> [exists |-> FALSE, bytes |-> << >>]]
        /\ fileTable = [p \in Process |-> [fd \in Table |-> IF fd \in s.wild THEN Wild ELSE NoFile]]
        /\ semTab = << >> /\ undefined = FALSE
        /\ history = [typed |-> s.typed, taken |-> << >>,
                      answer |-> [p \in Process |-> [wanted |-> << >>, got |-> << >>, disturbed |-> FALSE]],
                      result |-> [p \in Process |-> 0]]

\* The code of the current thread.
Code ==
    \/ Waits("lockIn", "inLock") \/ Waits("waitIn", "inSem")
    \/ Waits("lockOut", "outLock") \/ Waits("waitOut", "outSem")
    \/ LockIn \/ WaitIn \/ UnlockIn \/ GotChar
    \/ LockOut \/ WaitOut \/ UnlockOut \/ PrintNext
    \/ PrintCall \/ ReadCall \/ FileCall \/ Exec
    \/ CreateSemaphore \/ Wait \/ WaitP \/ Signal \/ Enter \/ Finish

Next == OneTick \/ Idle \/ Code

\* The idle machine goes on to the next interrupt; a thread that is given the
\* processor again and again executes code, and not only ticks pass; the device
\* does not poll for ever while there is a character.
Pending(type) == {n \in DOMAIN pending : pending[n].type = type}
Asleep(p) ==
    \/ \E sem \in {"inLock", "inSem", "outLock", "outSem"} : p \in Range(console[sem].queue)
    \/ \E k \in DOMAIN semTab : p \in Range(semTab[k].sem.queue)
Runs(p) == cpu.current = p /\ (task' # task \/ script' # script \/ Asleep(p)')
Fairness ==
    /\ WF_vars(Idle)
    /\ \A p \in Process : []<>(cpu.current = p) => []<><<Runs(p)>>_vars
    /\ []<>(console.input = << >> \/ Pending("ConsoleReadInt") = {})

Spec == Init /\ [][Next]_vars /\ Fairness

-----------------------------------------------------------------------------
\* Whoever reads and prints, in whatever order the interrupts come: each character
\* typed is handed to one reader, in the order of typing, up to a byte 0xFF, which
\* is lost and the last the device reads; the devices get one request at a time, so
\* that no ASSERT of console.cc fails and no character is overwritten; the list of
\* interrupts is sorted and none is overdue.
ConsoleExact ==
    /\ \/ console.incoming = EOF /\ history.typed = history.taken \o console.input
       \/ history.typed = history.taken \o <<console.incoming>> \o console.input
    /\ \A i, j \in Pending("ConsoleReadInt") : i = j
    /\ Pending("ConsoleReadInt") # {} =>
          /\ console.incoming = EOF /\ console.inSem.value = 0
          /\ history.typed = history.taken \o console.input
    /\ console.putBusy <=> Pending("ConsoleWriteInt") # {}
    /\ console.outLock.value = 1 => ~console.putBusy /\ console.outSem.value = 0
    /\ \A n \in DOMAIN pending : pending[n].left > 0
    /\ \A n \in 1..Len(pending) - 1 : pending[n].left <= pending[n + 1].left

\* Interrupt::status is UserMode exactly while the current thread executes user
\* code, whichever thread the timer interrupted and wherever it goes on: OneTick
\* keeps the status of the thread across the switch.
StatusRight ==
    IF cpu.current = NoProcess THEN cpu.status = "IdleMode"
    ELSE cpu.status = IF task[cpu.current].pc = "user" THEN "UserMode" ELSE "SystemMode"

\* PrintNum prints its number and ReadNum returns the number that was typed, unless
\* another process wrote into the global _numberBuffer between the steps of the
\* call.
NumbersIntact ==
    \A p \in Process :
        ~history.answer[p].disturbed => history.answer[p].got = history.answer[p].wanted

\* The semaphores of user programs have distinct names, and as many waits as the
\* initial value and the signals allow: a count that was not negative stays so.  A call
\* changes the caller's descriptors only (Exec the child's), and bytes only of
\* files it creates or has open for writing.  Until memory is misused.
ObjectsExact ==
    /\ [](~undefined =>
            \A k \in DOMAIN semTab :
                LET s == semTab[k]
                IN /\ \A j \in DOMAIN semTab : semTab[j].name = s.name => j = k
                   /\ s.sem.value = s.init + s.signals - s.waits
                   /\ s.init >= 0 => s.sem.value >= 0)
    /\ [][\A p \in Process : fileTable'[p] # fileTable[p] =>
              p = Me \/ Call = [op |-> "Exec", child |-> p]]_vars
    /\ [][~undefined => \A f \in Names : host'[f] # host[f] =>
              \/ Call = [op |-> "Create", name |-> f]
              \/ Call.op = "Write" /\ fileTable[Me][Call.fd].name = f
                                   /\ fileTable[Me][Call.fd].mode = ReadWrite]_vars

\* A call returns, unless it reads where nothing is typed any more or nothing read
\* (the end of the input is reported once, and the next reader sleeps with the
\* lock), or waits for a semaphore nobody signals.
Starved(p) ==
    \/ /\ task[p].pc \in {"lockIn", "waitIn"}
       /\ console.incoming = EOF /\ console.inSem.value = 0
       /\ Pending("ConsoleReadInt") = {} \/ (console.input = << >> /\ ~console.closed)
    \/ task[p].pc = "wait" /\ semTab[task[p].k].sem.value = 0

CallsReturn ==
    \A p \in Process :
        [](task[p].pc \notin {"none", "new", "user", "done"}
              => <>(task[p].pc = "user" \/ Starved(p)))
=============================================================================
