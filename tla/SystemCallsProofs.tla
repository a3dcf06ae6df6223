------------------------- MODULE SystemCallsProofs -------------------------
(***************************************************************************)
(* The system calls keep the invariant of ConsoleProofs, for any           *)
(* processes, scripts and input; with it, the theorems about module        *)
(* SystemCalls.                                                            *)
(***************************************************************************)
EXTENDS ConsoleProofs

-----------------------------------------------------------------------------
(* The start of a call *)

\* The call a process makes.
LEMMA CallFacts ==
  ASSUME Inv, NEW ops, Calls(ops), Called
  PROVE  /\ At("user") /\ Me \in Process /\ cpu.current = Me /\ My \in Task /\ My.pc = "user"
         /\ Call \in Command /\ Call.op \in ops
         /\ cpu.status = "UserMode" /\ script' \in [Process -> Seq(Command)]
<1>1. At("user") /\ script[Me] # << >> /\ Call.op \in ops
  BY Zenon DEF Calls
<1>2. Me \in Process /\ cpu.current = Me /\ My \in Task /\ My.pc = "user" /\ cpu.status = "UserMode"
  BY <1>1, AtFacts DEF Me
<1>3. script[Me] \in Seq(Command) /\ script \in [Process -> Seq(Command)]
  BY Zenon, <1>2, InvFacts
<1>4. Head(script[Me]) \in Command /\ Tail(script[Me]) \in Seq(Command)
  BY Zenon, <1>1, <1>3, HeadTailProperties
<1>5. script' \in [Process -> Seq(Command)]
  BY Zenon, <1>3, <1>4, EntrySet DEF Called
<1> QED BY Zenon, <1>1, <1>2, <1>4, <1>5 DEF Call, Me

\* What SysPrintNum and the calls with a string start with.
Prints == {"PrintChar", "PrintString", "WriteConsole", "PrintNum"}
Start(c) ==
    LET own == c.op # "PrintNum" \/ c.n \in {0, MinInt}
    IN [Idling EXCEPT !.call = IF own THEN PrintOwn ELSE c,
                      !.chars = IF c.op # "PrintNum" THEN c.chars
                                ELSE IF own THEN Numeral(c.n)
                                ELSE IF c.n < 0 THEN <<Minus>> ELSE << >>]
LEMMA StartFacts ==
  ASSUME NEW c \in Command, c.op \in Prints
  PROVE  /\ Start(c) \in Task /\ Start(c).pc = "user" /\ CallOK(Start(c))
         /\ Start(c).put = << >> /\ Start(c).shares = FALSE /\ Start(c).disturbed = FALSE
         /\ \/ Start(c).call = PrintOwn
            \/ /\ Start(c).call = c /\ c.op = "PrintNum" /\ c.n \notin {0, MinInt}
               /\ c.n \in Range32 /\ Start(c).chars = Sign(c.n)
<1> DEFINE own == c.op # "PrintNum" \/ c.n \in {0, MinInt}
           x == IF own THEN PrintOwn ELSE c
           y == IF c.op # "PrintNum" THEN c.chars
                ELSE IF own THEN Numeral(c.n)
                ELSE IF c.n < 0 THEN <<Minus>> ELSE << >>
<1>1. Start(c) = [Idling EXCEPT !.call = x, !.chars = y]
  BY Zenon DEF Start
<1>2. x \in CallType
  BY Zenon DEF CallType
<1>3. c.op = "PrintNum" => c.n \in Range32 /\ c.n \in Int
  BY Zenon, CommandFacts, NumberRange
<1>4. y \in Text /\ (~ own => y = Sign(c.n))
  <2>1. CASE c.op # "PrintNum"
    <3>1. y = c.chars
      BY Zenon, <2>1
    <3>2. c.op \in {"PrintChar", "PrintString", "WriteConsole"}
      BY <2>1 DEF Prints
    <3>3. c.chars \in Characters
      BY Zenon, <3>2, CommandFacts
    <3>4. c.chars \in Text
      BY <3>3 DEF Characters, Text
    <3> QED BY Zenon, <2>1, <3>1, <3>4
  <2>2. CASE c.op = "PrintNum" /\ own
    <3>1. y = Numeral(c.n)
      BY Zenon, <2>2
    <3> QED BY Zenon, <1>3, <2>2, <3>1, NumeralFacts
  <2>3. CASE c.op = "PrintNum" /\ ~ own
    <3>1. y = Sign(c.n)
      <4>1. CASE c.n < 0
        BY Zenon, <2>3, <4>1 DEF Sign
      <4>2. CASE ~ (c.n < 0)
        BY Zenon, <2>3, <4>2 DEF Sign
      <4> QED BY <4>1, <4>2
    <3> QED BY Zenon, <1>3, <2>3, <3>1, NumeralFacts
  <2> QED BY Zenon, <2>1, <2>2, <2>3
<1>x. /\ own => x = PrintOwn
      /\ ~ own => x = c /\ c.op = "PrintNum" /\ c.n \notin {0, MinInt}
  BY Zenon
<1> HIDE DEF x, y, own
<1>5. LET s == Start(c)
      IN /\ s \in Task /\ s.pc = "user" /\ s.call = x /\ s.chars = y /\ s.k = 0
         /\ s.put = << >> /\ s.shares = FALSE /\ s.disturbed = FALSE
  <2>1. Idling \in Task /\ Idling.pc = "user" /\ Idling.k = 0
    BY Zenon, IdlingTask
  <2>2. Idling.put = << >> /\ Idling.shares = FALSE /\ Idling.disturbed = FALSE
    BY DEF Idling
  <2>3. LET s == Start(c)
        IN /\ s \in Task /\ s.pc = Idling.pc /\ s.call = x /\ s.chars = y /\ s.k = Idling.k
           /\ s.put = Idling.put /\ s.shares = Idling.shares /\ s.disturbed = Idling.disturbed
    BY Zenon, <1>1, <1>2, <1>4, <2>1 DEF Task
  <2> QED BY Zenon, <2>1, <2>2, <2>3
<1>6. CallOK(Start(c))
  <2>1. x.op = "PrintNum" => x.n # 0
    <3>1. CASE own
      BY <1>x, <3>1 DEF PrintOwn
    <3>2. CASE ~ own
      BY <1>x, <3>2
    <3> QED BY <3>1, <3>2
  <2>2. 0 <= MaxNumLength + 1
    BY NumbersAssumption
  <2>3. "user" \notin Ins
    BY DEF Ins
  <2> QED BY Zenon, <1>5, <2>1, <2>2, <2>3 DEF CallOK
<1> QED BY Zenon, <1>3, <1>4, <1>5, <1>6, <1>x

LEMMA PrintCallInv ==
  ASSUME Inv, PrintCall
  PROVE  Inv'
<1>1. /\ Calls(Prints) /\ Called /\ Proceed(NextOut(Start(Call)), cpu)
      /\ UNCHANGED <<console, pending, host, fileTable, semTab, undefined>>
  BY Zenon DEF PrintCall, Start, Prints, PrintOwn
<1>2. /\ At("user") /\ Call \in Command /\ Call.op \in Prints
      /\ script' \in [Process -> Seq(Command)]
  BY Zenon, <1>1, CallFacts
<1>3. Start(Call) \in Task /\ CallOK(Start(Call))
  BY Zenon, <1>2, StartFacts
<1>4. numberBuffer \in Buffers
  BY Zenon DEF Inv, TypeOK, Buffers
<1>5. Turned(NextOut(Start(Call)), "lockOut")
  BY Zenon, <1>3, <1>4, NextOutTurned
<1>6. "user" \in {"heard", "printed", "user"} /\ "lockOut" \in {"lockIn", "lockOut"}
  OBVIOUS
<1> QED BY Zenon, <1>1, <1>2, <1>5, <1>6, ProceedInv

\* What a call that reads starts with.
Listen(c) == [Idling EXCEPT !.pc = "lockIn", !.call = c, !.shares = (c.op = "ReadNum")]
Listens(c) ==
    [Goes(Listen(c)) EXCEPT !.returns = (c.op = "ReadString" /\ c.n = 0),
                            !.wrote = (c.op = "ReadNum"),
                            !.buffer = [i \in DOMAIN Goes(Listen(c)).buffer |->
                                            IF c.op = "ReadNum" THEN 0
                                            ELSE Goes(Listen(c)).buffer[i]]]
Listening(c, u, r) ==
    /\ u.pc = "lockIn" /\ u.call = c /\ u.k = 0 /\ u.heard = << >>
    /\ r.t = u /\ r.returns = (c.op = "ReadString" /\ c.n = 0)
    /\ c.op = "ReadNum" => /\ u.shares /\ r.wrote
                           /\ \A i \in 0 .. MaxNumLength + 1 : r.buffer[i] = 0
    /\ c.op # "ReadNum" => r.buffer = numberBuffer
LEMMA ListensFacts ==
  ASSUME NEW c \in Command, c.op \in Reads, numberBuffer \in Buffers,
         NEW u, u = Listen(c), NEW r, r = Listens(c)
  PROVE  Listening(c, u, r) /\ Turned(r, "lockIn")
<1> DEFINE n == (c.op = "ReadNum")
           e == (c.op = "ReadString" /\ c.n = 0)
           b == [i \in DOMAIN numberBuffer |-> IF n THEN 0 ELSE numberBuffer[i]]
<1>1. /\ "lockIn" \in PCs /\ c \in CallType /\ n \in BOOLEAN /\ e \in BOOLEAN /\ Idling \in Task /\ Idling.k = 0
      /\ Idling.heard = << >>
  <2>1. "lockIn" \in PCs
    BY DEF PCs
  <2>2. Idling.heard = << >>
    BY DEF Idling
  <2> QED BY Zenon, <2>1, <2>2, IdlingTask DEF CallType
<1>2. /\ b \in Buffers
      /\ n => \A i \in 0 .. MaxNumLength + 1 : b[i] = 0
      /\ ~n => b = numberBuffer
  <2>1. n => \A i \in 0 .. MaxNumLength + 1 : b[i] = 0
    BY Zenon DEF Buffers
  <2>2. ~n => b = numberBuffer
    BY DEF Buffers
  <2>3. b \in Buffers
    BY DEF Buffers
  <2> QED BY Zenon, <2>1, <2>2, <2>3
<1>3. u = [Idling EXCEPT !.pc = "lockIn", !.call = c, !.shares = n]
  BY Zenon DEF Listen
<1>4. r = [Goes(u) EXCEPT !.returns = e, !.wrote = n, !.buffer = b]
  <2>1. r = [Goes(u) EXCEPT !.returns = e, !.wrote = n, !.buffer = [i \in DOMAIN Goes(u).buffer |->
                                                        IF n THEN 0 ELSE Goes(u).buffer[i]]]
    BY Zenon DEF Listens
  <2>2. Goes(u).buffer = numberBuffer
    BY Zenon, GoesFields
  <2> QED BY <2>1, <2>2
<1>n. n = (c.op = "ReadNum") /\ e = (c.op = "ReadString" /\ c.n = 0)
  BY Zenon
<1> HIDE DEF n, e, b
<1>5. /\ u \in Task /\ u.pc = "lockIn" /\ u.call = c /\ u.shares = n
      /\ u.k = Idling.k /\ u.heard = Idling.heard
  BY Zenon, <1>1, <1>3 DEF Task
<1>6. r.t = u /\ r.wrote = n /\ r.returns = e /\ r.buffer = b
  BY <1>4 DEF Goes
<1>7. CallOK(u)
  BY <1>5 DEF CallOK, Reads
<1>8. Turned(r, "lockIn")
  BY Zenon, <1>1, <1>2, <1>5, <1>6, <1>7 DEF Turned
<1>9. Listening(c, u, r)
  BY Zenon, <1>1, <1>2, <1>5, <1>6, <1>n DEF Listening
<1> QED BY Zenon, <1>8, <1>9

LEMMA ReadCallInv ==
  ASSUME Inv, ReadCall
  PROVE  Inv'
<1>4. numberBuffer \in Buffers
  BY Zenon DEF Inv, TypeOK, Buffers
<1>1. /\ Calls(Reads) /\ Called /\ Proceed(Listens(Call), cpu)
      /\ UNCHANGED <<console, pending, host, fileTable, semTab, undefined>>
  BY Zenon DEF ReadCall, Listens, Listen, Reads
<1>2. /\ At("user") /\ Call \in Command /\ Call.op \in Reads
      /\ script' \in [Process -> Seq(Command)]
  BY Zenon, <1>1, CallFacts
<1>5. Turned(Listens(Call), "lockIn")
  BY Zenon, <1>2, <1>4, ListensFacts
<1>6. "user" \in {"heard", "printed", "user"} /\ "lockIn" \in {"lockIn", "lockOut"}
  OBVIOUS
<1> QED BY Zenon, <1>1, <1>2, <1>5, <1>6, ProceedInv

-----------------------------------------------------------------------------
(* Files *)

LEMMA TableEntry ==
  ASSUME NEW t, TableOK(t), NEW fd, NEW e, DOMAIN e = {"name", "mode", "offset"},
         e.mode \in {ReadWrite, ReadOnly}
  PROVE  TableOK([t EXCEPT ![fd] = e])
<1> DEFINE u == [t EXCEPT ![fd] = e]
<1>1. DOMAIN u = DOMAIN t /\ \A i \in DOMAIN t : u[i] = IF i = fd THEN e ELSE t[i]
  BY Zenon
<1> HIDE DEF u
<1>2. TableOK(u)
  BY <1>1 DEF TableOK
<1> QED BY <1>2 DEF u

\* Only the offset of a descriptor moves.
LEMMA OffsetMoved ==
  ASSUME NEW t, TableOK(t), NEW fd \in Table, NEW o
  PROVE  TableOK([t EXCEPT ![fd].offset = o])
<1> DEFINE e == [t[fd] EXCEPT !.offset = o]
<1>1. [t EXCEPT ![fd].offset = o] = [t EXCEPT ![fd] = e]
  BY Zenon
<1>2. DOMAIN t[fd] = {"name", "mode", "offset"} /\ t[fd].mode \in {ReadWrite, ReadOnly}
  BY Zenon DEF TableOK
<1>3. DOMAIN e = DOMAIN t[fd] /\ e.mode = t[fd].mode
  BY <1>2
<1> HIDE DEF e
<1> QED BY Zenon, <1>1, <1>2, <1>3, TableEntry

\* What a call may do to the files: it writes those it creates or has open for writing.
Allowed(c, t, did) ==
    /\ DOMAIN did.files = Names /\ TableOK(did.table)
    /\ \A f \in Names : did.files[f] # host[f] =>
          \/ c = [op |-> "Create", name |-> f]
          \/ c.op = "Write" /\ t[c.fd].name = f /\ t[c.fd].mode = ReadWrite
LEMMA TableChanges ==
  ASSUME NEW c, NEW t, NEW table, TableOK(table), DOMAIN host = Names, NEW result
  PROVE  Allowed(c, t, Did(host, table, result))
<1> DEFINE did == Did(host, table, result)
<1>1. did.files = host /\ did.table = table
  BY DEF Did
<1> HIDE DEF did
<1>2. Allowed(c, t, did)
  BY Zenon, <1>1 DEF Allowed
<1> QED BY <1>2 DEF did

LEMMA NoFileEntry ==
  DOMAIN NoFile = {"name", "mode", "offset"} /\ NoFile.mode \in {ReadWrite, ReadOnly}
BY DEF NoFile, ReadWrite

LEMMA CreateAllowed ==
  ASSUME NEW c \in Command, c.op = "Create", NEW t, TableOK(t), DOMAIN host = Names
  PROVE  Allowed(c, t, CreateFile(c, t))
<1> DEFINE e == [exists |-> TRUE, bytes |-> << >>]
           h == [host EXCEPT ![c.name] = e]
<1>1. CreateFile(c, t) = Did(h, t, 0)
  BY Zenon DEF CreateFile
<1>2. DOMAIN h = Names /\ \A f \in Names : f # c.name => h[f] = host[f]
  BY Zenon
<1>3. c = [op |-> "Create", name |-> c.name]
  BY Zenon, CommandFacts
<1> DEFINE did == CreateFile(c, t)
<1>4. did.files = h /\ did.table = t
  BY <1>1 DEF Did
<1> HIDE DEF h, did
<1>5. Allowed(c, t, did)
  BY Zenon, <1>2, <1>3, <1>4 DEF Allowed
<1> QED BY <1>5 DEF did

LEMMA InsertAllowed ==
  ASSUME NEW c, NEW t, TableOK(t), DOMAIN host = Names
  PROVE  Allowed(c, t, Insert(c, t))
<1> DEFINE free == {fd \in Table : t[fd] = NoFile}
           fd == Min(free)
           e == [name |-> c.name, mode |-> c.mode, offset |-> 0]
           new == [t EXCEPT ![fd] = e]
<1>1. CASE c.mode \notin {ReadWrite, ReadOnly} \/ free = {} \/ ~host[c.name].exists
  <2>1. Insert(c, t) = Did(host, t, -1)
    BY Zenon, <1>1 DEF Insert
  <2> QED BY Zenon, <2>1, TableChanges
<1>2. CASE ~(c.mode \notin {ReadWrite, ReadOnly} \/ free = {} \/ ~host[c.name].exists)
  <2>1. Insert(c, t) = Did(host, new, fd)
    BY Zenon, <1>2 DEF Insert
  <2>2. DOMAIN e = {"name", "mode", "offset"} /\ e.mode \in {ReadWrite, ReadOnly}
    BY <1>2
  <2> HIDE DEF e, fd
  <2>3. TableOK(new)
    BY Zenon, <2>2, TableEntry
  <2> HIDE DEF new
  <2> QED BY Zenon, <2>1, <2>3, TableChanges
<1> QED BY <1>1, <1>2

LEMMA RemoveAllowed ==
  ASSUME NEW c, NEW t, TableOK(t), DOMAIN host = Names
  PROVE  Allowed(c, t, RemoveFile(c, t))
<1> DEFINE new == [t EXCEPT ![c.fd] = NoFile]
<1>1. RemoveFile(c, t) = Did(host, new, 0)
  BY Zenon DEF RemoveFile
<1>2. TableOK(new)
  BY Zenon, NoFileEntry, TableEntry
<1> HIDE DEF new
<1> QED BY Zenon, <1>1, <1>2, TableChanges

LEMMA ReadAllowed ==
  ASSUME NEW c, NEW t, TableOK(t), c.fd \in Table, DOMAIN host = Names
  PROVE  Allowed(c, t, ReadFile(c, t))
<1> DEFINE there == Len(host[t[c.fd].name].bytes) - t[c.fd].offset
           got == Min({c.n, Max({there, 0})})
           o == t[c.fd].offset + got
           new == [t EXCEPT ![c.fd].offset = o]
           result == IF got = c.n THEN got ELSE -2
<1>1. ReadFile(c, t) = Did(host, new, result)
  BY Zenon DEF ReadFile
<1> HIDE DEF o, result
<1>2. TableOK(new)
  BY Zenon, OffsetMoved
<1> HIDE DEF new
<1> QED BY Zenon, <1>1, <1>2, TableChanges

LEMMA SeekAllowed ==
  ASSUME NEW c, NEW t, TableOK(t), c.fd \in Table, DOMAIN host = Names
  PROVE  Allowed(c, t, SeekFile(c, t))
<1> DEFINE end == Len(host[t[c.fd].name].bytes)
           pos == IF c.pos = -1 THEN end ELSE c.pos
           new == [t EXCEPT ![c.fd].offset = pos]
<1>1. SeekFile(c, t) = Did(host, t, -1) \/ SeekFile(c, t) = Did(host, new, pos)
  BY Zenon DEF SeekFile
<1> HIDE DEF pos
<1>2. TableOK(new)
  BY Zenon, OffsetMoved
<1> HIDE DEF new
<1> QED BY Zenon, <1>1, <1>2, TableChanges

LEMMA WriteAllowed ==
  ASSUME NEW c, c.op = "Write", NEW t, TableOK(t), c.fd \in Table, DOMAIN host = Names
  PROVE  Allowed(c, t, WriteFile(c, t))
<1> DEFINE f == t[c.fd]
           o == f.offset + Len(c.chars)
           b == Written(host[f.name].bytes, f.offset, c.chars)
           new == [t EXCEPT ![c.fd].offset = o]
           h == [host EXCEPT ![f.name].bytes = b]
<1>1. CASE f.mode = ReadOnly
  <2>1. WriteFile(c, t) = Did(host, t, -1)
    BY Zenon, <1>1 DEF WriteFile
  <2> QED BY Zenon, <2>1, TableChanges
<1>2. CASE f.mode # ReadOnly
  <2>1. WriteFile(c, t) = Did(h, new, Len(c.chars))
    BY Zenon, <1>2 DEF WriteFile
  <2>2. f.mode = ReadWrite
    <3>1. f.mode \in {ReadWrite, ReadOnly}
      BY Zenon DEF TableOK
    <3> QED BY Zenon, <1>2, <3>1
  <2> HIDE DEF o, b
  <2>3. TableOK(new)
    BY Zenon, OffsetMoved
  <2>4. DOMAIN h = Names /\ \A g \in Names : g # f.name => h[g] = host[g]
    <3> DEFINE e == [host[f.name] EXCEPT !.bytes = b]
    <3>1. h = [host EXCEPT ![f.name] = e]
      BY Zenon
    <3> HIDE DEF e
    <3> QED BY Zenon, <3>1
  <2> DEFINE did == WriteFile(c, t)
  <2>5. did.files = h /\ did.table = new
    BY <2>1 DEF Did
  <2> HIDE DEF h, new, did
  <2>6. Allowed(c, t, did)
    BY Zenon, <2>2, <2>3, <2>4, <2>5 DEF Allowed
  <2> QED BY <2>6 DEF did
<1> QED BY <1>1, <1>2

LEMMA FileDidAllowed ==
  ASSUME NEW c \in Command, NEW t, TableOK(t), DOMAIN host = Names
  PROVE  Allowed(c, t, FileDid(c, t))
<1> DEFINE opened == Open(c, t) /\ ~IsWild(c, t)
<1>1. opened => c.fd \in Table
  BY Zenon DEF Open
<1>2. CASE c.op = "Create"
  <2>1. FileDid(c, t) = CreateFile(c, t)
    BY Zenon, <1>2 DEF FileDid
  <2> QED BY Zenon, <1>2, <2>1, CreateAllowed
<1>3. CASE c.op = "Open"
  <2>1. FileDid(c, t) = Insert(c, t)
    BY Zenon, <1>3 DEF FileDid
  <2> QED BY Zenon, <2>1, InsertAllowed
<1>4. CASE c.op = "Close" /\ opened
  <2>1. FileDid(c, t) = RemoveFile(c, t)
    BY Zenon, <1>4 DEF FileDid
  <2> QED BY Zenon, <2>1, RemoveAllowed
<1>5. CASE c.op = "Read" /\ opened
  <2>1. FileDid(c, t) = ReadFile(c, t)
    BY Zenon, <1>5 DEF FileDid
  <2> QED BY Zenon, <1>1, <1>5, <2>1, ReadAllowed
<1>6. CASE c.op = "Write" /\ opened
  <2>1. FileDid(c, t) = WriteFile(c, t)
    BY Zenon, <1>6 DEF FileDid
  <2> QED BY Zenon, <1>1, <1>6, <2>1, WriteAllowed
<1>7. CASE c.op = "Seek" /\ opened
  <2>1. FileDid(c, t) = SeekFile(c, t)
    BY Zenon, <1>7 DEF FileDid
  <2> QED BY Zenon, <1>1, <1>7, <2>1, SeekAllowed
<1>8. CASE /\ c.op # "Create" /\ c.op # "Open" /\ ~(c.op = "Close" /\ opened)
           /\ ~(c.op = "Read" /\ opened) /\ ~(c.op = "Write" /\ opened) /\ ~(c.op = "Seek" /\ opened)
  <2>1. FileDid(c, t) = Did(host, t, -1)
    BY Zenon, <1>8 DEF FileDid
  <2> QED BY Zenon, <2>1, TableChanges
<1> HIDE DEF opened
<1> QED BY Zenon, <1>2, <1>3, <1>4, <1>5, <1>6, <1>7, <1>8

\* A call that leaves the threads, the console and the interrupts alone.
LEMMA ScriptStep ==
  ASSUME Inv, script' \in [Process -> Seq(Command)], FilesOK', undefined' \in BOOLEAN,
         NEW a, history' = [history EXCEPT !.result[Me] = a],
         UNCHANGED <<cpu, pending, console, task, numberBuffer>>,
         semTab' \in Seq(Entry), SemsOK', SemQueuesOK(semTab', cpu, task)
  PROVE  Inv'
<1>1. HistoryOK
  BY Zenon DEF Inv
<1>2. HistoryOK' /\ history'.typed = history.typed /\ history'.taken = history.taken
  BY Zenon, <1>1, HistoryResult
<1>3. TypeOK'
  BY Zenon DEF Inv, TypeOK
<1>4. InputOK(pending', console', history')
  BY Zenon, <1>2, InvFacts DEF InputOK
<1>5. /\ ListOK(pending', 0) /\ Has(pending', "TimerInt") /\ OutputOK(pending', console', task')
      /\ RunOK(cpu', task') /\ ConsoleQueuesOK(console', cpu', task')
      /\ \A p \in Process : CallOK(task'[p])
  BY Zenon, InvFacts
<1>6. SemQueuesOK(semTab', cpu', task')
  BY Zenon
<1> QED BY Zenon, <1>2, <1>3, <1>4, <1>5, <1>6 DEF Inv

\* The table of descriptors of one process is replaced.
LEMMA FileTableSet ==
  ASSUME FilesOK, NEW p \in Process, NEW t, TableOK(t), fileTable' = [fileTable EXCEPT ![p] = t],
         DOMAIN host' = Names
  PROVE  FilesOK'
<1>1. DOMAIN fileTable' = Process /\ \A q \in Process : fileTable'[q] = IF q = p THEN t ELSE fileTable[q]
  BY Zenon DEF FilesOK
<1> QED BY Zenon, <1>1 DEF FilesOK

LEMMA FileCallFacts ==
  ASSUME Inv, FileCall
  PROVE  /\ Me \in Process /\ Call \in Command /\ script' \in [Process -> Seq(Command)]
         /\ Allowed(Call, fileTable[Me], FileDid(Call, fileTable[Me]))
         /\ host' = FileDid(Call, fileTable[Me]).files
         /\ fileTable' = [fileTable EXCEPT ![Me] = FileDid(Call, fileTable[Me]).table]
<1>1. /\ Calls({"Create", "Open", "Close", "Read", "Write", "Seek"}) /\ Called
      /\ host' = FileDid(Call, fileTable[Me]).files
      /\ fileTable' = [fileTable EXCEPT ![Me] = FileDid(Call, fileTable[Me]).table]
  BY Zenon DEF FileCall
<1>2. Me \in Process /\ Call \in Command /\ script' \in [Process -> Seq(Command)]
  BY Zenon, <1>1, CallFacts
<1>3. TableOK(fileTable[Me]) /\ DOMAIN host = Names
  BY Zenon, <1>2 DEF Inv, FilesOK
<1>4. Allowed(Call, fileTable[Me], FileDid(Call, fileTable[Me]))
  BY Zenon, <1>2, <1>3, FileDidAllowed
<1> QED BY Zenon, <1>1, <1>2, <1>4

LEMMA FileCallInv ==
  ASSUME Inv, FileCall
  PROVE  Inv'
<1> DEFINE did == FileDid(Call, fileTable[Me])
           wild == IsWild(Call, fileTable[Me])
<1>1. /\ undefined' = (undefined \/ wild)
      /\ history' = [history EXCEPT !.result[Me] = did.result]
      /\ UNCHANGED <<cpu, pending, console, task, numberBuffer, semTab>>
  BY Zenon DEF FileCall
<1>2. /\ Me \in Process /\ script' \in [Process -> Seq(Command)]
      /\ Allowed(Call, fileTable[Me], did)
      /\ host' = did.files /\ fileTable' = [fileTable EXCEPT ![Me] = did.table]
  BY Zenon, FileCallFacts
<1>3. undefined' \in BOOLEAN
  <2>1. undefined \in BOOLEAN
    BY Zenon DEF Inv, TypeOK
  <2> QED BY Zenon, <1>1, <2>1 DEF IsWild
<1> HIDE DEF did, wild
<1>4. FilesOK'
  <2>1. DOMAIN did.files = Names /\ TableOK(did.table)
    BY Zenon, <1>2 DEF Allowed
  <2>2. FilesOK
    BY Zenon DEF Inv
  <2>3. DOMAIN host' = Names
    BY Zenon, <1>2, <2>1
  <2> QED BY Zenon, <1>2, <2>1, <2>2, <2>3, FileTableSet
<1>5. semTab' \in Seq(Entry) /\ SemsOK' /\ SemQueuesOK(semTab', cpu, task)
  <2>1. semTab \in Seq(Entry) /\ SemsOK /\ SemQueuesOK(semTab, cpu, task)
    BY Zenon, InvFacts
  <2> QED BY Zenon, <1>1, <2>1 DEF SemsOK
<1> QED BY Zenon, <1>1, <1>2, <1>3, <1>4, <1>5, ScriptStep

\* The child of an Exec that may run is not to be found anywhere.
Execs(c, t, d, u) == d \in CPU /\ RunOK(d, u) /\ Kept(c, t, d, u)
LEMMA ExecRun ==
  ASSUME NEW c \in CPU, NEW t \in [Process -> Task], RunOK(c, t), NEW p \in Process,
         t[p].pc \in {"none", "done"}, NEW d, d = [c EXCEPT !.ready = Append(c.ready, p)],
         NEW u \in [Process -> Task], u[p].pc = "new", c.status # "IdleMode",
         \A q \in Process : q # p => u[q] = t[q]
  PROVE  Execs(c, t, d, u)
<1>1. /\ c.ready \in Seq(Process) /\ Range(c.ready) \subseteq Process
      /\ c.current \in Process \cup {NoProcess}
      /\ c.oldStatus \in [Process -> {"none", "SystemMode", "UserMode"}]
  BY CPUFields
<1>2. /\ ReadyOK(c, t) /\ c.current \notin Range(c.ready)
      /\ c.current # NoProcess => t[c.current].pc \notin {"none", "done"}
      /\ c.status = IF c.current = NoProcess THEN "IdleMode"
                    ELSE IF t[c.current].pc = "user" THEN "UserMode" ELSE "SystemMode"
  BY Zenon DEF RunOK
<1>3. p # c.current /\ p \notin Range(c.ready) /\ c.oldStatus[p] = "none"
  BY <1>1, <1>2, SystemCallsAssumption DEF ReadyOK
<1>4. /\ Append(c.ready, p) \in Seq(Process) /\ IsInjective(Append(c.ready, p))
      /\ Range(Append(c.ready, p)) = Range(c.ready) \cup {p}
  BY <1>1, <1>2, <1>3, AppendList DEF ReadyOK
<1>5. /\ d \in CPU /\ d.current = c.current /\ d.ready = Append(c.ready, p)
      /\ d.status = c.status /\ d.oldStatus = c.oldStatus
  <2> DEFINE ready == Append(c.ready, p)
  <2>1. ready \in Threads /\ d = [c EXCEPT !.ready = ready]
    BY Zenon, <1>4 DEF Threads
  <2> HIDE DEF ready
  <2>2. d \in CPU /\ d.current = c.current /\ d.ready = ready
        /\ d.status = c.status /\ d.oldStatus = c.oldStatus
    BY Zenon, <2>1 DEF CPU
  <2> QED BY <2>2 DEF ready
<1>6. ReadyOK(d, u)
  <2>1. \A q \in Range(c.ready) : q \in Process /\ u[q] = t[q]
    BY <1>1, <1>3
  <2>2. \A q \in Range(d.ready) : /\ u[q].pc \notin {"none", "done"}
                                  /\ d.oldStatus[q] = "UserMode" <=> u[q].pc = "user"
    BY <1>2, <1>3, <1>4, <1>5, <2>1 DEF ReadyOK
  <2>3. \A q \in Process : q \notin Range(d.ready) => d.oldStatus[q] = "none"
    BY Zenon, <1>2, <1>4, <1>5 DEF ReadyOK
  <2> QED BY Zenon, <1>4, <1>5, <2>2, <2>3 DEF ReadyOK
<1>7. RunOK(d, u)
  <2>1. c.current # NoProcess => c.current \in Process /\ u[c.current] = t[c.current]
    BY <1>1, <1>3
  <2>2. d.current \notin Range(d.ready)
    BY <1>2, <1>3, <1>4, <1>5
  <2> QED BY <1>2, <1>5, <1>6, <2>1, <2>2 DEF RunOK
<1>8. Kept(c, t, d, u)
  <2>1. ASSUME NEW q, NEW at \in Sleeps, Range(q) \subseteq Process, QueueOK(q, at, c, t)
        PROVE  QueueOK(q, at, d, u)
    <3>1. \A r \in Range(q) : r # p
      BY <2>1 DEF QueueOK, Sleeps
    <3>2. \A r \in Range(q) : u[r].pc = at /\ Off(r, d)
      BY <1>4, <1>5, <2>1, <3>1 DEF QueueOK, Off
    <3> QED BY Zenon, <2>1, <3>2 DEF QueueOK
  <2>2. \A q \in Process : t[q].pc = "wait" /\ Off(q, c) => u[q].k = t[q].k
    BY DEF Off
  <2> QED BY Zenon, <2>1, <2>2 DEF Kept
<1> QED BY Zenon, <1>5, <1>7, <1>8 DEF Execs

LEMMA OutputKept ==
  ASSUME NEW list, NEW con, NEW t, NEW u, OutputOK(list, con, t),
         \A p \in Process : u[p].pc \in {"waitOut", "unlockOut"} => t[p].pc = u[p].pc
  PROVE  OutputOK(list, con, u)
BY DEF OutputOK

\* What is left to show of a step that leaves the console and the interrupts alone.
LEMMA ThreadStep ==
  ASSUME Inv, cpu' \in CPU, task' \in [Process -> Task], \A p \in Process : CallOK(task'[p]),
         RunOK(cpu', task'), ConsoleQueuesOK(console, cpu', task'),
         semTab' \in Seq(Entry), SemQueuesOK(semTab', cpu', task'), SemsOK',
         \A p \in Process : task'[p].pc \in {"waitOut", "unlockOut"} => task[p].pc = task'[p].pc,
         script' \in [Process -> Seq(Command)], FilesOK', undefined' \in BOOLEAN, HistoryOK',
         history'.typed = history.typed, history'.taken = history.taken,
         UNCHANGED <<pending, console, numberBuffer>>
  PROVE  Inv'
<1>1. TypeOK'
  BY Zenon DEF Inv, TypeOK
<1>2. InputOK(pending', console', history')
  BY Zenon, InvFacts DEF InputOK
<1>3. OutputOK(pending', console', task')
  <2>1. OutputOK(pending, console, task)
    BY Zenon, InvFacts
  <2>2. OutputOK(pending, console, task')
    BY Zenon, <2>1, OutputKept
  <2> QED BY Zenon, <2>2
<1>4. ListOK(pending', 0) /\ Has(pending', "TimerInt") /\ ConsoleQueuesOK(console', cpu', task')
  BY Zenon, InvFacts
<1> QED BY Zenon, <1>1, <1>2, <1>3, <1>4 DEF Inv

LEMMA ExecInv ==
  ASSUME Inv, Exec
  PROVE  Inv'
<1> DEFINE p == Call.child
           r == [task[p] EXCEPT !.pc = "new"]
           table == [fd \in Table |-> NoFile]
           wild == \E fd \in Table : fileTable[p][fd] = Wild
<1>1. /\ Calls({"Exec"}) /\ Called /\ task[p].pc \in {"none", "done"}
      /\ fileTable' = [fileTable EXCEPT ![p] = table] /\ undefined' = (undefined \/ wild)
      /\ cpu' = [cpu EXCEPT !.ready = Append(cpu.ready, p)]
      /\ UNCHANGED <<pending, console, numberBuffer, host, semTab, history>>
  BY Zenon DEF Exec
<1>t. task' = [task EXCEPT ![p] = r]
  BY Zenon DEF Exec
<1>2. /\ Me \in Process /\ p \in Process /\ script' \in [Process -> Seq(Command)]
      /\ cpu.status = "UserMode"
  <2>1. /\ Me \in Process /\ Call \in Command /\ Call.op \in {"Exec"}
        /\ cpu.status = "UserMode" /\ script' \in [Process -> Seq(Command)]
    BY Zenon, <1>1, CallFacts
  <2>2. Call.op = "Exec"
    BY <2>1
  <2> QED BY Zenon, <2>1, <2>2, CommandFacts
<1>3. cpu \in CPU /\ task \in [Process -> Task] /\ RunOK(cpu, task) /\ task[p] \in Task
  BY Zenon, <1>2, InvFacts
<1>4. r \in Task /\ r.pc = "new" /\ r.call = task[p].call /\ r.k = task[p].k
  <2>1. "new" \in PCs
    BY DEF PCs
  <2> HIDE DEF p
  <2> QED BY Zenon, <1>3, <2>1 DEF Task
<1>w. undefined' \in BOOLEAN
  <2>1. undefined \in BOOLEAN /\ wild \in BOOLEAN
    BY Zenon DEF Inv, TypeOK
  <2> HIDE DEF wild
  <2> QED BY <1>1, <2>1
<1> HIDE DEF p, r, table, wild
<1>5. /\ task' \in [Process -> Task] /\ task'[p] = r
      /\ \A q \in Process : q # p => task'[q] = task[q]
  BY Zenon, <1>2, <1>3, <1>4, <1>t, TaskSet
<1>6. cpu' \in CPU /\ RunOK(cpu', task') /\ Kept(cpu, task, cpu', task')
  <2>1. task'[p].pc = "new" /\ cpu.status # "IdleMode"
    BY <1>2, <1>4, <1>5
  <2>2. Execs(cpu, task, cpu', task')
    BY Zenon, <1>1, <1>2, <1>3, <1>5, <2>1, ExecRun
  <2> QED BY Zenon, <2>2 DEF Execs
<1>7. ConsoleQueuesOK(console, cpu', task') /\ SemQueuesOK(semTab, cpu', task')
  BY Zenon, <1>6, InvFacts, QueuesKept
<1>8. \A q \in Process : CallOK(task'[q])
  <2>1. \A q \in Process : CallOK(task[q])
    BY Zenon, InvFacts
  <2>2. "new" \notin Ins
    BY DEF Ins
  <2>3. CallOK(r)
    BY Zenon, <1>2, <1>4, <2>1, <2>2 DEF CallOK
  <2> QED BY Zenon, <1>5, <2>1, <2>3
<1>9. /\ \A q \in Process : task'[q].pc \in {"waitOut", "unlockOut"} => task[q].pc = task'[q].pc
      /\ \A q \in Process : task'[q].pc = "wait" => task[q].pc = "wait" /\ task'[q].k = task[q].k
  BY <1>4, <1>5
<1>10. SemsOK'
  <2>1. SemsOK
    BY Zenon, InvFacts
  <2> QED BY Zenon, <1>1, <1>9, <2>1 DEF SemsOK
<1>11. FilesOK'
  <2>1. FilesOK
    BY Zenon DEF Inv
  <2>2. TableOK(table)
    <3>1. DOMAIN table = Table /\ \A fd \in Table : table[fd] = NoFile
      BY DEF table
    <3> QED BY Zenon, <3>1, NoFileEntry DEF TableOK
  <2>3. DOMAIN host' = Names
    BY Zenon, <1>1, <2>1 DEF FilesOK
  <2> QED BY Zenon, <1>1, <1>2, <2>1, <2>2, <2>3, FileTableSet
<1>12. HistoryOK' /\ history'.typed = history.typed /\ history'.taken = history.taken
  BY Zenon, <1>1 DEF Inv, HistoryOK
<1>13. semTab' \in Seq(Entry) /\ SemQueuesOK(semTab', cpu', task')
  BY Zenon, <1>1, <1>7, InvFacts
<1> QED BY Zenon, <1>1, <1>2, <1>5, <1>6, <1>7, <1>8, <1>9, <1>10, <1>11, <1>12, <1>13, <1>w,
           ThreadStep

\* A new thread enters user code.
LEMMA EnterInv ==
  ASSUME Inv, Enter
  PROVE  Inv'
<1>1. /\ At("new") /\ task' = [task EXCEPT ![Me] = Idling]
      /\ cpu' = [cpu EXCEPT !.status = "UserMode"]
      /\ UNCHANGED <<pending, console, script, numberBuffer, host, fileTable, semTab, undefined, history>>
  BY Zenon DEF Enter
<1>2. Me \in Process /\ cpu.current = Me
  BY <1>1, AtFacts DEF Me
<1>3. /\ task' \in [Process -> Task] /\ task'[Me] = Idling
      /\ \A q \in Process : q # Me => task'[q] = task[q]
  <2>1. task \in [Process -> Task] /\ Idling \in Task
    BY Zenon, InvFacts, IdlingTask
  <2> QED BY Zenon, <1>1, <1>2, <2>1, TaskSet
<1>4. /\ cpu' \in CPU /\ cpu'.current = cpu.current /\ cpu'.ready = cpu.ready
      /\ cpu'.status = "UserMode" /\ cpu'.oldStatus = cpu.oldStatus
  <2>1. cpu \in CPU /\ "UserMode" \in {"SystemMode", "UserMode"}
    BY InvFacts
  <2> QED BY Zenon, <1>1, <2>1, CPUStatus
<1>5. /\ task'[cpu.current].pc \notin {"none", "done", "waitOut", "unlockOut", "wait"}
      /\ cpu'.status = IF task'[cpu.current].pc = "user" THEN "UserMode" ELSE "SystemMode"
  <2>1. task'[cpu.current].pc = "user"
    BY Zenon, <1>2, <1>3, IdlingTask
  <2> QED BY <1>4, <2>1
<1>6. \A q \in Process : CallOK(task'[q])
  BY Zenon, <1>3, InvFacts, IdlingTask
<1>7. /\ ListOK(pending', 0) /\ Has(pending', "TimerInt")
      /\ InputOK(pending', console', history') /\ OutputOK(pending', console', task')
      /\ RunOK(cpu', task') /\ ConsoleQueuesOK(console', cpu', task')
      /\ SemQueuesOK(semTab', cpu', task') /\ SemsOK'
  BY Zenon, <1>1, <1>2, <1>3, <1>4, <1>5, StepOfThread
<1>8. TypeOK' /\ FilesOK' /\ HistoryOK'
  <2>1. TypeOK'
    BY Zenon, <1>1, <1>3, <1>4 DEF Inv, TypeOK
  <2> QED BY Zenon, <1>1, <2>1 DEF Inv, FilesOK, HistoryOK
<1> QED BY Zenon, <1>6, <1>7, <1>8 DEF Inv

\* A process ends, and another thread runs.
LEMMA FinishInv ==
  ASSUME Inv, Finish
  PROVE  Inv'
<1> DEFINE r == [My EXCEPT !.pc = "done"]
           d == Dispatch(cpu)
<1>1. /\ At("user") /\ task' = [task EXCEPT ![Me] = r] /\ cpu' = d
      /\ UNCHANGED <<pending, console, script, numberBuffer, host, fileTable, semTab, undefined, history>>
  BY Zenon DEF Finish, My, Me
<1>2. Me \in Process /\ cpu.current = Me /\ My \in Task /\ My = task[Me]
  BY <1>1, AtFacts DEF Me, My
<1>3. r \in Task /\ r.pc = "done" /\ r.call = My.call /\ r.k = My.k
  <2>1. "done" \in PCs
    BY DEF PCs
  <2> QED BY Zenon, <1>2, <2>1 DEF Task
<1> HIDE DEF r
<1>4. cpu \in CPU /\ task \in [Process -> Task] /\ RunOK(cpu, task)
  BY Zenon, InvFacts
<1>5. /\ task' \in [Process -> Task] /\ task'[Me] = r
      /\ \A q \in Process : q # Me => task'[q] = task[q]
  BY Zenon, <1>1, <1>2, <1>3, <1>4, TaskSet
<1>6. /\ ReadyOK(cpu, task')
      /\ \A q, at : Range(q) \subseteq Process /\ QueueOK(q, at, cpu, task) => QueueOK(q, at, cpu, task')
  BY Zenon, <1>2, <1>4, <1>5, OtherThreads
<1>7. /\ d \in CPU /\ RunOK(d, task')
      /\ \A q, at : (/\ IsInjective(q) /\ Range(q) \subseteq Process
                     /\ \A p \in Range(q) : task'[p].pc = at /\ p \notin Range(cpu.ready))
                    => QueueOK(q, at, d, task')
  BY Zenon, <1>4, <1>5, <1>6, DispatchReady
<1> HIDE DEF d
<1>8. Kept(cpu, task, d, task')
  <2>1. \A q, at : Range(q) \subseteq Process /\ QueueOK(q, at, cpu, task) => QueueOK(q, at, d, task')
    <3> TAKE q, at
    <3> HAVE Range(q) \subseteq Process /\ QueueOK(q, at, cpu, task)
    <3>1. QueueOK(q, at, cpu, task')
      BY Zenon, <1>6
    <3>2. IsInjective(q) /\ \A p \in Range(q) : task'[p].pc = at /\ p \notin Range(cpu.ready)
      BY Zenon, <3>1 DEF QueueOK, Off
    <3> QED BY Zenon, <1>7, <3>2
  <2>2. \A p \in Process : task'[p].k = task[p].k
    BY Zenon, <1>2, <1>3, <1>5
  <2> QED BY Zenon, <2>1, <2>2 DEF Kept
<1>9. ConsoleQueuesOK(console, d, task') /\ SemQueuesOK(semTab, d, task')
  BY Zenon, <1>8, InvFacts, QueuesKept
<1>10. /\ \A q \in Process : task'[q].pc \in {"waitOut", "unlockOut"} => task[q].pc = task'[q].pc
       /\ \A q \in Process : task'[q].pc = "wait" => task[q].pc = "wait" /\ task'[q].k = task[q].k
  BY <1>3, <1>5
<1>11. \A q \in Process : CallOK(task'[q])
  <2>1. \A q \in Process : CallOK(task[q])
    BY Zenon, InvFacts
  <2>2. "done" \notin Ins
    BY DEF Ins
  <2>3. CallOK(r)
    BY Zenon, <1>2, <1>3, <2>1, <2>2 DEF CallOK
  <2> QED BY Zenon, <1>5, <2>1, <2>3
<1>12. SemsOK' /\ FilesOK'
  <2>1. SemsOK /\ FilesOK
    BY Zenon DEF Inv
  <2> QED BY Zenon, <1>1, <1>10, <2>1 DEF SemsOK, FilesOK
<1>13. /\ HistoryOK' /\ history'.typed = history.typed /\ history'.taken = history.taken
       /\ script' \in [Process -> Seq(Command)] /\ undefined' \in BOOLEAN
       /\ semTab' \in Seq(Entry)
  BY Zenon, <1>1 DEF Inv, HistoryOK, TypeOK
<1>14. SemQueuesOK(semTab', cpu', task')
  BY Zenon, <1>1, <1>9
<1> QED BY Zenon, <1>1, <1>5, <1>7, <1>9, <1>10, <1>11, <1>12, <1>13, <1>14, ThreadStep

-----------------------------------------------------------------------------
(* Semaphores of user programs *)

LEMMA SlotFacts ==
  ASSUME semTab \in Seq(Entry), NEW name
  PROVE  /\ Slot(name) # 0 => Slot(name) \in DOMAIN semTab /\ semTab[Slot(name)].name = name
         /\ Slot(name) = 0 => \A k \in DOMAIN semTab : semTab[k].name # name
<1> DEFINE found == {k \in DOMAIN semTab : semTab[k].name = name}
<1>1. Slot(name) = IF found = {} THEN 0 ELSE Min(found)
  BY Zenon DEF Slot
<1>2. found \subseteq Nat \ {0}
  BY LenProperties
<1>3. CASE found = {}
  <2>1. Slot(name) = 0
    BY Zenon, <1>1, <1>3
  <2> QED BY <1>3, <2>1
<1>4. CASE found # {}
  <2>1. Min(found) \in found
    BY <1>2, <1>4, MinOfNaturals
  <2>2. Slot(name) = Min(found)
    BY Zenon, <1>1, <1>4
  <2>3. Slot(name) \in found /\ Slot(name) \in Nat \ {0}
    BY Zenon, <1>2, <2>1, <2>2
  <2> QED BY <2>3
<1> QED BY <1>3, <1>4

LEMMA EntryFields ==
  ASSUME NEW e \in Entry
  PROVE  /\ e.name \in SemNames /\ e.init \in Int /\ e.sem \in UserSem
         /\ e.waits \in Nat /\ e.signals \in Nat
         /\ e.sem.value \in Int /\ e.sem.queue \in Seq(Process)
<1>1. /\ e.name \in SemNames /\ e.init \in Int /\ e.sem \in UserSem
      /\ e.waits \in Nat /\ e.signals \in Nat
  BY Zenon DEF Entry
<1>2. e.sem.value \in Int /\ e.sem.queue \in Seq(Process)
  BY Zenon, <1>1 DEF UserSem, Threads
<1> QED BY Zenon, <1>1, <1>2

\* One entry of the table is replaced by another with the same name.
LEMMA TabSet ==
  ASSUME semTab \in Seq(Entry), NEW k \in DOMAIN semTab, NEW e \in Entry,
         NEW tab, tab = [semTab EXCEPT ![k] = e]
  PROVE  /\ tab \in Seq(Entry) /\ DOMAIN tab = DOMAIN semTab /\ tab[k] = e
         /\ \A j \in DOMAIN semTab : j # k => tab[j] = semTab[j]
<1>1. DOMAIN semTab = 1 .. Len(semTab) /\ Len(semTab) \in Nat /\ semTab \in [1 .. Len(semTab) -> Entry]
  BY LenProperties, ElementOfSeq
<1>2. tab \in [1 .. Len(semTab) -> Entry]
  BY Zenon, <1>1, EntrySet
<1>3. tab \in Seq(Entry)
  BY <1>1, <1>2
<1>4. /\ DOMAIN tab = DOMAIN semTab /\ tab[k] = e
      /\ \A j \in DOMAIN semTab : j # k => tab[j] = semTab[j]
  BY Zenon
<1> QED BY Zenon, <1>3, <1>4

\* The counts of the semaphores after one of them has changed.
LEMMA TabCounts ==
  ASSUME SemsOK, NEW k \in DOMAIN semTab, DOMAIN semTab' = DOMAIN semTab,
         \A j \in DOMAIN semTab : j # k => semTab'[j] = semTab[j],
         semTab'[k].name = semTab[k].name, semTab'[k].init = semTab[k].init,
         semTab'[k].sem.value = semTab'[k].init + semTab'[k].signals - semTab'[k].waits,
         semTab'[k].init >= 0 => semTab'[k].sem.value >= 0,
         \A p \in Process : task'[p].pc = "wait" => task[p].pc = "wait" /\ task'[p].k = task[p].k
  PROVE  SemsOK'
<1>1. \A j \in DOMAIN semTab : semTab'[j].name = semTab[j].name
  BY Zenon
<1>2. ASSUME NEW i \in DOMAIN semTab'
      PROVE  /\ \A j \in DOMAIN semTab' : semTab'[j].name = semTab'[i].name => j = i
             /\ semTab'[i].sem.value = semTab'[i].init + semTab'[i].signals - semTab'[i].waits
             /\ semTab'[i].init >= 0 => semTab'[i].sem.value >= 0
  <2>1. \A j \in DOMAIN semTab' : semTab'[j].name = semTab'[i].name => j = i
    BY Zenon, <1>1 DEF SemsOK
  <2>2. CASE i = k
    BY Zenon, <2>1, <2>2
  <2>3. CASE i # k
    <3>1. semTab'[i] = semTab[i] /\ i \in DOMAIN semTab
      BY Zenon, <2>3
    <3>2. /\ semTab[i].sem.value = semTab[i].init + semTab[i].signals - semTab[i].waits
          /\ semTab[i].init >= 0 => semTab[i].sem.value >= 0
      BY Zenon, <3>1 DEF SemsOK
    <3> QED BY Zenon, <2>1, <3>1, <3>2
  <2> QED BY Zenon, <2>2, <2>3
<1>3. \A p \in Process : task'[p].pc = "wait" => task'[p].k \in DOMAIN semTab'
  BY Zenon DEF SemsOK
<1> QED BY Zenon, <1>2, <1>3 DEF SemsOK

\* A call that fails.
LEMMA SemFailsInv ==
  ASSUME Inv, SemFails, script' \in [Process -> Seq(Command)]
  PROVE  Inv'
<1>1. /\ undefined' = TRUE /\ history' = [history EXCEPT !.result[Me] = -1]
      /\ UNCHANGED <<cpu, pending, console, task, numberBuffer, host, fileTable, semTab>>
  BY Zenon DEF SemFails
<1>2. FilesOK' /\ undefined' \in BOOLEAN
  BY Zenon, <1>1 DEF Inv, FilesOK
<1>3. semTab' \in Seq(Entry) /\ SemsOK' /\ SemQueuesOK(semTab', cpu, task)
  <2>1. semTab \in Seq(Entry) /\ SemsOK /\ SemQueuesOK(semTab, cpu, task)
    BY Zenon, InvFacts
  <2> QED BY Zenon, <1>1, <2>1 DEF SemsOK
<1> QED BY Zenon, <1>1, <1>2, <1>3, ScriptStep

\* STable::Create
LEMMA CreateSemaphoreInv ==
  ASSUME Inv, CreateSemaphore
  PROVE  Inv'
<1> DEFINE v == Call.value
           sem == Semaphore(v)
           e == [name |-> Call.name, init |-> v, sem |-> sem, waits |-> 0, signals |-> 0]
<1>1. /\ Calls({"CreateSemaphore"}) /\ Called
      /\ \/ SemFails
         \/ /\ Slot(Call.name) = 0 /\ semTab' = Append(semTab, e)
            /\ history' = [history EXCEPT !.result[Me] = 0]
            /\ UNCHANGED <<cpu, pending, console, task, numberBuffer, host, fileTable, undefined>>
  BY Zenon DEF CreateSemaphore
<1>2. script' \in [Process -> Seq(Command)] /\ Call.name \in SemNames /\ v \in Int
  <2>1. Call \in Command /\ Call.op \in {"CreateSemaphore"} /\ script' \in [Process -> Seq(Command)]
    BY Zenon, <1>1, CallFacts
  <2>2. Call.op = "CreateSemaphore"
    BY <2>1
  <2> QED BY Zenon, <2>1, <2>2, CommandFacts
<1>3. CASE SemFails
  BY Zenon, <1>2, <1>3, SemFailsInv
<1>4. CASE ~ SemFails
  <2>1. /\ Slot(Call.name) = 0 /\ semTab' = Append(semTab, e)
        /\ history' = [history EXCEPT !.result[Me] = 0]
        /\ UNCHANGED <<cpu, pending, console, task, numberBuffer, host, fileTable, undefined>>
    BY Zenon, <1>1, <1>4
  <2>2. semTab \in Seq(Entry) /\ SemsOK /\ SemQueuesOK(semTab, cpu, task)
    BY Zenon, InvFacts
  <2>3. sem = [value |-> v, queue |-> << >>] /\ sem \in UserSem /\ sem.value = v /\ sem.queue = << >>
    <3>1. sem = [value |-> v, queue |-> << >>]
      BY Zenon DEF Semaphore
    <3>2. << >> \in Threads
      BY EmptySeq DEF Threads
    <3> HIDE DEF sem, v
    <3> QED BY Zenon, <1>2, <3>1, <3>2 DEF UserSem
  <2> HIDE DEF sem, v
  <2>4. /\ e \in Entry /\ e.name = Call.name /\ e.init = v /\ e.sem = sem
        /\ e.waits = 0 /\ e.signals = 0
    <3>1. 0 \in Nat
      OBVIOUS
    <3> QED BY Zenon, <1>2, <2>3, <3>1 DEF Entry
  <2> HIDE DEF e
  <2> DEFINE n == Len(semTab)
  <2>5. n \in Nat /\ DOMAIN semTab = 1 .. n
    BY <2>2, LenProperties
  <2>6. /\ semTab' \in Seq(Entry) /\ DOMAIN semTab' = 1 .. n + 1
        /\ \A i \in 1 .. n : semTab'[i] = semTab[i]
        /\ semTab'[n + 1] = e
    <3>1. /\ semTab' \in Seq(Entry) /\ Len(semTab') = n + 1
          /\ \A i \in 1 .. n : semTab'[i] = semTab[i]
          /\ semTab'[n + 1] = e
      BY <2>1, <2>2, <2>4, AppendProperties
    <3>2. DOMAIN semTab' = 1 .. Len(semTab')
      BY Zenon, <3>1, LenProperties
    <3> QED BY Zenon, <3>1, <3>2
  <2> HIDE DEF n
  <2>7. \A i \in 1 .. n + 1 : i \in 1 .. n \/ i = n + 1
    BY <2>5
  <2>8. \A k \in DOMAIN semTab : semTab[k].name # Call.name
    BY Zenon, <2>1, <2>2, SlotFacts
  <2>9. SemsOK'
    <3>1. ASSUME NEW i \in DOMAIN semTab'
          PROVE  /\ \A j \in DOMAIN semTab' : semTab'[j].name = semTab'[i].name => j = i
                 /\ semTab'[i].sem.value = semTab'[i].init + semTab'[i].signals - semTab'[i].waits
                 /\ semTab'[i].init >= 0 => semTab'[i].sem.value >= 0
      <4>1. CASE i = n + 1
        <5>1. \A j \in DOMAIN semTab' : semTab'[j].name = semTab'[i].name => j = i
          BY Zenon, <2>4, <2>5, <2>6, <2>7, <2>8, <4>1
        <5>2. /\ semTab'[i].sem.value = semTab'[i].init + semTab'[i].signals - semTab'[i].waits
              /\ semTab'[i].init >= 0 => semTab'[i].sem.value >= 0
          BY <1>2, <2>3, <2>4, <2>6, <4>1
        <5> QED BY Zenon, <5>1, <5>2
      <4>2. CASE i # n + 1
        <5>1. i \in DOMAIN semTab /\ semTab'[i] = semTab[i]
          BY Zenon, <2>5, <2>6, <2>7, <4>2
        <5>2. \A j \in DOMAIN semTab' : semTab'[j].name = semTab'[i].name => j = i
          BY Zenon, <2>2, <2>4, <2>5, <2>6, <2>7, <2>8, <5>1 DEF SemsOK
        <5>3. /\ semTab[i].sem.value = semTab[i].init + semTab[i].signals - semTab[i].waits
              /\ semTab[i].init >= 0 => semTab[i].sem.value >= 0
          BY Zenon, <2>2, <5>1 DEF SemsOK
        <5> QED BY Zenon, <5>1, <5>2, <5>3
      <4> QED BY Zenon, <4>1, <4>2
    <3>2. \A p \in Process : task'[p].pc = "wait" => task'[p].k \in DOMAIN semTab'
      <4>1. \A p \in Process : task[p].pc = "wait" => task[p].k \in 1 .. n
        BY Zenon, <2>2, <2>5 DEF SemsOK
      <4>2. \A p \in Process : task'[p].pc = "wait" => task'[p].k \in 1 .. n
        BY Zenon, <2>1, <4>1
      <4>3. 1 .. n \subseteq DOMAIN semTab'
        BY <2>5, <2>6
      <4> QED BY Zenon, <4>2, <4>3
    <3> QED BY Zenon, <3>1, <3>2 DEF SemsOK
  <2>10. SemQueuesOK(semTab', cpu, task)
    <3>1. IsInjective(<< >>) /\ Range(<< >>) = {}
      BY DEF IsInjective, Range
    <3>2. QueueOK(e.sem.queue, "wait", cpu, task) /\ Range(e.sem.queue) = {}
      BY Zenon, <2>3, <2>4, <3>1 DEF QueueOK
    <3> QED BY Zenon, <2>2, <2>5, <2>6, <2>7, <3>2 DEF SemQueuesOK
  <2>11. FilesOK' /\ undefined' \in BOOLEAN
    BY Zenon, <2>1 DEF Inv, FilesOK, TypeOK
  <2> QED BY Zenon, <1>2, <2>1, <2>6, <2>9, <2>10, <2>11, ScriptStep
<1> QED BY Zenon, <1>3, <1>4

\* STable::Wait, before P
LEMMA WaitInv ==
  ASSUME Inv, Wait
  PROVE  Inv'
<1> DEFINE c == Call
           k == Slot(c.name)
           r == [Idling EXCEPT !.pc = "wait", !.call = c, !.k = k]
<1>1. /\ Calls({"Wait"}) /\ Called
      /\ \/ SemFails
         \/ /\ k # 0 /\ cpu' = [cpu EXCEPT !.status = "SystemMode"]
            /\ task' = [task EXCEPT ![Me] = r]
            /\ UNCHANGED <<pending, console, numberBuffer, host, fileTable, semTab, undefined, history>>
  BY Zenon DEF Wait
<1>2. /\ Me \in Process /\ cpu.current = Me /\ c \in Command /\ c.op = "Wait"
      /\ script' \in [Process -> Seq(Command)]
  <2>1. /\ Me \in Process /\ cpu.current = Me /\ c \in Command /\ c.op \in {"Wait"}
        /\ script' \in [Process -> Seq(Command)]
    BY Zenon, <1>1, CallFacts
  <2> QED BY <2>1
<1>3. CASE SemFails
  BY Zenon, <1>2, <1>3, SemFailsInv
<1>4. CASE ~ SemFails
  <2>1. /\ k # 0 /\ cpu' = [cpu EXCEPT !.status = "SystemMode"]
        /\ task' = [task EXCEPT ![Me] = r]
        /\ UNCHANGED <<pending, console, numberBuffer, host, fileTable, semTab, undefined, history>>
    BY Zenon, <1>1, <1>4
  <2>2. k \in DOMAIN semTab /\ k \in Nat
    <3>1. semTab \in Seq(Entry)
      BY Zenon, InvFacts
    <3>2. k \in DOMAIN semTab
      BY Zenon, <2>1, <3>1, SlotFacts
    <3> HIDE DEF k
    <3> QED BY <3>1, <3>2, LenProperties
  <2> HIDE DEF c, k
  <2>3. r \in Task /\ r.pc = "wait" /\ r.call = c /\ r.k = k
    <3>1. "wait" \in PCs
      BY DEF PCs
    <3>2. c \in CallType /\ Idling \in Task
      BY Zenon, <1>2, IdlingTask DEF CallType
    <3> QED BY Zenon, <2>2, <3>1, <3>2 DEF Task
  <2> HIDE DEF r
  <2>4. /\ task' \in [Process -> Task] /\ task'[Me] = r
        /\ \A q \in Process : q # Me => task'[q] = task[q]
    <3>1. task \in [Process -> Task]
      BY Zenon, InvFacts
    <3> QED BY Zenon, <1>2, <2>1, <2>3, <3>1, TaskSet
  <2>5. /\ cpu' \in CPU /\ cpu'.current = cpu.current /\ cpu'.ready = cpu.ready
        /\ cpu'.status = "SystemMode" /\ cpu'.oldStatus = cpu.oldStatus
    <3>1. cpu \in CPU /\ "SystemMode" \in {"SystemMode", "UserMode"}
      BY InvFacts
    <3> QED BY Zenon, <2>1, <3>1, CPUStatus
  <2>6. RunOK(cpu', task') /\ ConsoleQueuesOK(console, cpu', task') /\ SemQueuesOK(semTab, cpu', task')
    <3>1. /\ task'[cpu.current].pc \notin {"none", "done"} /\ cpu.current # NoProcess
          /\ cpu'.status = IF task'[cpu.current].pc = "user" THEN "UserMode" ELSE "SystemMode"
      BY <1>2, <2>3, <2>4, <2>5, SystemCallsAssumption
    <3>2. \A p \in Process : p # cpu.current => task'[p].pc = task[p].pc /\ task'[p].k = task[p].k
      BY Zenon, <1>2, <2>4
    <3> QED BY Zenon, <2>4, <2>5, <3>1, <3>2, InvFacts, SameThread
  <2>7. \A q \in Process : CallOK(task'[q])
    <3>1. CallOK(r)
      BY <1>2, <2>3 DEF CallOK, Ins
    <3> QED BY Zenon, <2>4, <3>1, InvFacts
  <2>8. \A q \in Process : task'[q].pc \in {"waitOut", "unlockOut"} => task[q].pc = task'[q].pc
    BY <2>3, <2>4
  <2>9. SemsOK' /\ FilesOK'
    <3>1. SemsOK /\ FilesOK
      BY Zenon DEF Inv
    <3>2. \A p \in Process : task'[p].pc = "wait" => task'[p].k \in DOMAIN semTab'
      BY Zenon, <2>1, <2>2, <2>3, <2>4, <3>1 DEF SemsOK
    <3> QED BY Zenon, <2>1, <3>1, <3>2 DEF SemsOK, FilesOK
  <2>10. /\ HistoryOK' /\ history'.typed = history.typed /\ history'.taken = history.taken
         /\ undefined' \in BOOLEAN /\ semTab' \in Seq(Entry)
    BY Zenon, <2>1 DEF Inv, HistoryOK, TypeOK
  <2>11. SemQueuesOK(semTab', cpu', task')
    BY Zenon, <2>1, <2>6
  <2> QED BY Zenon, <1>2, <2>1, <2>4, <2>5, <2>6, <2>7, <2>8, <2>9, <2>10, <2>11, ThreadStep
<1> QED BY Zenon, <1>3, <1>4

\* The queues of the semaphores, when one entry has changed.
LEMMA TabQueues ==
  ASSUME NEW c, NEW t, SemQueuesOK(semTab, c, t), NEW k \in DOMAIN semTab,
         NEW tab, DOMAIN tab = DOMAIN semTab,
         \A j \in DOMAIN semTab : j # k => tab[j] = semTab[j],
         QueueOK(tab[k].sem.queue, "wait", c, t), \A p \in Range(tab[k].sem.queue) : t[p].k = k
  PROVE  SemQueuesOK(tab, c, t)
BY Zenon DEF SemQueuesOK

\* P of a semaphore of a user program that need not wait.
LEMMA WaitPTakes ==
  ASSUME Inv, WaitP, semTab[My.k].sem.value # 0
  PROVE  Inv'
<1> DEFINE k == My.k
           old == semTab[k]
           sem == Take(old.sem)
           n == old.waits + 1
           e == [old EXCEPT !.sem = sem, !.waits = n]
<1>1. /\ At("wait") /\ semTab' = [semTab EXCEPT ![k] = e] /\ task' = [task EXCEPT ![Me] = Idling]
      /\ cpu' = [cpu EXCEPT !.status = "UserMode"]
      /\ history' = [history EXCEPT !.result[Me] = 0]
      /\ UNCHANGED <<pending, console, script, numberBuffer, host, fileTable, undefined>>
  BY Zenon DEF WaitP
<1>2. Me \in Process /\ cpu.current = Me /\ My.pc = "wait" /\ My = task[Me]
  BY <1>1, AtFacts DEF Me, My
<1>3. semTab \in Seq(Entry) /\ SemsOK /\ SemQueuesOK(semTab, cpu, task)
  BY Zenon, InvFacts
<1>4. k \in DOMAIN semTab
  BY Zenon, <1>2, <1>3 DEF SemsOK
<1>5. old \in Entry /\ old.sem.value # 0
  BY <1>3, <1>4, ElementOfSeq, LenProperties
<1> HIDE DEF k, old
<1>6. /\ old.init \in Int /\ old.sem \in UserSem /\ old.waits \in Nat /\ old.signals \in Nat
      /\ old.sem.value \in Int /\ old.sem.queue \in Seq(Process)
  BY Zenon, <1>5, EntryFields
<1>7. sem \in UserSem /\ sem.value = old.sem.value - 1 /\ sem.queue = old.sem.queue
  <2> DEFINE v == old.sem.value - 1
  <2>1. v \in Int
    BY <1>6
  <2>2. sem = [old.sem EXCEPT !.value = v]
    BY Zenon DEF Take
  <2> HIDE DEF v, sem
  <2>3. sem \in UserSem /\ sem.value = v /\ sem.queue = old.sem.queue
    BY Zenon, <1>6, <2>1, <2>2 DEF UserSem
  <2> QED BY <2>3 DEF v
<1>n. n \in Nat /\ n = old.waits + 1
  BY <1>6
<1> HIDE DEF sem, n
<1>8. /\ e \in Entry /\ e.name = old.name /\ e.init = old.init /\ e.sem = sem
      /\ e.waits = n /\ e.signals = old.signals
  BY Zenon, <1>5, <1>7, <1>n DEF Entry
<1> HIDE DEF e
<1>9. /\ semTab' \in Seq(Entry) /\ DOMAIN semTab' = DOMAIN semTab /\ semTab'[k] = e
      /\ \A j \in DOMAIN semTab : j # k => semTab'[j] = semTab[j]
  BY Zenon, <1>1, <1>3, <1>4, <1>8, TabSet
<1>10. /\ task' \in [Process -> Task] /\ task'[Me] = Idling
       /\ \A q \in Process : q # Me => task'[q] = task[q]
  <2>1. task \in [Process -> Task] /\ Idling \in Task
    BY Zenon, InvFacts, IdlingTask
  <2> QED BY Zenon, <1>1, <1>2, <2>1, TaskSet
<1>11. /\ cpu' \in CPU /\ cpu'.current = cpu.current /\ cpu'.ready = cpu.ready
       /\ cpu'.status = "UserMode" /\ cpu'.oldStatus = cpu.oldStatus
  <2>1. cpu \in CPU /\ "UserMode" \in {"SystemMode", "UserMode"}
    BY InvFacts
  <2> QED BY Zenon, <1>1, <2>1, CPUStatus
<1>12. RunOK(cpu', task') /\ ConsoleQueuesOK(console, cpu', task') /\ SemQueuesOK(semTab, cpu', task')
  <2>0. Idling.pc = "user"
    BY Zenon, IdlingTask
  <2>1. /\ task'[cpu.current].pc \notin {"none", "done"} /\ cpu.current # NoProcess
        /\ cpu'.status = IF task'[cpu.current].pc = "user" THEN "UserMode" ELSE "SystemMode"
    BY <1>2, <1>10, <1>11, <2>0, SystemCallsAssumption
  <2>2. \A p \in Process : p # cpu.current => task'[p].pc = task[p].pc /\ task'[p].k = task[p].k
    BY Zenon, <1>2, <1>10
  <2> QED BY Zenon, <1>10, <1>11, <2>1, <2>2, InvFacts, SameThread
<1>13. SemQueuesOK(semTab', cpu', task')
  <2>1. /\ QueueOK(semTab'[k].sem.queue, "wait", cpu', task')
        /\ \A p \in Range(semTab'[k].sem.queue) : task'[p].k = k
    BY Zenon, <1>4, <1>7, <1>8, <1>9, <1>12 DEF SemQueuesOK, old
  <2> QED BY Zenon, <1>4, <1>9, <1>12, <2>1, TabQueues
<1>14. /\ \A q \in Process : task'[q].pc \in {"waitOut", "unlockOut"} => task[q].pc = task'[q].pc
       /\ \A q \in Process : task'[q].pc = "wait" => task[q].pc = "wait" /\ task'[q].k = task[q].k
  <2>1. Idling.pc = "user"
    BY Zenon, IdlingTask
  <2> QED BY <1>10, <2>1
<1>15. SemsOK'
  <2>1. /\ old.sem.value = old.init + old.signals - old.waits
        /\ old.init >= 0 => old.sem.value >= 0
    BY Zenon, <1>3, <1>4 DEF SemsOK, old
  <2>2. /\ e.sem.value = e.init + e.signals - e.waits
        /\ e.init >= 0 => e.sem.value >= 0
    <3>1. \A v, i, g \in Int, w \in Nat :
            v = i + g - w /\ v # 0 /\ (i >= 0 => v >= 0)
              => v - 1 = i + g - (w + 1) /\ (i >= 0 => v - 1 >= 0)
      OBVIOUS
    <3>2. old.signals \in Int
      BY <1>6
    <3>3. /\ old.sem.value - 1 = old.init + old.signals - (old.waits + 1)
          /\ old.init >= 0 => old.sem.value - 1 >= 0
      BY <1>5, <1>6, <2>1, <3>1, <3>2
    <3> QED BY Zenon, <1>7, <1>8, <1>n, <3>3
  <2>3. semTab'[k].name = semTab[k].name /\ semTab'[k].init = semTab[k].init
    BY Zenon, <1>8, <1>9 DEF old
  <2> QED BY Zenon, <1>3, <1>4, <1>9, <1>14, <2>2, <2>3, TabCounts
<1>16. \A q \in Process : CallOK(task'[q])
  BY Zenon, <1>10, InvFacts, IdlingTask
<1>17. FilesOK' /\ undefined' \in BOOLEAN /\ script' \in [Process -> Seq(Command)]
  BY Zenon, <1>1 DEF Inv, FilesOK, TypeOK
<1>18. HistoryOK' /\ history'.typed = history.typed /\ history'.taken = history.taken
  <2>1. HistoryOK
    BY Zenon DEF Inv
  <2> QED BY Zenon, <1>1, <2>1, HistoryResult
<1> QED BY Zenon, <1>1, <1>9, <1>10, <1>11, <1>12, <1>13, <1>14, <1>15, <1>16, <1>17, <1>18, ThreadStep

\* P of a semaphore of a user program that has to wait.
LEMMA WaitPSleeps ==
  ASSUME Inv, WaitP, ~(semTab[My.k].sem.value # 0)
  PROVE  Inv'
<1> DEFINE k == My.k
           old == semTab[k]
           sem == Block(old.sem, Me)
           e == [old EXCEPT !.sem = sem]
           q == Append(old.sem.queue, Me)
           d == Dispatch(cpu)
<1>1. /\ At("wait") /\ semTab' = [semTab EXCEPT ![k] = e] /\ cpu' = d
      /\ UNCHANGED <<task, history, pending, console, script, numberBuffer, host, fileTable, undefined>>
  BY Zenon DEF WaitP
<1>2. Me \in Process /\ My.pc = "wait" /\ My = task[Me]
  BY <1>1, AtFacts DEF Me, My
<1>3. semTab \in Seq(Entry) /\ SemsOK /\ SemQueuesOK(semTab, cpu, task)
  BY Zenon, InvFacts
<1>4. k \in DOMAIN semTab
  BY Zenon, <1>2, <1>3 DEF SemsOK
<1>5. old \in Entry /\ task[Me].k = k
  BY <1>2, <1>3, <1>4, ElementOfSeq, LenProperties
<1> HIDE DEF k, old
<1>6. /\ old.init \in Int /\ old.sem \in UserSem /\ old.waits \in Nat /\ old.signals \in Nat
      /\ old.sem.value \in Int /\ old.sem.queue \in Seq(Process)
  BY Zenon, <1>5, EntryFields
<1>q. /\ QueueOK(old.sem.queue, "wait", cpu, task)
      /\ \A p \in Range(old.sem.queue) : task[p].k = k
  BY Zenon, <1>3, <1>4 DEF SemQueuesOK, old
<1>7. /\ q \in Seq(Process) /\ Range(q) = Range(old.sem.queue) \cup {Me}
      /\ d \in CPU /\ RunOK(d, task)
      /\ QueueOK(q, "wait", d, task) /\ Kept(cpu, task, d, task)
  <2>1. "wait" \in Sleeps
    BY DEF Sleeps
  <2> QED BY Zenon, <1>1, <1>6, <1>q, <2>1, Sleeper
<1>8. sem = [old.sem EXCEPT !.queue = q] /\ q \in Threads
  BY Zenon, <1>7 DEF Block, Threads
<1> HIDE DEF sem, q, d
<1>9. sem \in UserSem /\ sem.value = old.sem.value /\ sem.queue = q
  BY Zenon, <1>6, <1>8 DEF UserSem
<1>10. /\ e \in Entry /\ e.name = old.name /\ e.init = old.init /\ e.sem = sem
       /\ e.waits = old.waits /\ e.signals = old.signals
  BY Zenon, <1>5, <1>9 DEF Entry
<1> HIDE DEF e
<1>11. /\ semTab' \in Seq(Entry) /\ DOMAIN semTab' = DOMAIN semTab /\ semTab'[k] = e
       /\ \A j \in DOMAIN semTab : j # k => semTab'[j] = semTab[j]
  BY Zenon, <1>1, <1>3, <1>4, <1>10, TabSet
<1>12. ConsoleQueuesOK(console, d, task) /\ SemQueuesOK(semTab, d, task)
  BY Zenon, <1>7, InvFacts, QueuesKept
<1>13. SemQueuesOK(semTab', d, task)
  <2>1. semTab'[k].sem.queue = q
    BY Zenon, <1>9, <1>10, <1>11
  <2>2. \A p \in Range(q) : task[p].k = k
    BY <1>5, <1>7, <1>q
  <2>3. /\ QueueOK(semTab'[k].sem.queue, "wait", d, task)
        /\ \A p \in Range(semTab'[k].sem.queue) : task[p].k = k
    BY Zenon, <1>7, <2>1, <2>2
  <2> QED BY Zenon, <1>4, <1>11, <1>12, <2>3, TabQueues
<1>14. SemsOK'
  <2>1. /\ old.sem.value = old.init + old.signals - old.waits
        /\ old.init >= 0 => old.sem.value >= 0
    BY Zenon, <1>3, <1>4 DEF SemsOK, old
  <2>2. /\ e.sem.value = e.init + e.signals - e.waits
        /\ e.init >= 0 => e.sem.value >= 0
    BY Zenon, <1>9, <1>10, <2>1
  <2>3. semTab'[k].name = semTab[k].name /\ semTab'[k].init = semTab[k].init
    BY Zenon, <1>10, <1>11 DEF old
  <2>4. \A p \in Process : task'[p].pc = "wait" => task[p].pc = "wait" /\ task'[p].k = task[p].k
    BY Zenon, <1>1
  <2> QED BY Zenon, <1>3, <1>4, <1>11, <2>2, <2>3, <2>4, TabCounts
<1>15. /\ task' \in [Process -> Task] /\ \A p \in Process : CallOK(task'[p])
       /\ \A p \in Process : task'[p].pc \in {"waitOut", "unlockOut"} => task[p].pc = task'[p].pc
  BY Zenon, <1>1, InvFacts
<1>16. FilesOK' /\ undefined' \in BOOLEAN /\ script' \in [Process -> Seq(Command)]
  BY Zenon, <1>1 DEF Inv, FilesOK, TypeOK
<1>17. HistoryOK' /\ history'.typed = history.typed /\ history'.taken = history.taken
  BY Zenon, <1>1 DEF Inv, HistoryOK
<1>18. /\ cpu' \in CPU /\ RunOK(cpu', task') /\ ConsoleQueuesOK(console, cpu', task')
       /\ SemQueuesOK(semTab', cpu', task')
  BY Zenon, <1>1, <1>7, <1>12, <1>13
<1> QED BY Zenon, <1>1, <1>11, <1>14, <1>15, <1>16, <1>17, <1>18, ThreadStep

LEMMA WaitPInv ==
  ASSUME Inv, WaitP
  PROVE  Inv'
BY Zenon, WaitPTakes, WaitPSleeps

\* STable::Signal
LEMMA SignalInv ==
  ASSUME Inv, Signal
  PROVE  Inv'
<1> DEFINE k == Slot(Call.name)
           old == semTab[k]
           sem == Give(old.sem)
           n == old.signals + 1
           e == [old EXCEPT !.sem = sem, !.signals = n]
           d == Wake(cpu, old.sem)
<1>1. /\ Calls({"Signal"}) /\ Called
      /\ \/ SemFails
         \/ /\ k # 0 /\ semTab' = [semTab EXCEPT ![k] = e] /\ cpu' = d
            /\ history' = [history EXCEPT !.result[Me] = 0]
            /\ UNCHANGED <<pending, console, task, numberBuffer, host, fileTable, undefined>>
  BY Zenon DEF Signal
<1>2. script' \in [Process -> Seq(Command)]
  BY Zenon, <1>1, CallFacts
<1>3. CASE SemFails
  BY Zenon, <1>2, <1>3, SemFailsInv
<1>4. CASE ~ SemFails
  <2>1. /\ k # 0 /\ semTab' = [semTab EXCEPT ![k] = e] /\ cpu' = d
        /\ history' = [history EXCEPT !.result[Me] = 0]
        /\ UNCHANGED <<pending, console, task, numberBuffer, host, fileTable, undefined>>
    BY Zenon, <1>1, <1>4
  <2>2. /\ semTab \in Seq(Entry) /\ SemsOK /\ SemQueuesOK(semTab, cpu, task)
        /\ cpu \in CPU /\ task \in [Process -> Task] /\ RunOK(cpu, task)
        /\ console \in Console /\ ConsoleQueuesOK(console, cpu, task)
    BY Zenon, InvFacts
  <2>3. k \in DOMAIN semTab
    BY Zenon, <2>1, <2>2, SlotFacts
  <2> HIDE DEF k
  <2>4. old \in Entry
    BY <2>2, <2>3, ElementOfSeq, LenProperties
  <2> HIDE DEF old
  <2>5. /\ old.init \in Int /\ old.sem \in UserSem /\ old.waits \in Nat /\ old.signals \in Nat
        /\ old.sem.value \in Int /\ old.sem.queue \in Seq(Process)
    BY Zenon, <2>4, EntryFields
  <2>6. /\ QueueOK(old.sem.queue, "wait", cpu, task)
        /\ \A p \in Range(old.sem.queue) : task[p].k = k
    BY Zenon, <2>2, <2>3 DEF SemQueuesOK, old
  <2>7. /\ d \in CPU /\ RunOK(d, task)
        /\ sem.queue \in Seq(Process) /\ QueueOK(sem.queue, "wait", d, task)
        /\ Range(sem.queue) \subseteq Range(old.sem.queue)
        /\ \A q, a : QueueOK(q, a, cpu, task) /\ (a # "wait" \/ Range(q) \cap Range(old.sem.queue) = {})
                      => QueueOK(q, a, d, task)
    <3>1. "wait" \in Sleeps
      BY DEF Sleeps
    <3> QED BY Zenon, <2>2, <2>5, <2>6, <3>1, WakeFirst
  <2>8. sem \in UserSem /\ sem.value = old.sem.value + 1
    <3> DEFINE v == old.sem.value + 1
               q == IF old.sem.queue = << >> THEN << >> ELSE Tail(old.sem.queue)
    <3>1. sem = [value |-> v, queue |-> q]
      BY Zenon DEF Give
    <3>2. v \in Int
      BY <2>5
    <3> HIDE DEF v, q, sem
    <3>3. sem.value = v /\ sem.queue = q
      BY Zenon, <3>1
    <3>4. q \in Threads
      BY Zenon, <2>7, <3>3 DEF Threads
    <3>5. sem \in UserSem
      BY Zenon, <3>1, <3>2, <3>4 DEF UserSem
    <3> QED BY Zenon, <3>3, <3>5 DEF v
  <2>9. n \in Nat /\ n = old.signals + 1
    BY <2>5
  <2> HIDE DEF sem, n, d
  <2>10. /\ e \in Entry /\ e.name = old.name /\ e.init = old.init /\ e.sem = sem
         /\ e.waits = old.waits /\ e.signals = n
    BY Zenon, <2>4, <2>8, <2>9 DEF Entry
  <2> HIDE DEF e
  <2>11. /\ semTab' \in Seq(Entry) /\ DOMAIN semTab' = DOMAIN semTab /\ semTab'[k] = e
         /\ \A j \in DOMAIN semTab : j # k => semTab'[j] = semTab[j]
    BY Zenon, <2>1, <2>2, <2>3, <2>10, TabSet
  <2>12. ConsoleQueuesOK(console, d, task)
    <3>1. "lockIn" # "wait" /\ "waitIn" # "wait" /\ "lockOut" # "wait" /\ "waitOut" # "wait"
      OBVIOUS
    <3> QED BY Zenon, <2>2, <2>7, <3>1 DEF ConsoleQueuesOK
  <2>13. SemQueuesOK(semTab', d, task)
    <3>1. ASSUME NEW j \in DOMAIN semTab', j # k
          PROVE  /\ QueueOK(semTab'[j].sem.queue, "wait", d, task)
                 /\ \A p \in Range(semTab'[j].sem.queue) : task[p].k = j
      <4>1. semTab'[j] = semTab[j] /\ j \in DOMAIN semTab
        BY Zenon, <2>11, <3>1
      <4>2. /\ QueueOK(semTab[j].sem.queue, "wait", cpu, task)
            /\ \A p \in Range(semTab[j].sem.queue) : task[p].k = j
        BY Zenon, <2>2, <4>1 DEF SemQueuesOK
      <4>3. Range(semTab[j].sem.queue) \cap Range(old.sem.queue) = {}
        BY <2>6, <3>1, <4>2
      <4> QED BY Zenon, <2>7, <4>1, <4>2, <4>3
    <3>2. /\ QueueOK(semTab'[k].sem.queue, "wait", d, task)
          /\ \A p \in Range(semTab'[k].sem.queue) : task[p].k = k
      BY Zenon, <2>6, <2>7, <2>10, <2>11
    <3> QED BY Zenon, <2>11, <3>1, <3>2 DEF SemQueuesOK
  <2>14. SemsOK'
    <3>1. /\ old.sem.value = old.init + old.signals - old.waits
          /\ old.init >= 0 => old.sem.value >= 0
      BY Zenon, <2>2, <2>3 DEF SemsOK, old
    <3>2. /\ e.sem.value = e.init + e.signals - e.waits
          /\ e.init >= 0 => e.sem.value >= 0
      <4>1. \A v, i, w \in Int, g \in Nat :
              v = i + g - w /\ (i >= 0 => v >= 0)
                => v + 1 = i + (g + 1) - w /\ (i >= 0 => v + 1 >= 0)
        OBVIOUS
      <4>2. old.waits \in Int
        BY <2>5
      <4>3. /\ old.sem.value + 1 = old.init + (old.signals + 1) - old.waits
            /\ old.init >= 0 => old.sem.value + 1 >= 0
        BY Zenon, <2>5, <3>1, <4>1, <4>2
      <4> QED BY Zenon, <2>8, <2>9, <2>10, <4>3
    <3>3. semTab'[k].name = semTab[k].name /\ semTab'[k].init = semTab[k].init
      BY Zenon, <2>10, <2>11 DEF old
    <3>4. \A p \in Process : task'[p].pc = "wait" => task[p].pc = "wait" /\ task'[p].k = task[p].k
      BY Zenon, <2>1
    <3> QED BY Zenon, <2>2, <2>3, <2>11, <3>2, <3>3, <3>4, TabCounts
  <2>15. /\ task' \in [Process -> Task] /\ \A p \in Process : CallOK(task'[p])
         /\ \A p \in Process : task'[p].pc \in {"waitOut", "unlockOut"} => task[p].pc = task'[p].pc
    BY Zenon, <2>1, InvFacts
  <2>16. FilesOK' /\ undefined' \in BOOLEAN
    BY Zenon, <2>1 DEF Inv, FilesOK, TypeOK
  <2>17. HistoryOK' /\ history'.typed = history.typed /\ history'.taken = history.taken
    <3>1. HistoryOK
      BY Zenon DEF Inv
    <3> QED BY Zenon, <2>1, <3>1, HistoryResult
  <2>18. /\ cpu' \in CPU /\ RunOK(cpu', task') /\ ConsoleQueuesOK(console, cpu', task')
         /\ SemQueuesOK(semTab', cpu', task')
    BY Zenon, <2>1, <2>7, <2>12, <2>13
  <2> QED BY Zenon, <1>2, <2>1, <2>11, <2>14, <2>15, <2>16, <2>17, <2>18, ThreadStep
<1> QED BY Zenon, <1>3, <1>4

-----------------------------------------------------------------------------
(* The invariant holds at the start, and every step keeps it *)

LEMMA EmptyQueue ==
  ASSUME NEW at, NEW c, NEW t
  PROVE  QueueOK(<< >>, at, c, t)
<1>1. IsInjective(<< >>) /\ Range(<< >>) = {}
  BY DEF IsInjective, Range
<1> QED BY Zenon, <1>1 DEF QueueOK

LEMMA InitPending ==
  ASSUME Init
  PROVE  /\ ListOK(pending, 0)
         /\ \A t : Has(pending, t) <=> t \in {"TimerInt", "ConsoleReadInt"}
<1> DEFINE a == Schedule(<< >>, "TimerInt", TimerTicks)
           b == Schedule(a, "ConsoleReadInt", ConsoleTime)
<1>1. ListOK(<< >>, 0) /\ \A t : ~Has(<< >>, t)
  BY EmptySeq DEF ListOK, Has
<1>2. "TimerInt" \in Types /\ "ConsoleReadInt" \in Types /\ "ConsoleReadInt" # "TimerInt"
  BY DEF Types
<1>3. TimerTicks \in Nat \ {0} /\ ConsoleTime \in Nat \ {0}
  BY Zenon, SystemCallsAssumption
<1>4. ListOK(a, 0) /\ \A t : Has(a, t) <=> t = "TimerInt"
  BY Zenon, <1>1, <1>2, <1>3, ScheduleInterrupt
<1> HIDE DEF a
<1>5. ListOK(b, 0) /\ \A t : Has(b, t) <=> t = "ConsoleReadInt" \/ t = "TimerInt"
  BY Zenon, <1>2, <1>3, <1>4, ScheduleInterrupt
<1>6. pending = b
  BY Zenon DEF Init, a
<1> HIDE DEF b
<1> QED BY <1>5, <1>6

LEMMA InitTasks ==
  ASSUME NEW ready,
         task = [p \in Process |-> [Idling EXCEPT !.pc = IF p \in Range(ready) THEN "new" ELSE "none"]]
  PROVE  /\ task \in [Process -> Task]
         /\ \A p \in Process : task[p].pc = IF p \in Range(ready) THEN "new" ELSE "none"
         /\ \A p \in Process : CallOK(task[p])
         /\ \A p \in Process : task[p].call = NoCall
<1> DEFINE pc(p) == IF p \in Range(ready) THEN "new" ELSE "none"
           r(p) == [Idling EXCEPT !.pc = pc(p)]
<1>1. ASSUME NEW p \in Process
      PROVE  r(p) \in Task /\ r(p).pc = pc(p) /\ r(p).call = NoCall /\ CallOK(r(p))
  <2> DEFINE x == pc(p)
             u == [Idling EXCEPT !.pc = x]
  <2>1. x \in PCs /\ x \notin Ins
    BY DEF PCs, Ins
  <2>2. Idling \in Task /\ Idling.call = NoCall
    BY Zenon, IdlingTask
  <2> HIDE DEF x
  <2>3. u \in Task /\ u.pc = x /\ u.call = Idling.call
    BY Zenon, <2>1, <2>2 DEF Task
  <2> HIDE DEF u
  <2>4. CallOK(u)
    BY <2>1, <2>2, <2>3 DEF CallOK, NoCall
  <2> QED BY Zenon, <2>2, <2>3, <2>4 DEF x, u
<1>2. task = [p \in Process |-> r(p)]
  BY Zenon
<1>p. \A p \in Process : pc(p) = IF p \in Range(ready) THEN "new" ELSE "none"
  BY Zenon
<1> HIDE DEF r, pc
<1>3. \A p \in Process : task[p] = r(p)
  BY Zenon, <1>2
<1>4. task \in [Process -> Task]
  BY <1>1, <1>2
<1> QED BY Zenon, <1>1, <1>3, <1>4, <1>p

LEMMA InitRun ==
  ASSUME NEW ready \in Seq(Process), IsInjective(ready), NEW t,
         \A p \in Process : t[p].pc = IF p \in Range(ready) THEN "new" ELSE "none",
         NEW old, old = [p \in Process |-> "none"],
         NEW c, c = [current |-> NoProcess, ready |-> ready, status |-> "IdleMode", oldStatus |-> old]
  PROVE  c \in CPU /\ RunOK(c, t)
<1>1. /\ NoProcess \in Current /\ ready \in Threads /\ "IdleMode" \in Statuses
      /\ old \in OldStatuses /\ \A p \in Process : old[p] = "none"
  BY DEF Current, Threads, Statuses, OldStatuses
<1>2. c \in CPU
  BY Zenon, <1>1 DEF CPU
<1>3. c.current = NoProcess /\ c.ready = ready /\ c.status = "IdleMode" /\ c.oldStatus = old
  BY Zenon
<1>4. Range(ready) \subseteq Process
  BY ElementOfSeq, LenProperties DEF Range
<1>5. \A p \in Range(ready) : t[p].pc = "new" /\ old[p] = "none"
  BY Zenon, <1>1, <1>4
<1>6. ReadyOK(c, t)
  <2>1. \A p \in Range(c.ready) : /\ t[p].pc \notin {"none", "done"}
                                  /\ c.oldStatus[p] = "UserMode" <=> t[p].pc = "user"
    BY <1>3, <1>5
  <2> QED BY Zenon, <1>1, <1>3, <2>1 DEF ReadyOK
<1>7. NoProcess \notin Range(ready)
  BY <1>4, SystemCallsAssumption
<1> QED BY Zenon, <1>2, <1>3, <1>6, <1>7 DEF RunOK

Quiet(con, typed) ==
    /\ con \in Console /\ con.incoming = EOF /\ con.input = typed /\ con.putBusy = FALSE
    /\ con.inSem.value = 0 /\ con.outLock.value = 1 /\ con.outSem.value = 0
    /\ \A c, t : ConsoleQueuesOK(con, c, t)
LEMMA InitConsole ==
  ASSUME NEW typed \in Seq(Character), NEW closed \in BOOLEAN,
         NEW con, con = [incoming |-> EOF, input |-> typed, closed |-> closed, putBusy |-> FALSE,
                         inLock |-> Semaphore(1), inSem |-> Semaphore(0),
                         outLock |-> Semaphore(1), outSem |-> Semaphore(0)]
  PROVE  Quiet(con, typed)
<1> DEFINE one == Semaphore(1)
           zero == Semaphore(0)
<1>1. /\ one \in Sem /\ one.value = 1 /\ one.queue = << >>
      /\ zero \in Sem /\ zero.value = 0 /\ zero.queue = << >>
  BY EmptySeq DEF Semaphore, Sem, Threads
<1> HIDE DEF one, zero
<1>2. con = [incoming |-> EOF, input |-> typed, closed |-> closed, putBusy |-> FALSE,
             inLock |-> one, inSem |-> zero, outLock |-> one, outSem |-> zero]
  BY Zenon DEF one, zero
<1>3. EOF \in Read /\ typed \in Input
  BY DEF Read, Input
<1>4. con \in Console
  BY <1>1, <1>2, <1>3 DEF Console
<1>5. /\ con.incoming = EOF /\ con.input = typed /\ con.putBusy = FALSE
      /\ con.inLock = one /\ con.inSem = zero /\ con.outLock = one /\ con.outSem = zero
  <2>1. con.incoming = EOF /\ con.input = typed
    BY <1>2
  <2>2. con.putBusy = FALSE
    BY <1>2
  <2>3. con.inLock = one /\ con.inSem = zero
    BY <1>2
  <2>4. con.outLock = one /\ con.outSem = zero
    BY <1>2
  <2> QED BY Zenon, <2>1, <2>2, <2>3, <2>4
<1>6. \A c, t : ConsoleQueuesOK(con, c, t)
  BY Zenon, <1>1, <1>5, EmptyQueue DEF ConsoleQueuesOK
<1> QED BY Zenon, <1>1, <1>4, <1>5, <1>6 DEF Quiet

LEMMA InitInv ==
  ASSUME Init
  PROVE  Inv
<1>1. PICK s \in Scenarios :
        /\ cpu = [current |-> NoProcess, ready |-> s.ready, status |-> "IdleMode",
                  oldStatus |-> [p \in Process |-> "none"]]
        /\ console = [incoming |-> EOF, input |-> s.typed, closed |-> s.closed, putBusy |-> FALSE,
                      inLock |-> Semaphore(1), inSem |-> Semaphore(0),
                      outLock |-> Semaphore(1), outSem |-> Semaphore(0)]
        /\ task = [p \in Process |-> [Idling EXCEPT !.pc = IF p \in Range(s.ready) THEN "new" ELSE "none"]]
        /\ script = s.script
        /\ numberBuffer = [i \in 0..MaxNumLength + 1 |-> 0]
        /\ host = [f \in Names |-> [exists |-> FALSE, bytes |-> << >>]]
        /\ fileTable = [p \in Process |-> [fd \in Table |-> IF fd \in s.wild THEN Wild ELSE NoFile]]
        /\ semTab = << >> /\ undefined = FALSE
        /\ history = [typed |-> s.typed, taken |-> << >>,
                      answer |-> [p \in Process |-> [wanted |-> << >>, got |-> << >>, disturbed |-> FALSE]],
                      result |-> [p \in Process |-> 0]]
  BY Zenon DEF Init
<1>2. /\ s.script \in [Process -> Seq(Command)] /\ s.ready \in Seq(Process)
      /\ s.typed \in Seq(Character) /\ s.closed \in BOOLEAN /\ IsInjective(s.ready)
  <2>1. /\ s \in [script : [Process -> Seq(Command)], ready : Seq(Process),
                  typed : Seq(Character), closed : BOOLEAN, wild : SUBSET Int]
        /\ IsInjective(s.ready)
    BY Zenon, SystemCallsAssumption
  <2> QED BY Zenon, <2>1
<1>3. /\ task \in [Process -> Task]
      /\ \A p \in Process : task[p].pc = IF p \in Range(s.ready) THEN "new" ELSE "none"
      /\ \A p \in Process : CallOK(task[p])
  BY Zenon, <1>1, InitTasks
<1>4. cpu \in CPU /\ RunOK(cpu, task)
  BY Zenon, <1>1, <1>2, <1>3, InitRun
<1>5. /\ console \in Console /\ console.incoming = EOF /\ console.input = s.typed
      /\ console.putBusy = FALSE
      /\ console.inSem.value = 0 /\ console.outLock.value = 1 /\ console.outSem.value = 0
      /\ ConsoleQueuesOK(console, cpu, task)
  <2>1. Quiet(console, s.typed)
    BY Zenon, <1>1, <1>2, InitConsole
  <2> QED BY Zenon, <2>1 DEF Quiet
<1>6. ListOK(pending, 0) /\ \A t : Has(pending, t) <=> t \in {"TimerInt", "ConsoleReadInt"}
  BY Zenon, InitPending
<1>7. /\ HistoryOK /\ history.typed = s.typed /\ history.taken = << >>
  <2> DEFINE answers == [p \in Process |-> [wanted |-> << >>, got |-> << >>, disturbed |-> FALSE]]
             results == [p \in Process |-> 0]
  <2>1. DOMAIN answers = Process
    OBVIOUS
  <2>2. history = [typed |-> s.typed, taken |-> << >>, answer |-> answers, result |-> results]
    BY Zenon, <1>1
  <2> HIDE DEF answers, results
  <2>3. /\ DOMAIN history = {"typed", "taken", "answer", "result"}
        /\ history.typed = s.typed /\ history.taken = << >> /\ history.answer = answers
    BY <2>2
  <2> QED BY <1>2, <2>1, <2>3, EmptySeq DEF HistoryOK
<1>8. InputOK(pending, console, history)
  <2>1. << >> \o s.typed = s.typed
    BY <1>2
  <2>2. history.typed = history.taken \o console.input
    BY Zenon, <1>5, <1>7, <2>1
  <2> QED BY <1>5, <2>2 DEF InputOK
<1>9. OutputOK(pending, console, task)
  <2>1. ~Has(pending, "ConsoleWriteInt")
    BY <1>6
  <2>2. \A p \in Process : task[p].pc \notin {"waitOut", "unlockOut"}
    BY <1>3
  <2> QED BY <1>5, <2>1, <2>2 DEF OutputOK
<1>10. SemQueuesOK(semTab, cpu, task) /\ SemsOK /\ semTab \in Seq(Entry)
  <2>1. DOMAIN semTab = {} /\ semTab \in Seq(Entry)
    BY <1>1, EmptySeq
  <2>2. \A p \in Process : task[p].pc # "wait"
    BY <1>3
  <2> QED BY <2>1, <2>2 DEF SemQueuesOK, SemsOK
<1>11. numberBuffer \in [0 .. MaxNumLength + 1 -> Int]
  BY <1>1
<1>12. TypeOK
  BY Zenon, <1>1, <1>2, <1>3, <1>4, <1>5, <1>10, <1>11 DEF TypeOK
<1>13. FilesOK
  <2>1. DOMAIN host = Names /\ DOMAIN fileTable = Process
    BY <1>1
  <2>2. DOMAIN Wild = {"name", "mode", "offset"} /\ Wild.mode \in {ReadWrite, ReadOnly}
    BY DEF Wild, NoFile, ReadWrite
  <2>3. ASSUME NEW p \in Process PROVE TableOK(fileTable[p])
    <3>1. fileTable[p] = [fd \in Table |-> IF fd \in s.wild THEN Wild ELSE NoFile]
      BY Zenon, <1>1
    <3>2. DOMAIN fileTable[p] = Table /\ \A fd \in Table : fileTable[p][fd] \in {Wild, NoFile}
      BY <3>1
    <3> QED BY <2>2, <3>2, NoFileEntry DEF TableOK
  <2> QED BY Zenon, <2>1, <2>3 DEF FilesOK
<1>14. Has(pending, "TimerInt")
  BY <1>6
<1> QED BY Zenon, <1>3, <1>4, <1>5, <1>6, <1>7, <1>8, <1>9, <1>10, <1>12, <1>13, <1>14 DEF Inv

LEMMA StepInv ==
  ASSUME Inv, [Next]_vars
  PROVE  Inv'
<1>1. CASE OneTick
  BY Zenon, <1>1, OneTickInv
<1>2. CASE Idle
  BY Zenon, <1>2, IdleInv
<1>3. CASE Waits("lockIn", "inLock") \/ Waits("waitIn", "inSem")
           \/ Waits("lockOut", "outLock") \/ Waits("waitOut", "outSem")
  <2>1. PICK pc, sem : /\ Waits(pc, sem)
                       /\ <<pc, sem>> \in {<<"lockIn", "inLock">>, <<"waitIn", "inSem">>,
                                           <<"lockOut", "outLock">>, <<"waitOut", "outSem">>}
    BY Zenon, <1>3
  <2> QED BY Zenon, <2>1, WaitsInv
<1>4. CASE LockIn \/ WaitIn \/ UnlockIn \/ GotChar
  BY Zenon, <1>4, LockInInv, WaitInInv, UnlockInInv, GotCharInv
<1>5. CASE LockOut \/ WaitOut \/ UnlockOut \/ PrintNext
  BY Zenon, <1>5, LockOutInv, WaitOutInv, UnlockOutInv, PrintNextInv
<1>6. CASE PrintCall \/ ReadCall \/ FileCall \/ Exec
  BY Zenon, <1>6, PrintCallInv, ReadCallInv, FileCallInv, ExecInv
<1>7. CASE CreateSemaphore \/ Wait \/ WaitP \/ Signal
  BY Zenon, <1>7, CreateSemaphoreInv, WaitInv, WaitPInv, SignalInv
<1>8. CASE Enter \/ Finish
  BY Zenon, <1>8, EnterInv, FinishInv
<1>9. CASE UNCHANGED vars
  <2>1. UNCHANGED <<cpu, pending, console, task, script, numberBuffer, host, fileTable, semTab,
                    undefined, history>>
    BY Zenon, <1>9 DEF vars
  <2>2. TypeOK' /\ FilesOK' /\ HistoryOK' /\ SemsOK'
    BY Zenon, <2>1 DEF Inv, TypeOK, FilesOK, HistoryOK, SemsOK
  <2> QED BY Zenon, <2>1, <2>2 DEF Inv
<1> QED BY Zenon, <1>1, <1>2, <1>3, <1>4, <1>5, <1>6, <1>7, <1>8, <1>9 DEF Next, Code

\* The invariant that the proofs rest on holds in every reachable state.
THEOREM InvAlways == Spec => []Inv
<1>1. Init => Inv
  BY InitInv
<1>2. Inv /\ [Next]_vars => Inv'
  BY StepInv
<1> QED BY <1>1, <1>2, PTL DEF Spec

\* Interrupt::status says where the current thread is, for any processes and scripts and
\* however the timer interrupts them: OneTick keeps the status across a switch.
THEOREM StatusAlwaysRight == Spec => []StatusRight
<1>1. Inv => StatusRight
  BY Zenon, InvFacts DEF RunOK, StatusRight
<1> QED BY <1>1, InvAlways, PTL

\* The console loses, repeats and reorders no character that is typed, and its devices
\* get one request at a time, for any input, any number of processes and any delay of the
\* devices.
THEOREM ConsoleAlwaysExact == Spec => []ConsoleExact
<1>1. ASSUME Inv PROVE ConsoleExact
  <2>1. /\ ListOK(pending, 0) /\ console \in Console
        /\ InputOK(pending, console, history) /\ OutputOK(pending, console, task)
    BY Zenon, <1>1, InvFacts
  <2>2. pending \in Seq(Interrupt) /\ Len(pending) \in Nat /\ DOMAIN pending = 1 .. Len(pending)
    BY <2>1, LenProperties DEF ListOK
  <2>3. \A type : Pending(type) # {} <=> Has(pending, type)
    BY DEF Pending, Has
  <2>4. \A i, j \in Pending("ConsoleReadInt") : i = j
    BY <2>1 DEF Pending, ListOK
  <2>5. /\ \/ console.incoming = EOF /\ history.typed = history.taken \o console.input
           \/ history.typed = history.taken \o <<console.incoming>> \o console.input
        /\ Has(pending, "ConsoleReadInt") =>
             /\ console.incoming = EOF /\ console.inSem.value = 0
             /\ history.typed = history.taken \o console.input
    BY Zenon, <2>1 DEF InputOK
  <2>6. /\ console.putBusy <=> Has(pending, "ConsoleWriteInt")
        /\ console.outLock.value = 1 => ~console.putBusy /\ console.outSem.value = 0
    BY Zenon, <2>1 DEF OutputOK
  <2>7. \A n \in DOMAIN pending : pending[n].left > 0
    BY <2>1, <2>2 DEF ListOK
  <2>8. \A n \in 1..Len(pending) - 1 : pending[n].left <= pending[n + 1].left
    BY <2>1, <2>2 DEF ListOK
  <2> QED BY Zenon, <2>3, <2>4, <2>5, <2>6, <2>7, <2>8 DEF ConsoleExact
<1> QED BY <1>1, InvAlways, PTL

-----------------------------------------------------------------------------
(* Objects *)

\* Only two actions change files or descriptors.
LEMMA FilesTouched ==
  ASSUME [Next]_vars
  PROVE  FileCall \/ Exec \/ UNCHANGED <<host, fileTable>>
<1>1. CASE OneTick
  BY Zenon, <1>1 DEF OneTick
<1>2. CASE Idle
  BY Zenon, <1>2 DEF Idle
<1>3. CASE \E pc, sem : Waits(pc, sem)
  BY Zenon, <1>3 DEF Waits
<1>4. CASE LockIn \/ WaitIn \/ UnlockIn \/ GotChar
  BY Zenon, <1>4 DEF LockIn, WaitIn, UnlockIn, GotChar
<1>5. CASE LockOut \/ WaitOut \/ UnlockOut \/ PrintNext
  BY Zenon, <1>5 DEF LockOut, WaitOut, UnlockOut, PrintNext
<1>6. CASE PrintCall \/ ReadCall
  BY Zenon, <1>6 DEF PrintCall, ReadCall
<1>7. CASE CreateSemaphore \/ Wait
  BY Zenon, <1>7 DEF CreateSemaphore, Wait, SemFails
<1>8. CASE WaitP \/ Signal
  BY Zenon, <1>8 DEF WaitP, Signal, SemFails
<1>9. CASE Enter \/ Finish
  BY Zenon, <1>9 DEF Enter, Finish
<1>10. CASE UNCHANGED vars
  BY Zenon, <1>10 DEF vars
<1> QED BY Zenon, <1>1, <1>2, <1>3, <1>4, <1>5, <1>6, <1>7, <1>8, <1>9, <1>10 DEF Next, Code

TableStep ==
    \A p \in Process : fileTable'[p] # fileTable[p] =>
        p = Me \/ Call = [op |-> "Exec", child |-> p]
HostStep ==
    ~undefined => \A f \in Names : host'[f] # host[f] =>
        \/ Call = [op |-> "Create", name |-> f]
        \/ Call.op = "Write" /\ fileTable[Me][Call.fd].name = f
                             /\ fileTable[Me][Call.fd].mode = ReadWrite
LEMMA FilesStep ==
  ASSUME Inv, [Next]_vars
  PROVE  TableStep /\ HostStep
<1>0. DOMAIN fileTable = Process
  BY Zenon DEF Inv, FilesOK
<1>1. CASE FileCall
  <2>1. /\ Me \in Process /\ Allowed(Call, fileTable[Me], FileDid(Call, fileTable[Me]))
        /\ host' = FileDid(Call, fileTable[Me]).files
        /\ fileTable' = [fileTable EXCEPT ![Me] = FileDid(Call, fileTable[Me]).table]
    BY Zenon, <1>1, FileCallFacts
  <2>2. \A p \in Process : p # Me => fileTable'[p] = fileTable[p]
    BY Zenon, <1>0, <2>1
  <2> QED BY Zenon, <2>1, <2>2 DEF TableStep, HostStep, Allowed
<1>2. CASE Exec
  <2>1. /\ Calls({"Exec"}) /\ Called /\ host' = host
        /\ fileTable' = [fileTable EXCEPT ![Call.child] = [fd \in Table |-> NoFile]]
    BY Zenon, <1>2 DEF Exec
  <2>2. Call \in Command /\ Call.op \in {"Exec"}
    BY Zenon, <2>1, CallFacts
  <2>3. Call.op = "Exec"
    BY <2>2
  <2>4. Call = [op |-> "Exec", child |-> Call.child]
    BY Zenon, <2>2, <2>3, CommandFacts
  <2>5. \A p \in Process : p # Call.child => fileTable'[p] = fileTable[p]
    BY Zenon, <1>0, <2>1
  <2> QED BY Zenon, <2>1, <2>4, <2>5 DEF TableStep, HostStep
<1>3. CASE UNCHANGED <<host, fileTable>>
  BY Zenon, <1>3 DEF TableStep, HostStep
<1> QED BY Zenon, <1>1, <1>2, <1>3, FilesTouched

SemsExact ==
    ~undefined =>
        \A k \in DOMAIN semTab :
            LET s == semTab[k]
            IN /\ \A j \in DOMAIN semTab : semTab[j].name = s.name => j = k
               /\ s.sem.value = s.init + s.signals - s.waits
               /\ s.init >= 0 => s.sem.value >= 0

\* The semaphores of user programs keep their count, and a call changes only the
\* descriptors of its caller (Exec the child's) and only files that it creates or has
\* open for writing: for any processes, scripts, files and semaphores.
THEOREM ObjectsAlwaysExact == Spec => ObjectsExact
<1>1. Inv => SemsExact
  BY Zenon, InvFacts DEF SemsOK, SemsExact
<1>2. Inv /\ [Next]_vars => [TableStep]_vars /\ [HostStep]_vars
  BY FilesStep
<1>3. Spec => []SemsExact /\ [][TableStep]_vars /\ [][HostStep]_vars
  BY <1>1, <1>2, InvAlways, PTL DEF Spec
<1> QED BY <1>3 DEF ObjectsExact, SemsExact, TableStep, HostStep
=============================================================================
