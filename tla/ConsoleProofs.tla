--------------------------- MODULE ConsoleProofs ---------------------------
(***************************************************************************)
(* The inductive invariant of module SystemCalls, for any processes,       *)
(* scripts and input, and what keeps it in the simulated machine: the list *)
(* of pending interrupts, the ready list, the semaphores and the driver of *)
(* the console.  SystemCallsProofs does the rest of the kernel.            *)
(***************************************************************************)
EXTENDS SystemCalls, LibraryLemmas

PCs == {"none", "new", "user", "done", "lockIn", "waitIn", "unlockIn", "heard",
        "lockOut", "waitOut", "unlockOut", "printed", "wait"}
PrintOwn == [op |-> "Print", n |-> 0]
Current == Process \cup {NoProcess}
Threads == Seq(Process)
Statuses == {"IdleMode", "SystemMode", "UserMode"}
OldStatuses == [Process -> {"none", "SystemMode", "UserMode"}]
CallType == Command \cup {NoCall, PrintOwn}
Text == Seq(Int)
Read == Character \cup {EOF}
Input == Seq(Character)
Task == [pc : PCs, call : CallType, ch : Int, k : Nat, chars : Text, put : Text,
         heard : Text, shares : BOOLEAN, disturbed : BOOLEAN]
Types == {"TimerInt", "ConsoleReadInt", "ConsoleWriteInt"}
Interrupt == [type : Types, left : Int]
CPU == [current : Current, ready : Threads, status : Statuses, oldStatus : OldStatuses]
Sem == [value : Nat, queue : Threads]
UserSem == [value : Int, queue : Threads]
Console == [incoming : Read, input : Input, closed : BOOLEAN, putBusy : BOOLEAN,
            inLock : Sem, inSem : Sem, outLock : Sem, outSem : Sem]
Entry == [name : SemNames, init : Int, sem : UserSem, waits : Nat, signals : Nat]

TypeOK ==
    /\ cpu \in CPU /\ console \in Console
    /\ task \in [Process -> Task]
    /\ script \in [Process -> Seq(Command)]
    /\ numberBuffer \in [0..MaxNumLength + 1 -> Int]
    /\ semTab \in Seq(Entry)
    /\ undefined \in BOOLEAN

\* The descriptors of every process, and the bytes of the files, as far as types go.
TableOK(t) ==
    /\ DOMAIN t = Table
    /\ \A fd \in Table : /\ DOMAIN t[fd] = {"name", "mode", "offset"}
                         /\ t[fd].mode \in {ReadWrite, ReadOnly}
FilesOK == /\ DOMAIN host = Names /\ DOMAIN fileTable = Process
           /\ \A p \in Process : TableOK(fileTable[p])

HistoryOK ==
    /\ DOMAIN history = {"typed", "taken", "answer", "result"}
    /\ history.typed \in Seq(Character) /\ history.taken \in Seq(Character)
    /\ DOMAIN history.answer = Process

-----------------------------------------------------------------------------
\* The list of interrupts: sorted, none twice; only the first due of them are due.
ListOK(list, due) ==
    /\ list \in Seq(Interrupt)
    /\ \A i, j \in DOMAIN list : i <= j => list[i].left <= list[j].left
    /\ \A i, j \in DOMAIN list : list[i].type = list[j].type => i = j
    /\ \A i \in DOMAIN list : list[i].left >= 0 /\ (i > due => list[i].left > 0)
Has(list, type) == \E i \in DOMAIN list : list[i].type = type

InputOK(list, con, h) ==
    /\ \/ con.incoming = EOF /\ h.typed = h.taken \o con.input
       \/ h.typed = h.taken \o <<con.incoming>> \o con.input
    /\ con.inSem.value <= 1
    /\ Has(list, "ConsoleReadInt") => /\ con.incoming = EOF /\ con.inSem.value = 0
                                      /\ h.typed = h.taken \o con.input

OutputOK(list, con, t) ==
    /\ con.putBusy <=> Has(list, "ConsoleWriteInt")
    /\ con.outLock.value <= 1 /\ con.outSem.value <= 1
    /\ con.putBusy => con.outSem.value = 0
    /\ con.outLock.value = 1 => /\ ~con.putBusy /\ con.outSem.value = 0
                                /\ \A p \in Process : t[p].pc \notin {"waitOut", "unlockOut"}
    /\ \A p \in Process :
         /\ t[p].pc = "waitOut" => (con.putBusy <=> con.outSem.value = 0)
         /\ t[p].pc = "unlockOut" => ~con.putBusy /\ con.outSem.value = 0
         /\ t[p].pc \in {"waitOut", "unlockOut"} =>
                \A q \in Process : t[q].pc \in {"waitOut", "unlockOut"} => q = p

-----------------------------------------------------------------------------
\* A queue of a semaphore: threads that wait there, and neither run nor are ready.
Off(p, c) == p # c.current /\ p \notin Range(c.ready)
QueueOK(q, at, c, t) == IsInjective(q) /\ \A p \in Range(q) : t[p].pc = at /\ Off(p, c)

\* The ready list.  A thread that is there because OneTick made it yield has its
\* status in oldStatus.
ReadyOK(c, t) ==
    /\ IsInjective(c.ready)
    /\ \A p \in Range(c.ready) : /\ t[p].pc \notin {"none", "done"}
                                 /\ c.oldStatus[p] = "UserMode" <=> t[p].pc = "user"
    /\ \A p \in Process : p \notin Range(c.ready) => c.oldStatus[p] = "none"

\* The thread that runs, and those that are ready.
RunOK(c, t) ==
    /\ ReadyOK(c, t) /\ c.current \notin Range(c.ready)
    /\ c.current # NoProcess => t[c.current].pc \notin {"none", "done"}
    /\ c.status = IF c.current = NoProcess THEN "IdleMode"
                  ELSE IF t[c.current].pc = "user" THEN "UserMode" ELSE "SystemMode"

ConsoleQueuesOK(con, c, t) ==
    /\ QueueOK(con.inLock.queue, "lockIn", c, t) /\ QueueOK(con.inSem.queue, "waitIn", c, t)
    /\ QueueOK(con.outLock.queue, "lockOut", c, t) /\ QueueOK(con.outSem.queue, "waitOut", c, t)

SemQueuesOK(tab, c, t) ==
    \A k \in DOMAIN tab : /\ QueueOK(tab[k].sem.queue, "wait", c, t)
                          /\ \A p \in Range(tab[k].sem.queue) : t[p].k = k

SemsOK ==
    /\ \A k \in DOMAIN semTab :
         LET s == semTab[k]
         IN /\ \A j \in DOMAIN semTab : semTab[j].name = s.name => j = k
            /\ s.sem.value = s.init + s.signals - s.waits
            /\ s.init >= 0 => s.sem.value >= 0
    /\ \A p \in Process : task[p].pc = "wait" => task[p].k \in DOMAIN semTab

\* A number being printed is not 0, and its digits are counted within the buffer; who
\* is in the console's input code has called a function that reads.
Ins == {"lockIn", "waitIn", "unlockIn", "heard"}
CallOK(t) == /\ t.call.op = "PrintNum" => t.call.n # 0 /\ t.k <= MaxNumLength + 1
             /\ t.pc \in Ins => t.call.op \in {"ReadChar", "ReadNum", "ReadString", "ReadConsole"}

Inv == /\ TypeOK /\ FilesOK /\ HistoryOK /\ \A p \in Process : CallOK(task[p])
       /\ ListOK(pending, 0) /\ Has(pending, "TimerInt")
       /\ InputOK(pending, console, history) /\ OutputOK(pending, console, task)
       /\ RunOK(cpu, task) /\ ConsoleQueuesOK(console, cpu, task)
       /\ SemQueuesOK(semTab, cpu, task) /\ SemsOK

-----------------------------------------------------------------------------
(* The digits of a number, as SysPrintNum computes them, and the last k of them to be
   printed. *)

DigitsOf(n) == Digits(IF n < 0 THEN -n ELSE n)
Rest(d, k) == [j \in 1..k |-> Zero + d[k + 1 - j]]

-----------------------------------------------------------------------------
(* The list of interrupts *)

\* Interrupt::Schedule keeps the list sorted and adds one interrupt, which is not
\* due.
LEMMA ScheduleInterrupt ==
  ASSUME NEW list, NEW due, ListOK(list, due), NEW type \in Types, ~Has(list, type),
         NEW fromNow \in Nat \ {0}
  PROVE  /\ ListOK(Schedule(list, type, fromNow), due)
         /\ \A t : Has(Schedule(list, type, fromNow), t) <=> t = type \/ Has(list, t)
<1> DEFINE later == {n \in DOMAIN list : list[n].left > fromNow}
           at == Min(later \cup {Len(list) + 1})
           new == [type |-> type, left |-> fromNow]
           s == Schedule(list, type, fromNow)
<1>1. list \in Seq(Interrupt) /\ Len(list) \in Nat /\ DOMAIN list = 1 .. Len(list)
  BY LenProperties DEF ListOK
<1>2. \A i \in DOMAIN list : list[i] \in Interrupt /\ list[i].left \in Int
  <2>1. \A i \in DOMAIN list : list[i] \in Interrupt
    BY <1>1, ElementOfSeq
  <2> QED BY <2>1 DEF Interrupt
<1>s. /\ \A i, j \in DOMAIN list : i <= j => list[i].left <= list[j].left
      /\ \A i, j \in DOMAIN list : list[i].type = list[j].type => i = j
  BY DEF ListOK
<1>3. /\ at \in later \cup {Len(list) + 1}
      /\ \A n \in later \cup {Len(list) + 1} : at <= n
  <2>1. later \cup {Len(list) + 1} \subseteq Nat
    BY <1>1
  <2> HIDE DEF later
  <2> QED BY Zenon, <2>1, MinOfNaturals
<1>4. /\ at \in 1 .. Len(list) + 1
      /\ \A i \in DOMAIN list : i < at => list[i].left <= fromNow
      /\ \A i \in DOMAIN list : i >= at => list[i].left > fromNow
  <2>1. at \in 1 .. Len(list) + 1
    BY <1>1, <1>3
  <2>2. \A i \in DOMAIN list : i < at => list[i].left <= fromNow
    <3> HIDE DEF at
    <3> QED BY <1>1, <1>2, <1>3, <2>1
  <2>3. \A i \in DOMAIN list : i >= at => list[i].left > fromNow
    <3> HIDE DEF at
    <3> QED BY <1>1, <1>2, <1>3, <2>1 DEF ListOK
  <2> QED BY <2>1, <2>2, <2>3
<1>5. s = [n \in 1 .. Len(list) + 1 |-> CASE n < at -> list[n]
                                          [] n = at -> new
                                          [] OTHER -> list[n - 1]]
  BY DEF Schedule
<1> HIDE DEF at, s, new
<1>6. new \in Interrupt /\ new.left = fromNow /\ new.type = type
  BY DEF new, Interrupt
<1>7. /\ \A n \in 1 .. Len(list) + 1 : n < at => n \in DOMAIN list /\ s[n] = list[n]
      /\ s[at] = new
      /\ \A n \in 1 .. Len(list) + 1 : n > at => n - 1 \in DOMAIN list /\ s[n] = list[n - 1]
  BY <1>1, <1>4, <1>5
<1>8. s \in Seq(Interrupt) /\ Len(s) = Len(list) + 1 /\ DOMAIN s = 1 .. Len(list) + 1
  <2>1. \A n \in 1 .. Len(list) + 1 : s[n] \in Interrupt
    BY <1>1, <1>2, <1>4, <1>6, <1>7
  <2>2. s = [n \in 1 .. Len(list) + 1 |-> s[n]] /\ DOMAIN s = 1 .. Len(list) + 1
    BY <1>5
  <2> QED BY <1>1, <2>1, <2>2
<1>9. \A i, j \in DOMAIN s : i <= j => s[i].left <= s[j].left
  <2> SUFFICES ASSUME NEW i \in DOMAIN s, NEW j \in DOMAIN s, i < j
               PROVE  s[i].left <= s[j].left
    <3>1. \A i \in DOMAIN s : s[i] \in Interrupt
      BY <1>8, ElementOfSeq
    <3>2. \A i \in DOMAIN s : s[i].left <= s[i].left
      BY <3>1 DEF Interrupt
    <3> QED BY <1>8, <3>2
  <2>1. CASE j < at
    BY <1>1, <1>s, <1>4, <1>7, <1>8, <2>1
  <2>2. CASE j = at
    BY <1>1, <1>2, <1>4, <1>6, <1>7, <1>8, <2>2
  <2>3. CASE j > at /\ i < at
    <3>1. i \in DOMAIN list /\ j - 1 \in DOMAIN list /\ i <= j - 1
      BY <1>1, <1>4, <1>8, <2>3
    <3>2. s[i] = list[i] /\ s[j] = list[j - 1]
      BY <1>7, <1>8, <2>3
    <3> QED BY <1>s, <3>1, <3>2
  <2>4. CASE j > at /\ i = at
    BY <1>1, <1>2, <1>4, <1>6, <1>7, <1>8, <2>4
  <2>5. CASE j > at /\ i > at
    <3>1. i - 1 \in DOMAIN list /\ j - 1 \in DOMAIN list /\ i - 1 <= j - 1
      BY <1>1, <1>4, <1>8, <2>5
    <3>2. s[i] = list[i - 1] /\ s[j] = list[j - 1]
      BY <1>7, <1>8, <2>5
    <3> QED BY <1>s, <3>1, <3>2
  <2> QED BY <1>4, <1>8, <2>1, <2>2, <2>3, <2>4, <2>5
<1>10. \A i, j \in DOMAIN s : s[i].type = s[j].type => i = j
  <2> SUFFICES ASSUME NEW i \in DOMAIN s, NEW j \in DOMAIN s, i < j
               PROVE  s[i].type # s[j].type
    BY <1>8
  <2>0. \A n \in DOMAIN list : list[n].type # type
    BY DEF Has
  <2>1. CASE j < at
    BY <1>1, <1>s, <1>4, <1>7, <1>8, <2>1
  <2>2. CASE j = at
    BY <1>1, <1>4, <1>6, <1>7, <1>8, <2>0, <2>2
  <2>3. CASE j > at /\ i < at
    <3>1. i \in DOMAIN list /\ j - 1 \in DOMAIN list /\ i # j - 1
      BY <1>1, <1>4, <1>8, <2>3
    <3>2. s[i] = list[i] /\ s[j] = list[j - 1]
      BY <1>7, <1>8, <2>3
    <3> QED BY <1>s, <3>1, <3>2
  <2>4. CASE j > at /\ i = at
    BY <1>1, <1>4, <1>6, <1>7, <1>8, <2>0, <2>4
  <2>5. CASE j > at /\ i > at
    <3>1. i - 1 \in DOMAIN list /\ j - 1 \in DOMAIN list /\ i - 1 # j - 1
      BY <1>1, <1>4, <1>8, <2>5
    <3>2. s[i] = list[i - 1] /\ s[j] = list[j - 1]
      BY <1>7, <1>8, <2>5
    <3> QED BY <1>s, <3>1, <3>2
  <2> QED BY <1>4, <1>8, <2>1, <2>2, <2>3, <2>4, <2>5
<1>11. ASSUME NEW i \in DOMAIN s PROVE s[i].left >= 0 /\ (i > due => s[i].left > 0)
  <2>1. CASE i < at
    BY <1>1, <1>7, <1>8, <2>1 DEF ListOK
  <2>2. CASE i = at
    BY <1>6, <1>7, <2>2
  <2>3. CASE i > at
    BY <1>1, <1>2, <1>4, <1>7, <1>8, <2>3
  <2> QED BY <1>4, <1>8, <2>1, <2>2, <2>3
<1>12. ASSUME NEW t PROVE Has(s, t) <=> t = type \/ Has(list, t)
  <2>1. ASSUME Has(s, t) PROVE t = type \/ Has(list, t)
    BY <1>4, <1>6, <1>7, <1>8, <2>1 DEF Has
  <2>2. Has(s, type)
    BY <1>4, <1>6, <1>7, <1>8 DEF Has
  <2>3. ASSUME Has(list, t) PROVE Has(s, t)
    <3>1. PICK n \in DOMAIN list : list[n].type = t
      BY <2>3 DEF Has
    <3>2. CASE n < at
      BY <1>1, <1>7, <1>8, <3>1, <3>2 DEF Has
    <3>3. CASE n >= at
      <4>1. n + 1 \in DOMAIN s /\ n + 1 > at /\ (n + 1) - 1 = n
        BY <1>1, <1>4, <1>8, <3>3
      <4>2. s[n + 1] = list[n]
        BY <1>7, <1>8, <4>1
      <4> QED BY <3>1, <4>1, <4>2 DEF Has
    <3> QED BY <1>1, <1>4, <3>2, <3>3
  <2> QED BY <2>1, <2>2, <2>3
<1> QED BY <1>8, <1>9, <1>10, <1>11, <1>12 DEF ListOK, s

\* The first interrupt leaves the list.
LEMMA FirstInterrupt ==
  ASSUME NEW list, NEW due \in Nat \ {0}, ListOK(list, due), list # << >>
  PROVE  /\ Head(list).type \in Types /\ Head(list).left \in Int /\ Head(list).left >= 0
         /\ Has(list, Head(list).type)
         /\ Head(list).left > 0 => ListOK(list, due - 1)
         /\ ListOK(Tail(list), due - 1)
         /\ \A t : Has(Tail(list), t) <=> Has(list, t) /\ t # Head(list).type
<1> DEFINE rest == Tail(list)
           len == Len(list)
<1>1. /\ list \in Seq(Interrupt) /\ len \in Nat \ {0} /\ DOMAIN list = 1 .. len
      /\ Head(list) = list[1] /\ rest \in Seq(Interrupt) /\ DOMAIN rest = 1 .. len - 1
      /\ \A i \in 1 .. len - 1 : rest[i] = list[i + 1]
  <2>1. list \in Seq(Interrupt)
    BY DEF ListOK
  <2> QED BY <2>1, HeadTailProperties, LenProperties, EmptySeq
<1>2. \A i \in 1 .. len : list[i] \in Interrupt
  BY <1>1, ElementOfSeq
<1>3. \A i \in 1 .. len : list[i].left \in Int /\ list[i].type \in Types
  BY <1>2 DEF Interrupt
<1>s. /\ \A i, j \in 1 .. len : i <= j => list[i].left <= list[j].left
      /\ \A i, j \in 1 .. len : list[i].type = list[j].type => i = j
      /\ \A i \in 1 .. len : list[i].left >= 0 /\ (i > due => list[i].left > 0)
  BY <1>1 DEF ListOK
<1> HIDE DEF rest, len
<1>4. 1 \in 1 .. len /\ \A i \in 1 .. len - 1 : i + 1 \in 1 .. len
  BY <1>1
<1>5. ASSUME Head(list).left > 0 PROVE ListOK(list, due - 1)
  <2>1. \A i \in 1 .. len : list[i].left > 0
    BY <1>1, <1>3, <1>s, <1>4, <1>5
  <2> QED BY <1>1, <1>s, <2>1 DEF ListOK
<1>6. ListOK(rest, due - 1)
  <2>1. \A i, j \in 1 .. len - 1 : i <= j => rest[i].left <= rest[j].left
    BY <1>1, <1>s, <1>4
  <2>2. \A i, j \in 1 .. len - 1 : rest[i].type = rest[j].type => i = j
    BY <1>1, <1>s, <1>4
  <2>3. \A i \in 1 .. len - 1 : rest[i].left >= 0 /\ (i > due - 1 => rest[i].left > 0)
    BY <1>1, <1>s, <1>4
  <2> QED BY <1>1, <2>1, <2>2, <2>3 DEF ListOK
<1>7. ASSUME NEW t PROVE Has(rest, t) <=> Has(list, t) /\ t # Head(list).type
  <2>1. ASSUME Has(rest, t) PROVE Has(list, t) /\ t # Head(list).type
    <3>1. PICK i \in 1 .. len - 1 : rest[i].type = t
      BY <1>1, <2>1 DEF Has
    <3>2. i + 1 \in 1 .. len /\ list[i + 1].type = t /\ i + 1 # 1
      BY <1>1, <1>4, <3>1
    <3>3. list[1].type # t
      BY <1>s, <1>4, <3>2
    <3>4. Has(list, t)
      BY Zenon, <1>1, <3>2 DEF Has
    <3> QED BY <1>1, <3>3, <3>4
  <2>2. ASSUME Has(list, t), t # Head(list).type PROVE Has(rest, t)
    <3>1. PICK i \in 1 .. len : list[i].type = t
      BY <1>1, <2>2 DEF Has
    <3>2. i - 1 \in 1 .. len - 1 /\ rest[i - 1] = list[i]
      BY <1>1, <2>2, <3>1
    <3> QED BY <1>1, <3>1, <3>2 DEF Has
  <2> QED BY <2>1, <2>2
<1>8. Has(list, Head(list).type)
  BY <1>1, <1>4 DEF Has
<1> QED BY <1>1, <1>3, <1>s, <1>4, <1>5, <1>6, <1>7, <1>8 DEF rest

\* The clock goes on, to the first interrupt at most.
LEMMA LaterList ==
  ASSUME NEW list, ListOK(list, 0), list # << >>,
         NEW ticks \in Nat, ticks <= Head(list).left
  PROVE  /\ ListOK(Later(list, ticks), Len(list)) /\ Len(Later(list, ticks)) = Len(list)
         /\ \A t : Has(Later(list, ticks), t) <=> Has(list, t)
<1> DEFINE new == Later(list, ticks)
           len == Len(list)
<1>1. /\ list \in Seq(Interrupt) /\ len \in Nat \ {0} /\ DOMAIN list = 1 .. len
      /\ Head(list) = list[1]
  <2>1. list \in Seq(Interrupt)
    BY DEF ListOK
  <2> QED BY <2>1, HeadTailProperties, LenProperties, EmptySeq
<1>2. \A i \in 1 .. len : list[i] \in Interrupt
  BY <1>1, ElementOfSeq
<1>s. /\ \A i, j \in 1 .. len : i <= j => list[i].left <= list[j].left
      /\ \A i, j \in 1 .. len : list[i].type = list[j].type => i = j
  BY <1>1 DEF ListOK
<1>3. new = [n \in 1 .. len |-> [list[n] EXCEPT !.left = @ - ticks]]
  BY <1>1 DEF Later
<1> HIDE DEF new, len
<1>4. ASSUME NEW i \in 1 .. len
      PROVE  /\ new[i] \in Interrupt /\ new[i].type = list[i].type
             /\ new[i].left = list[i].left - ticks /\ list[i].left \in Int
  <2>1. new[i] = [list[i] EXCEPT !.left = list[i].left - ticks] /\ list[i] \in Interrupt
    BY <1>2, <1>3
  <2>2. list[i].left \in Int /\ list[i].left - ticks \in Int
    BY <2>1 DEF Interrupt
  <2> QED BY <2>1, <2>2 DEF Interrupt
<1>5. new \in Seq(Interrupt) /\ Len(new) = len /\ DOMAIN new = 1 .. len
  <2>1. new = [n \in 1 .. len |-> new[n]]
    BY <1>3
  <2> QED BY <1>1, <1>4, <2>1
<1>6. ASSUME NEW i \in 1 .. len PROVE new[i].left >= 0
  <2>1. 1 \in 1 .. len /\ 1 <= i
    BY <1>1
  <2>2. list[1].left <= list[i].left
    BY <1>s, <2>1
  <2> QED BY <1>1, <1>4, <2>1, <2>2
<1>7. \A i, j \in 1 .. len : i <= j => new[i].left <= new[j].left
  BY <1>s, <1>4
<1>8. \A i, j \in 1 .. len : new[i].type = new[j].type => i = j
  BY <1>s, <1>4
<1>9. \A i \in 1 .. len : ~(i > len)
  BY <1>1
<1>10. ListOK(new, len)
  BY <1>5, <1>6, <1>7, <1>8, <1>9 DEF ListOK
<1>11. \A t : Has(new, t) <=> Has(list, t)
  BY <1>1, <1>4, <1>5 DEF Has
<1> QED BY <1>5, <1>10, <1>11 DEF new, len

-----------------------------------------------------------------------------
(* Threads *)

\* The fields of a CPU.
LEMMA CPUFields ==
  ASSUME NEW c \in CPU
  PROVE  /\ c.current \in Process \cup {NoProcess} /\ c.ready \in Seq(Process)
         /\ c.status \in {"IdleMode", "SystemMode", "UserMode"}
         /\ c.oldStatus \in [Process -> {"none", "SystemMode", "UserMode"}]
         /\ Range(c.ready) \subseteq Process
<1>1. /\ c.current \in Current /\ c.ready \in Threads /\ c.status \in Statuses
      /\ c.oldStatus \in OldStatuses
  BY DEF CPU
<1>2. Range(c.ready) \subseteq Process
  BY <1>1, ElementOfSeq, LenProperties DEF Range, Threads
<1> QED BY Zenon, <1>1, <1>2 DEF Current, Threads, Statuses, OldStatuses

\* The values that Dispatch, Wake and the handlers give a CPU.
LEMMA CPUIdle ==
  ASSUME NEW c \in CPU, NEW d, d = [c EXCEPT !.current = NoProcess, !.status = "IdleMode"]
  PROVE  /\ d \in CPU /\ d.current = NoProcess /\ d.ready = c.ready
         /\ d.status = "IdleMode" /\ d.oldStatus = c.oldStatus
<1>1. NoProcess \in Current /\ "IdleMode" \in Statuses
  BY Zenon DEF Current, Statuses
<1> QED BY Zenon, <1>1 DEF CPU

LEMMA CPUReady ==
  ASSUME NEW c \in CPU, NEW p \in Process, Append(c.ready, p) \in Seq(Process),
         NEW d, d = [c EXCEPT !.ready = Append(@, p)]
  PROVE  /\ d \in CPU /\ d.current = c.current /\ d.ready = Append(c.ready, p)
         /\ d.status = c.status /\ d.oldStatus = c.oldStatus
<1> DEFINE ready == Append(c.ready, p)
<1>1. ready \in Threads /\ d = [c EXCEPT !.ready = ready]
  BY Zenon DEF Threads
<1> HIDE DEF ready
<1>2. d \in CPU /\ d.current = c.current /\ d.ready = ready
      /\ d.status = c.status /\ d.oldStatus = c.oldStatus
  BY Zenon, <1>1 DEF CPU
<1> QED BY <1>2 DEF ready

LEMMA CPUStatus ==
  ASSUME NEW c \in CPU, NEW s \in {"SystemMode", "UserMode"},
         NEW d, d = [c EXCEPT !.status = s]
  PROVE  /\ d \in CPU /\ d.current = c.current /\ d.ready = c.ready
         /\ d.status = s /\ d.oldStatus = c.oldStatus
<1>1. s \in Statuses
  BY DEF Statuses
<1> QED BY Zenon, <1>1 DEF CPU

\* Dispatch runs the first ready thread with the status it had; a thread that was
\* neither ready nor had yielded is off the processor.
LEMMA DispatchReady ==
  ASSUME NEW c \in CPU, NEW t \in [Process -> Task], ReadyOK(c, t)
  PROVE  /\ Dispatch(c) \in CPU /\ RunOK(Dispatch(c), t)
         /\ \A p \in Process : p \notin Range(c.ready) => Off(p, Dispatch(c))
         /\ \A q, at : (/\ IsInjective(q) /\ Range(q) \subseteq Process
                        /\ \A p \in Range(q) : t[p].pc = at /\ p \notin Range(c.ready))
                       => QueueOK(q, at, Dispatch(c), t)
<1> DEFINE d == Dispatch(c)
<1>c. /\ c.ready \in Seq(Process) /\ Range(c.ready) \subseteq Process
      /\ c.oldStatus \in [Process -> {"none", "SystemMode", "UserMode"}]
  BY CPUFields
<1>1. CASE c.ready = << >>
  <2>d. d = [c EXCEPT !.current = NoProcess, !.status = "IdleMode"]
    BY Zenon, <1>1 DEF Dispatch
  <2> HIDE DEF d
  <2>1. /\ d \in CPU /\ d.current = NoProcess /\ d.ready = c.ready
        /\ d.status = "IdleMode" /\ d.oldStatus = c.oldStatus
    BY Zenon, <2>d, CPUIdle
  <2>2. Range(c.ready) = {}
    BY <1>1 DEF Range
  <2>3. ReadyOK(d, t)
    BY <2>1 DEF ReadyOK
  <2>4. RunOK(d, t)
    BY <2>1, <2>2, <2>3 DEF RunOK
  <2>5. \A p \in Process : Off(p, d)
    BY <2>1, <2>2, SystemCallsAssumption DEF Off
  <2>6. \A q, at : (/\ IsInjective(q) /\ Range(q) \subseteq Process
                    /\ \A p \in Range(q) : t[p].pc = at /\ p \notin Range(c.ready))
                   => QueueOK(q, at, d, t)
    BY <2>5 DEF QueueOK
  <2> QED BY Zenon, <2>1, <2>4, <2>5, <2>6 DEF d
<1>2. CASE c.ready # << >>
  <2> DEFINE p == Head(c.ready)
             new == IF c.oldStatus[p] = "none" THEN "SystemMode" ELSE c.oldStatus[p]
             rest == Tail(c.ready)
             old == [c.oldStatus EXCEPT ![p] = "none"]
  <2>1. /\ p \in Process /\ p \in Range(c.ready) /\ Tail(c.ready) \in Seq(Process)
        /\ Range(Tail(c.ready)) = Range(c.ready) \ {p} /\ IsInjective(Tail(c.ready))
    <3>1. IsInjective(c.ready)
      BY DEF ReadyOK
    <3> QED BY Zenon, <1>c, <1>2, <3>1, RemoveFrontList
  <2>d. d = [c EXCEPT !.current = p, !.ready = rest, !.oldStatus = old, !.status = new]
    BY <1>2 DEF Dispatch, CPU
  <2>n. new \in {"SystemMode", "UserMode"}
    BY <1>c, <2>1
  <2>o. p \in Current /\ rest \in Threads /\ old \in OldStatuses /\ new \in Statuses
    BY <1>c, <2>n, <2>1 DEF Current, Threads, OldStatuses, Statuses
  <2>r. rest = Tail(c.ready) /\ old = [c.oldStatus EXCEPT ![p] = "none"]
    OBVIOUS
  <2> HIDE DEF p, new, d, rest, old
  <2>4. d \in CPU /\ d.current = p /\ d.ready = rest /\ d.status = new /\ d.oldStatus = old
    BY Zenon, <2>d, <2>o DEF CPU
  <2>2. /\ d.current = p /\ d.ready = Tail(c.ready) /\ d.status = new
        /\ d.oldStatus = [c.oldStatus EXCEPT ![p] = "none"]
    BY <2>4, <2>r
  <2>3. /\ d.status \in {"SystemMode", "UserMode"}
        /\ d.oldStatus \in [Process -> {"none", "SystemMode", "UserMode"}]
        /\ d.oldStatus[p] = "none" /\ \A q \in Process \ {p} : d.oldStatus[q] = c.oldStatus[q]
    BY <1>c, <2>n, <2>1, <2>2
  <2>5. /\ t[p].pc \notin {"none", "done"} /\ p # NoProcess
        /\ c.oldStatus[p] = "UserMode" <=> t[p].pc = "user"
    BY <2>1, SystemCallsAssumption DEF ReadyOK
  <2>6. ReadyOK(d, t)
    BY <1>c, <2>1, <2>2, <2>3 DEF ReadyOK
  <2>7. d.status = IF t[p].pc = "user" THEN "UserMode" ELSE "SystemMode"
    BY <1>c, <2>1, <2>2, <2>5 DEF new
  <2>8. RunOK(d, t)
    BY <2>1, <2>2, <2>5, <2>6, <2>7 DEF RunOK
  <2>9. \A q \in Process : q \notin Range(c.ready) => Off(q, d)
    BY <2>1, <2>2 DEF Off
  <2>10. \A q, at : (/\ IsInjective(q) /\ Range(q) \subseteq Process
                     /\ \A r \in Range(q) : t[r].pc = at /\ r \notin Range(c.ready))
                    => QueueOK(q, at, d, t)
    BY <2>9 DEF QueueOK
  <2> QED BY Zenon, <2>4, <2>8, <2>9, <2>10 DEF d
<1> QED BY <1>1, <1>2

\* V wakes the thread that waited longest, and disturbs no queue of another place.
Sleeps == {"lockIn", "waitIn", "lockOut", "waitOut", "wait"}
LEMMA WakeFirst ==
  ASSUME NEW c \in CPU, NEW t \in [Process -> Task], RunOK(c, t),
         NEW s, s.queue \in Seq(Process), NEW at \in Sleeps, QueueOK(s.queue, at, c, t)
  PROVE  /\ Wake(c, s) \in CPU /\ RunOK(Wake(c, s), t)
         /\ Wake(c, s).current = c.current /\ Wake(c, s).status = c.status
         /\ Wake(c, s).oldStatus = c.oldStatus
         /\ Give(s).queue \in Seq(Process) /\ QueueOK(Give(s).queue, at, Wake(c, s), t)
         /\ Range(Give(s).queue) \subseteq Range(s.queue)
         /\ \A q, a : QueueOK(q, a, c, t) /\ (a # at \/ Range(q) \cap Range(s.queue) = {})
                      => QueueOK(q, a, Wake(c, s), t)
<1>g. Give(s).queue = IF s.queue = << >> THEN << >> ELSE Tail(s.queue)
  BY DEF Give
<1>1. CASE s.queue = << >>
  <2>1. Wake(c, s) = c /\ Give(s).queue = s.queue
    BY <1>g, <1>1 DEF Wake
  <2> QED BY Zenon, <2>1
<1>2. CASE s.queue # << >>
  <2> DEFINE h == Head(s.queue)
             d == Wake(c, s)
             rest == Tail(s.queue)
  <2>c. /\ c.ready \in Seq(Process) /\ Range(c.ready) \subseteq Process
        /\ c.oldStatus \in [Process -> {"none", "SystemMode", "UserMode"}]
    BY CPUFields
  <2>1. /\ h \in Process /\ h \in Range(s.queue) /\ rest \in Seq(Process)
        /\ Range(rest) = Range(s.queue) \ {h} /\ IsInjective(rest)
    <3>1. IsInjective(s.queue)
      BY DEF QueueOK
    <3> QED BY Zenon, <1>2, <3>1, RemoveFrontList
  <2>2. t[h].pc = at /\ h # c.current /\ h \notin Range(c.ready) /\ c.oldStatus[h] = "none"
    BY <2>1 DEF QueueOK, Off, RunOK, ReadyOK
  <2>4. Give(s).queue = rest
    BY <1>g, <1>2
  <2>d. d = [c EXCEPT !.ready = Append(@, h)]
    BY Zenon, <1>2 DEF Wake
  <2> HIDE DEF h, d, rest
  <2>5. /\ Append(c.ready, h) \in Seq(Process)
        /\ Range(Append(c.ready, h)) = Range(c.ready) \cup {h}
        /\ IsInjective(Append(c.ready, h))
    <3>1. IsInjective(c.ready)
      BY DEF RunOK, ReadyOK
    <3> QED BY <2>c, <2>1, <2>2, <3>1, AppendList
  <2>3. /\ d \in CPU /\ d.current = c.current /\ d.ready = Append(c.ready, h)
        /\ d.status = c.status /\ d.oldStatus = c.oldStatus
    BY Zenon, <2>d, <2>1, <2>5, CPUReady
  <2>7. ReadyOK(d, t)
    BY <2>2, <2>3, <2>5 DEF RunOK, ReadyOK, Sleeps
  <2>8. RunOK(d, t)
    BY <2>2, <2>3, <2>5, <2>7 DEF RunOK
  <2>9. ASSUME NEW q, NEW a, QueueOK(q, a, c, t), a # at \/ h \notin Range(q)
        PROVE  QueueOK(q, a, d, t)
    BY <2>2, <2>3, <2>5, <2>9 DEF QueueOK, Off
  <2>10. QueueOK(rest, at, c, t)
    BY <2>1 DEF QueueOK
  <2>11. QueueOK(rest, at, d, t)
    BY <2>1, <2>9, <2>10
  <2>12. \A q, a : QueueOK(q, a, c, t) /\ (a # at \/ Range(q) \cap Range(s.queue) = {})
                   => QueueOK(q, a, d, t)
    BY Zenon, <2>1, <2>9
  <2>13. Range(rest) \subseteq Range(s.queue)
    BY <2>1
  <2> QED BY Zenon, <2>1, <2>3, <2>4, <2>8, <2>11, <2>12, <2>13 DEF d
<1> QED BY <1>1, <1>2

-----------------------------------------------------------------------------
(* CheckIfDue *)

Interrupts == Seq(Interrupt)
Mach == [pending : Interrupts, console : Console, cpu : CPU, yield : BOOLEAN]

\* The machine in the middle of CheckIfDue, when due interrupts at most are due.
Turn(m, due) ==
    /\ m \in Mach /\ ListOK(m.pending, due) /\ Has(m.pending, "TimerInt")
    /\ InputOK(m.pending, m.console, history) /\ OutputOK(m.pending, m.console, task)
    /\ RunOK(m.cpu, task) /\ ConsoleQueuesOK(m.console, m.cpu, task)
    /\ SemQueuesOK(semTab, m.cpu, task)
    /\ m.cpu.current = cpu.current /\ m.cpu.status = cpu.status

\* The fields of the console.
LEMMA ConsoleFields ==
  ASSUME NEW con \in Console
  PROVE  /\ con.incoming \in Read /\ con.input \in Input
         /\ con.closed \in BOOLEAN /\ con.putBusy \in BOOLEAN
         /\ con.inLock \in Sem /\ con.inSem \in Sem /\ con.outLock \in Sem /\ con.outSem \in Sem
BY Zenon DEF Console

LEMMA SemFields ==
  ASSUME NEW s \in Sem
  PROVE  s.value \in Nat /\ s.queue \in Seq(Process)
BY DEF Sem, Threads

\* V keeps a semaphore a semaphore.
LEMMA GiveSem ==
  ASSUME NEW s \in Sem
  PROVE  Give(s) \in Sem /\ Give(s).value = s.value + 1
<1> DEFINE q == IF s.queue = << >> THEN << >> ELSE Tail(s.queue)
           v == s.value + 1
<1>1. s.value \in Nat /\ s.queue \in Seq(Process)
  BY SemFields
<1>2. v \in Nat
  BY <1>1
<1>3. q \in Threads
  <2>1. s.queue # << >> => Tail(s.queue) \in Seq(Process)
    BY <1>1, HeadTailProperties
  <2>2. << >> \in Seq(Process)
    BY EmptySeq
  <2> QED BY Zenon, <2>1, <2>2 DEF Threads
<1>4. Give(s) = [value |-> v, queue |-> q]
  BY Zenon DEF Give
<1> HIDE DEF q, v
<1>5. Give(s) \in Sem /\ Give(s).value = v
  BY <1>2, <1>3, <1>4 DEF Sem
<1> QED BY <1>5 DEF v

\* A callback of the console gives a semaphore, and wakes a thread that waits there.
LEMMA ToldTurn ==
  ASSUME NEW c \in CPU, NEW con \in Console, task \in [Process -> Task],
         RunOK(c, task), ConsoleQueuesOK(con, c, task), SemQueuesOK(semTab, c, task),
         NEW s, NEW at, \/ s = con.inSem /\ at = "waitIn"
                        \/ s = con.outSem /\ at = "waitOut"
  PROVE  /\ Wake(c, s) \in CPU /\ RunOK(Wake(c, s), task)
         /\ Wake(c, s).current = c.current /\ Wake(c, s).status = c.status
         /\ SemQueuesOK(semTab, Wake(c, s), task)
         /\ QueueOK(con.inLock.queue, "lockIn", Wake(c, s), task)
         /\ QueueOK(con.outLock.queue, "lockOut", Wake(c, s), task)
         /\ QueueOK(Give(s).queue, at, Wake(c, s), task)
         /\ at # "waitIn" => QueueOK(con.inSem.queue, "waitIn", Wake(c, s), task)
         /\ at # "waitOut" => QueueOK(con.outSem.queue, "waitOut", Wake(c, s), task)
<1> DEFINE d == Wake(c, s)
<1>1. s.queue \in Seq(Process) /\ at \in Sleeps /\ QueueOK(s.queue, at, c, task)
      /\ at # "wait" /\ at # "lockIn" /\ at # "lockOut"
  BY ConsoleFields, SemFields DEF ConsoleQueuesOK, Sleeps
<1>2. /\ d \in CPU /\ RunOK(d, task) /\ d.current = c.current /\ d.status = c.status
      /\ QueueOK(Give(s).queue, at, d, task)
      /\ \A q, a : QueueOK(q, a, c, task) /\ a # at => QueueOK(q, a, d, task)
  BY Zenon, <1>1, WakeFirst
<1> HIDE DEF d
<1>3. SemQueuesOK(semTab, d, task)
  BY Zenon, <1>1, <1>2 DEF SemQueuesOK
<1>4. /\ QueueOK(con.inLock.queue, "lockIn", d, task)
      /\ QueueOK(con.outLock.queue, "lockOut", d, task)
      /\ at # "waitIn" => QueueOK(con.inSem.queue, "waitIn", d, task)
      /\ at # "waitOut" => QueueOK(con.outSem.queue, "waitOut", d, task)
  BY Zenon, <1>1, <1>2 DEF ConsoleQueuesOK
<1> QED BY Zenon, <1>2, <1>3, <1>4 DEF d

\* ConsoleOutput::CallBack
LEMMA WriteTurn ==
  ASSUME NEW m, NEW due, Turn(m, due), NEW rest, rest \in Mach,
         rest.console = m.console, rest.cpu = m.cpu, task \in [Process -> Task],
         ListOK(rest.pending, due - 1), Has(m.pending, "ConsoleWriteInt"),
         \A t : Has(rest.pending, t) <=> Has(m.pending, t) /\ t # "ConsoleWriteInt"
  PROVE  Turn(WriteCallBack(rest), due - 1)
<1> DEFINE con == m.console
           c == m.cpu
           new == WriteCallBack(rest)
           s == con.outSem
           con2 == [con EXCEPT !.putBusy = FALSE, !.outSem = Give(s)]
           d == Wake(c, s)
<1>1. con \in Console /\ c \in CPU
  BY Zenon DEF Turn, Mach
<1>2. con.putBusy \in BOOLEAN /\ s \in Sem /\ s.value \in Nat
      /\ con.inSem \in Sem /\ con.outLock \in Sem
  BY <1>1, ConsoleFields, SemFields
<1>3. Give(s) \in Sem /\ Give(s).value = s.value + 1
  BY <1>2, GiveSem
<1>4. /\ d \in CPU /\ RunOK(d, task) /\ d.current = c.current /\ d.status = c.status
      /\ SemQueuesOK(semTab, d, task)
      /\ QueueOK(con.inLock.queue, "lockIn", d, task)
      /\ QueueOK(con.outLock.queue, "lockOut", d, task)
      /\ QueueOK(Give(s).queue, "waitOut", d, task)
      /\ QueueOK(con.inSem.queue, "waitIn", d, task)
  <2>1. RunOK(c, task) /\ ConsoleQueuesOK(con, c, task) /\ SemQueuesOK(semTab, c, task)
    BY Zenon DEF Turn
  <2>2. "waitOut" # "waitIn"
    OBVIOUS
  <2> QED BY Zenon, <1>1, <2>1, <2>2, ToldTurn
<1>5. new = [rest EXCEPT !.console = con2, !.cpu = d]
  BY Zenon DEF WriteCallBack
<1> DEFINE gs == Give(s)
<1>6. /\ con2 \in Console /\ con2.putBusy = FALSE /\ con2.outSem = gs
      /\ con2.inLock = con.inLock /\ con2.inSem = con.inSem /\ con2.outLock = con.outLock
      /\ con2.incoming = con.incoming /\ con2.input = con.input
  <2> HIDE DEF gs
  <2>1. con2 = [con EXCEPT !.putBusy = FALSE, !.outSem = gs] /\ gs \in Sem
    BY Zenon, <1>3 DEF gs
  <2> HIDE DEF con2
  <2> QED BY Zenon, <1>1, <2>1 DEF Console
<1> HIDE DEF new, con2, d, c, con, s, gs
<1>7. /\ new \in Mach /\ new.console = con2 /\ new.cpu = d /\ new.pending = rest.pending
  BY Zenon, <1>4, <1>5, <1>6 DEF Mach
<1>8. InputOK(m.pending, con, history) /\ OutputOK(m.pending, con, task)
  BY Zenon DEF Turn, con
<1>9. InputOK(new.pending, con2, history)
  BY Zenon, <1>6, <1>7, <1>8 DEF InputOK
<1>10. con.putBusy /\ s.value = 0 /\ con.outLock.value # 1
  BY <1>8 DEF OutputOK, s
<1>11. gs.value = 1
  BY <1>3, <1>10 DEF gs
<1>12. OutputOK(new.pending, con2, task)
  BY <1>6, <1>7, <1>8, <1>10, <1>11 DEF OutputOK
<1>13. ConsoleQueuesOK(con2, d, task)
  BY Zenon, <1>4, <1>6 DEF ConsoleQueuesOK, gs
<1>14. /\ ListOK(new.pending, due - 1) /\ Has(new.pending, "TimerInt")
       /\ d.current = cpu.current /\ d.status = cpu.status
  BY <1>4, <1>7 DEF Turn, c
<1> QED BY <1>4, <1>7, <1>9, <1>12, <1>13, <1>14 DEF Turn, new

\* ConsoleInput::CallBack
LEMMA ReadTurn ==
  ASSUME NEW m, NEW due \in Nat \ {0}, Turn(m, due), NEW rest, rest \in Mach,
         rest.console = m.console, rest.cpu = m.cpu, task \in [Process -> Task], HistoryOK,
         ListOK(rest.pending, due - 1), Has(m.pending, "ConsoleReadInt"),
         \A t : Has(rest.pending, t) <=> Has(m.pending, t) /\ t # "ConsoleReadInt",
         NEW available \in BOOLEAN
  PROVE  Turn(ReadCallBack(rest, available), due - 1)
<1> DEFINE con == m.console
           c == m.cpu
           s == con.inSem
           new == ReadCallBack(rest, available)
           d == Wake(c, s)
           gs == Give(s)
           told == [con EXCEPT !.inSem = gs]
<1>1. con \in Console /\ c \in CPU
  BY Zenon DEF Turn, Mach
<1>2. /\ s \in Sem /\ s.value \in Nat /\ con.input \in Seq(Character)
      /\ con.inLock \in Sem /\ con.outLock \in Sem /\ con.outSem \in Sem
  BY <1>1, ConsoleFields, SemFields DEF Input
<1>3. InputOK(m.pending, con, history) /\ OutputOK(m.pending, con, task)
  BY Zenon DEF Turn
<1>4. con.incoming = EOF /\ s.value = 0 /\ history.typed = history.taken \o con.input
  BY Zenon, <1>3 DEF InputOK
<1>5. gs \in Sem /\ gs.value = 1
  BY <1>2, <1>4, GiveSem
<1>r. /\ m.cpu.current = cpu.current /\ m.cpu.status = cpu.status
      /\ RunOK(m.cpu, task) /\ ConsoleQueuesOK(m.console, m.cpu, task)
      /\ SemQueuesOK(semTab, m.cpu, task)
      /\ Has(m.pending, "TimerInt")
  BY Zenon DEF Turn
<1>6. /\ d \in CPU /\ RunOK(d, task) /\ d.current = c.current /\ d.status = c.status
      /\ SemQueuesOK(semTab, d, task)
      /\ QueueOK(con.inLock.queue, "lockIn", d, task)
      /\ QueueOK(con.outLock.queue, "lockOut", d, task)
      /\ QueueOK(gs.queue, "waitIn", d, task)
      /\ QueueOK(con.outSem.queue, "waitOut", d, task)
  <2>1. "waitIn" # "waitOut"
    OBVIOUS
  <2>2. RunOK(c, task) /\ ConsoleQueuesOK(con, c, task) /\ SemQueuesOK(semTab, c, task)
    BY Zenon, <1>r
  <2>3. /\ d \in CPU /\ RunOK(d, task) /\ d.current = c.current /\ d.status = c.status
        /\ SemQueuesOK(semTab, d, task)
        /\ QueueOK(con.inLock.queue, "lockIn", d, task)
        /\ QueueOK(con.outLock.queue, "lockOut", d, task)
        /\ QueueOK(Give(s).queue, "waitIn", d, task)
        /\ QueueOK(con.outSem.queue, "waitOut", d, task)
    BY Zenon, <1>1, <2>1, <2>2, ToldTurn
  <2> QED BY Zenon, <2>3
<1>7. /\ ~available => new = [rest EXCEPT !.pending = Schedule(@, "ConsoleReadInt", ConsoleTime)]
      /\ available /\ con.input = << >> => new = [rest EXCEPT !.console = told, !.cpu = d]
      /\ available /\ con.input # << >>
           => new = [rest EXCEPT !.console = [told EXCEPT !.incoming = Head(con.input),
                                                          !.input = Tail(@)],
                                 !.cpu = d]
  BY Zenon DEF ReadCallBack
<1>8. /\ told \in Console /\ told.inSem = gs /\ told.inLock = con.inLock
      /\ told.outLock = con.outLock /\ told.outSem = con.outSem /\ told.putBusy = con.putBusy
      /\ told.incoming = con.incoming /\ told.input = con.input
  <2> HIDE DEF gs
  <2> QED BY Zenon, <1>1, <1>5 DEF Console
<1>9. CASE ~available
  <2> DEFINE list == Schedule(rest.pending, "ConsoleReadInt", ConsoleTime)
  <2>1. ListOK(list, due - 1) /\ \A t : Has(list, t) <=> Has(m.pending, t)
    <3>1. "ConsoleReadInt" \in Types /\ ~Has(rest.pending, "ConsoleReadInt")
      BY DEF Types
    <3>2. /\ ListOK(list, due - 1)
          /\ \A t : Has(list, t) <=> t = "ConsoleReadInt" \/ Has(rest.pending, t)
      BY Zenon, <3>1, ScheduleInterrupt, SystemCallsAssumption
    <3> QED BY Zenon, <3>2
  <2>2. list \in Interrupts
    BY Zenon, <2>1 DEF ListOK, Interrupts
  <2>3. new = [rest EXCEPT !.pending = list]
    BY Zenon, <1>7, <1>9
  <2> HIDE DEF list, new
  <2>4. new \in Mach /\ new.pending = list /\ new.console = rest.console /\ new.cpu = rest.cpu
    BY Zenon, <2>2, <2>3 DEF Mach
  <2>5. new.console = con /\ new.cpu = m.cpu
    BY Zenon, <2>4
  <2>6. InputOK(list, con, history) /\ OutputOK(list, con, task)
    BY Zenon, <1>3, <2>1 DEF InputOK, OutputOK
  <2> QED BY <1>r, <2>1, <2>4, <2>5, <2>6 DEF Turn, new
<1>10. CASE available
  <2> DEFINE con2 == IF con.input = << >> THEN told
                     ELSE [told EXCEPT !.incoming = Head(con.input), !.input = Tail(con.input)]
  <2>1. new = [rest EXCEPT !.console = con2, !.cpu = d]
    BY Zenon, <1>7, <1>8, <1>10
  <2>2. /\ con2 \in Console /\ con2.inSem = gs /\ con2.inLock = con.inLock
        /\ con2.outLock = con.outLock /\ con2.outSem = con.outSem /\ con2.putBusy = con.putBusy
        /\ con.input = << >> => con2.incoming = EOF /\ con2.input = << >>
        /\ con.input # << >> => con2.incoming = Head(con.input) /\ con2.input = Tail(con.input)
    <3>1. CASE con.input = << >>
      BY Zenon, <1>4, <1>8, <3>1
    <3>2. CASE con.input # << >>
      <4> DEFINE h == Head(con.input)
                 rs == Tail(con.input)
      <4>1. h \in Read /\ rs \in Input
        BY <1>2, <3>2, HeadTailProperties DEF Read, Input
      <4>2. con2 = [told EXCEPT !.incoming = h, !.input = rs]
        BY Zenon, <3>2
      <4> HIDE DEF h, rs, con2, told
      <4>3. /\ con2 \in Console /\ con2.inSem = told.inSem /\ con2.inLock = told.inLock
            /\ con2.outLock = told.outLock /\ con2.outSem = told.outSem
            /\ con2.putBusy = told.putBusy /\ con2.incoming = h /\ con2.input = rs
        BY Zenon, <1>8, <4>1, <4>2 DEF Console
      <4> QED BY <1>8, <3>2, <4>3 DEF h, rs
    <3> QED BY <3>1, <3>2
  <2> HIDE DEF con2, new, d, gs
  <2>3. new \in Mach /\ new.pending = rest.pending /\ new.console = con2 /\ new.cpu = d
    BY Zenon, <1>6, <2>1, <2>2 DEF Mach
  <2>4. \/ con2.incoming = EOF /\ history.typed = history.taken \o con2.input
        \/ history.typed = history.taken \o <<con2.incoming>> \o con2.input
    <3>1. history.taken \in Seq(Character)
      BY Zenon DEF HistoryOK
    <3>2. CASE con.input = << >>
      BY Zenon, <1>4, <2>2, <3>2
    <3>3. CASE con.input # << >>
      <4> DEFINE h == Head(con.input)
      <4>1. h \in Character
        BY <1>2, <3>3, HeadTailProperties
      <4>2. Append(history.taken, h) \o Tail(con.input) = history.taken \o con.input
        BY Zenon, <1>2, <3>1, <3>3, TakeFirst
      <4>3. Append(history.taken, h) = history.taken \o <<h>>
        BY <3>1, <4>1, AppendIsConcat
      <4>4. con2.incoming = h /\ con2.input = Tail(con.input)
        BY Zenon, <2>2, <3>3
      <4> HIDE DEF h
      <4> QED BY Zenon, <1>4, <4>2, <4>3, <4>4
    <3> QED BY Zenon, <3>2, <3>3
  <2>5. InputOK(rest.pending, con2, history)
    <3>1. con2.inSem.value <= 1
      BY <1>5, <2>2
    <3> QED BY Zenon, <2>4, <3>1 DEF InputOK
  <2>6. OutputOK(rest.pending, con2, task)
    BY <1>3, <2>2 DEF OutputOK
  <2>7. ConsoleQueuesOK(con2, d, task)
    BY Zenon, <1>6, <2>2 DEF ConsoleQueuesOK
  <2>8. Has(rest.pending, "TimerInt")
    BY <1>r
  <2> QED BY <1>6, <1>r, <2>3, <2>5, <2>6, <2>7, <2>8 DEF Turn, new
<1> QED BY Zenon, <1>9, <1>10

\* Timer::CallBack and Alarm::CallBack
LEMMA TimerTurn ==
  ASSUME NEW m, NEW due \in Nat \ {0}, Turn(m, due), NEW rest, rest \in Mach,
         rest.console = m.console, rest.cpu = m.cpu,
         ListOK(rest.pending, due - 1), Has(m.pending, "TimerInt"),
         \A t : Has(rest.pending, t) <=> Has(m.pending, t) /\ t # "TimerInt"
  PROVE  Turn(TimerCallBack(rest), due - 1)
<1> DEFINE list == Schedule(rest.pending, "TimerInt", TimerTicks)
           yield == rest.yield \/ rest.cpu.status # "IdleMode"
           new == TimerCallBack(rest)
<1>1. ListOK(list, due - 1) /\ \A t : Has(list, t) <=> Has(m.pending, t)
  <2>1. "TimerInt" \in Types /\ ~Has(rest.pending, "TimerInt")
    BY DEF Types
  <2>2. /\ ListOK(list, due - 1)
        /\ \A t : Has(list, t) <=> t = "TimerInt" \/ Has(rest.pending, t)
    BY Zenon, <2>1, ScheduleInterrupt, SystemCallsAssumption
  <2> QED BY Zenon, <2>2
<1>2. list \in Interrupts /\ yield \in BOOLEAN
  <2>1. list \in Interrupts
    BY Zenon, <1>1 DEF ListOK, Interrupts
  <2> QED BY Zenon, <2>1
<1>3. new = [[rest EXCEPT !.yield = yield] EXCEPT !.pending = list]
  BY DEF TimerCallBack, AlarmCallBack, Mach
<1> HIDE DEF list, new, yield
<1>4. new \in Mach /\ new.pending = list /\ new.console = m.console /\ new.cpu = m.cpu
  BY Zenon, <1>2, <1>3 DEF Mach
<1>5. InputOK(m.pending, m.console, history) /\ OutputOK(m.pending, m.console, task)
  BY Zenon DEF Turn
<1>6. InputOK(list, m.console, history) /\ OutputOK(list, m.console, task)
  BY Zenon, <1>1, <1>5 DEF InputOK, OutputOK
<1> QED BY <1>1, <1>4, <1>6 DEF Turn, new

\* One turn of the loop: what was due is dealt with.
LEMMA FireTurn ==
  ASSUME NEW m, NEW due \in Nat \ {0}, Turn(m, due), task \in [Process -> Task], HistoryOK,
         NEW available \in BOOLEAN
  PROVE  Turn(Fire(m, available), due - 1)
<1> DEFINE first == Head(m.pending)
           rest == [m EXCEPT !.pending = Tail(m.pending)]
<1>1. m \in Mach /\ ListOK(m.pending, due) /\ Has(m.pending, "TimerInt")
  BY Zenon DEF Turn
<1>2. m.pending # << >>
  BY <1>1 DEF Has
<1>3. /\ first.type \in Types /\ first.left \in Int
      /\ Has(m.pending, first.type)
      /\ first.left > 0 => ListOK(m.pending, due - 1)
      /\ ListOK(Tail(m.pending), due - 1)
      /\ \A t : Has(Tail(m.pending), t) <=> Has(m.pending, t) /\ t # first.type
  BY <1>1, <1>2, FirstInterrupt
<1>4. CASE first.left > 0
  <2>1. Fire(m, available) = m
    BY <1>4 DEF Fire
  <2> QED BY Zenon, <1>3, <1>4, <2>1 DEF Turn
<1>5. CASE ~(first.left > 0)
  <2> DEFINE list == Tail(m.pending)
  <2>1. list \in Interrupts
    BY Zenon, <1>3 DEF ListOK, Interrupts
  <2>2. /\ rest \in Mach /\ rest.pending = list /\ rest.console = m.console /\ rest.cpu = m.cpu
    <3> HIDE DEF list
    <3>1. rest = [m EXCEPT !.pending = list]
      BY Zenon DEF list
    <3> HIDE DEF rest
    <3> QED BY Zenon, <1>1, <2>1, <3>1 DEF Mach
  <2>3. ListOK(rest.pending, due - 1)
        /\ \A t : Has(rest.pending, t) <=> Has(m.pending, t) /\ t # first.type
    BY Zenon, <1>3, <2>2
  <2>4. Fire(m, available) = CASE first.type = "ConsoleReadInt" -> ReadCallBack(rest, available)
                               [] first.type = "ConsoleWriteInt" -> WriteCallBack(rest)
                               [] first.type = "TimerInt" -> TimerCallBack(rest)
    BY Zenon, <1>2, <1>5 DEF Fire
  <2> HIDE DEF first, rest
  <2>5. CASE first.type = "ConsoleReadInt"
    <3>1. Fire(m, available) = ReadCallBack(rest, available)
      BY <2>4, <2>5
    <3>2. Has(m.pending, "ConsoleReadInt")
          /\ \A t : Has(rest.pending, t) <=> Has(m.pending, t) /\ t # "ConsoleReadInt"
      BY Zenon, <1>3, <2>3, <2>5
    <3>3. Turn(ReadCallBack(rest, available), due - 1)
      BY Zenon, <2>2, <2>3, <3>2, ReadTurn
    <3> QED BY Zenon, <3>1, <3>3
  <2>6. CASE first.type = "ConsoleWriteInt"
    <3>1. Fire(m, available) = WriteCallBack(rest)
      BY <2>4, <2>6
    <3>2. Has(m.pending, "ConsoleWriteInt")
          /\ \A t : Has(rest.pending, t) <=> Has(m.pending, t) /\ t # "ConsoleWriteInt"
      BY Zenon, <1>3, <2>3, <2>6
    <3>3. Turn(WriteCallBack(rest), due - 1)
      BY Zenon, <2>2, <2>3, <3>2, WriteTurn
    <3> QED BY Zenon, <3>1, <3>3
  <2>7. CASE first.type = "TimerInt"
    <3>1. Fire(m, available) = TimerCallBack(rest)
      BY <2>4, <2>7
    <3>2. Has(m.pending, "TimerInt")
          /\ \A t : Has(rest.pending, t) <=> Has(m.pending, t) /\ t # "TimerInt"
      BY Zenon, <1>3, <2>3, <2>7
    <3>3. Turn(TimerCallBack(rest), due - 1)
      BY Zenon, <2>2, <2>3, <3>2, TimerTurn
    <3> QED BY Zenon, <3>1, <3>3
  <2> QED BY Zenon, <1>3, <2>5, <2>6, <2>7 DEF Types
<1> QED BY Zenon, <1>4, <1>5

\* The loop's turns, as a function: it exists up to every length.
FireOf(f, m, available, len) ==
    f = [n \in 0 .. len |-> IF n = 0 THEN m ELSE Fire(f[n - 1], available)]
LEMMA TurnsExist ==
  ASSUME NEW m, NEW available, NEW len \in Nat
  PROVE  \E f : FireOf(f, m, available, len)
<1> DEFINE Turns(f, l) == f = [n \in 0 .. l |-> IF n = 0 THEN m ELSE Fire(f[n - 1], available)]
           T == {l \in Nat : ~ \E f : Turns(f, l)}
<1>1. ASSUME NEW l \in T, \A k \in T : l <= k PROVE FALSE
  <2>1. l \in Nat /\ ~ \E f : Turns(f, l)
    OBVIOUS
  <2>2. CASE l = 0
    <3> DEFINE g == [n \in 0 .. 0 |-> m]
    <3>1. Turns(g, 0)
      OBVIOUS
    <3> HIDE DEF g, Turns
    <3> QED BY Zenon, <2>1, <2>2, <3>1
  <2>3. CASE l # 0
    <3>1. l - 1 \in Nat /\ l - 1 \notin T
      BY <1>1, <2>1, <2>3
    <3>2. PICK f : Turns(f, l - 1)
      BY Zenon, <3>1
    <3> DEFINE g == [n \in 0 .. l |-> IF n < l THEN f[n] ELSE Fire(f[l - 1], available)]
    <3>3. ASSUME NEW n \in 0 .. l
          PROVE  g[n] = IF n = 0 THEN m ELSE Fire(g[n - 1], available)
      <4>1. CASE n = 0
        BY <2>1, <2>3, <3>2, <4>1
      <4>2. CASE n # 0 /\ n < l
        <5>1. n \in 0 .. l - 1 /\ n - 1 \in 0 .. l /\ n - 1 < l
          BY <2>1, <4>2
        <5>2. g[n] = f[n] /\ g[n - 1] = f[n - 1] /\ f[n] = Fire(f[n - 1], available)
          BY <3>2, <4>2, <5>1
        <5> QED BY Zenon, <4>2, <5>2
      <4>3. CASE n = l
        <5>1. l - 1 \in 0 .. l /\ l - 1 < l /\ ~(l < l) /\ l \in 0 .. l
          BY <2>1, <2>3
        <5>2. g[l] = Fire(f[l - 1], available) /\ g[l - 1] = f[l - 1]
          BY <5>1
        <5> QED BY <2>3, <4>3, <5>2
      <4> QED BY <2>1, <4>1, <4>2, <4>3
    <3>4. g = [n \in 0 .. l |-> g[n]]
      OBVIOUS
    <3> HIDE DEF g
    <3>5. Turns(g, l)
      <4> DEFINE e(n) == IF n = 0 THEN m ELSE Fire(g[n - 1], available)
      <4>1. \A n \in 0 .. l : g[n] = e(n)
        BY Zenon, <3>3
      <4> HIDE DEF e
      <4>2. g = [n \in 0 .. l |-> e(n)]
        BY Zenon, <3>4, <4>1
      <4> QED BY Zenon, <4>2 DEF e
    <3> QED BY Zenon, <2>1, <3>5
  <2> QED BY <2>2, <2>3
<1>2. T = {}
  <2>1. T \subseteq Nat
    OBVIOUS
  <2> HIDE DEF T
  <2> QED BY Zenon, <1>1, <2>1, LeastNatural
<1>3. \E f : Turns(f, len)
  BY Zenon, <1>2
<1> QED BY Zenon, <1>3 DEF FireOf

\* After CheckIfDue no interrupt is due.
LEMMA CheckIfDueTurn ==
  ASSUME NEW m, Turn(m, Len(m.pending)), task \in [Process -> Task], HistoryOK,
         NEW available \in BOOLEAN
  PROVE  Turn(CheckIfDue(m, available), 0)
<1> DEFINE len == Len(m.pending)
           fire == CHOOSE f : FireOf(f, m, available, len)
           T == {n \in 0 .. len : ~ Turn(fire[n], len - n)}
<1>1. len \in Nat
  <2>1. m.pending \in Seq(Interrupt)
    BY Zenon DEF Turn, ListOK
  <2> QED BY <2>1, LenProperties
<1>2. CheckIfDue(m, available) = fire[len]
  BY Zenon DEF CheckIfDue, FireOf
<1>3. fire = [n \in 0 .. len |-> IF n = 0 THEN m ELSE Fire(fire[n - 1], available)]
  <2>1. \E f : FireOf(f, m, available, len)
    <3> HIDE DEF len
    <3> QED BY Zenon, <1>1, TurnsExist
  <2>2. FireOf(fire, m, available, len)
    BY Zenon, <2>1
  <2> HIDE DEF fire
  <2> QED BY Zenon, <2>2 DEF FireOf
<1> HIDE DEF fire
<1>4. ASSUME NEW n \in T, \A k \in T : n <= k PROVE FALSE
  <2>1. n \in 0 .. len /\ ~ Turn(fire[n], len - n)
    OBVIOUS
  <2> HIDE DEF len
  <2>2. CASE n = 0
    <3>1. fire[n] = m /\ len - n = len
      BY <1>1, <1>3, <2>1, <2>2
    <3> QED BY Zenon, <2>1, <3>1 DEF len
  <2>3. CASE n # 0
    <3>1. /\ n - 1 \in 0 .. len /\ len - (n - 1) \in Nat \ {0}
          /\ (len - (n - 1)) - 1 = len - n /\ ~(n <= n - 1)
      BY <1>1, <2>1, <2>3
    <3>2. Turn(fire[n - 1], len - (n - 1))
      BY Zenon, <1>4, <3>1
    <3>3. fire[n] = Fire(fire[n - 1], available)
      <4>1. fire[n] = IF n = 0 THEN m ELSE Fire(fire[n - 1], available)
        BY Zenon, <1>3, <2>1
      <4> QED BY Zenon, <2>3, <4>1
    <3>4. Turn(Fire(fire[n - 1], available), (len - (n - 1)) - 1)
      BY Zenon, <3>1, <3>2, FireTurn
    <3> QED BY Zenon, <2>1, <3>1, <3>3, <3>4
  <2> QED BY <2>2, <2>3
<1>5. T = {}
  <2>1. T \subseteq Nat
    BY <1>1
  <2> HIDE DEF T
  <2> QED BY Zenon, <1>4, <2>1, LeastNatural
<1>6. len \in 0 .. len /\ len - len = 0
  BY <1>1
<1>7. Turn(fire[len], len - len)
  BY Zenon, <1>5, <1>6
<1> QED BY Zenon, <1>2, <1>6, <1>7

-----------------------------------------------------------------------------
(* The clock *)

\* The machine before CheckIfDue, when the clock has gone on.
LEMMA ClockTurn ==
  ASSUME Inv, NEW ticks \in Nat, ticks <= Head(pending).left, NEW available \in Polls
  PROVE  /\ Turn(CheckIfDue(Machine(Later(pending, ticks)), available), 0)
         /\ task \in [Process -> Task]
<1> DEFINE list == Later(pending, ticks)
           m == Machine(list)
<1>1. /\ TypeOK /\ HistoryOK /\ ListOK(pending, 0) /\ Has(pending, "TimerInt")
      /\ InputOK(pending, console, history) /\ OutputOK(pending, console, task)
      /\ RunOK(cpu, task) /\ ConsoleQueuesOK(console, cpu, task) /\ SemQueuesOK(semTab, cpu, task)
  BY Zenon DEF Inv
<1>2. console \in Console /\ cpu \in CPU /\ task \in [Process -> Task]
  BY Zenon, <1>1 DEF TypeOK
<1>3. pending # << >>
  BY <1>1 DEF Has
<1>4. /\ ListOK(list, Len(list)) /\ \A t : Has(list, t) <=> Has(pending, t)
  BY <1>1, <1>3, LaterList
<1>5. list \in Interrupts
  BY Zenon, <1>4 DEF ListOK, Interrupts
<1> HIDE DEF list
<1>6. m \in Mach /\ m.pending = list /\ m.console = console /\ m.cpu = cpu
  BY <1>2, <1>5 DEF Mach, Machine
<1>7. InputOK(list, console, history) /\ OutputOK(list, console, task)
  BY Zenon, <1>1, <1>4 DEF InputOK, OutputOK
<1>8. available \in BOOLEAN
  <2>1. console.closed \in BOOLEAN
    BY Zenon, <1>2, ConsoleFields
  <2> QED BY <2>1 DEF Polls
<1> HIDE DEF m
<1>9. Turn(m, Len(m.pending))
  BY <1>1, <1>4, <1>6, <1>7 DEF Turn
<1>10. Turn(CheckIfDue(m, available), 0)
  BY Zenon, <1>1, <1>2, <1>8, <1>9, CheckIfDueTurn
<1> QED BY Zenon, <1>2, <1>10 DEF m, list

\* The rest of the invariant, for steps of the clock.
LEMMA ClockInv ==
  ASSUME Inv, NEW m, Turn(m, 0), pending' = m.pending, console' = m.console,
         cpu' \in CPU, RunOK(cpu', task), ConsoleQueuesOK(m.console, cpu', task),
         SemQueuesOK(semTab, cpu', task),
         UNCHANGED <<task, script, numberBuffer, host, fileTable, semTab, undefined, history>>
  PROVE  Inv'
<1>1. m.console \in Console
  BY Zenon DEF Turn, Mach
<1>2. TypeOK' /\ FilesOK' /\ HistoryOK' /\ SemsOK' /\ \A p \in Process : CallOK(task'[p])
  BY <1>1 DEF Inv, TypeOK, FilesOK, HistoryOK, SemsOK
<1>3. /\ ListOK(pending', 0) /\ Has(pending', "TimerInt")
      /\ InputOK(pending', console', history') /\ OutputOK(pending', console', task')
  BY Zenon DEF Turn
<1>4. RunOK(cpu', task') /\ ConsoleQueuesOK(console', cpu', task') /\ SemQueuesOK(semTab', cpu', task')
  BY Zenon
<1> QED BY <1>2, <1>3, <1>4 DEF Inv


\* What a step keeps of the queues of the semaphores.
Kept(c, t, d, u) ==
    /\ \A q, at : at \in Sleeps /\ Range(q) \subseteq Process /\ QueueOK(q, at, c, t)
                  => QueueOK(q, at, d, u)
    /\ \A p \in Process : t[p].pc = "wait" /\ Off(p, c) => u[p].k = t[p].k
LEMMA QueuesKept ==
  ASSUME NEW con \in Console, NEW tab \in Seq(Entry), NEW c, NEW d, NEW t, NEW u,
         ConsoleQueuesOK(con, c, t), SemQueuesOK(tab, c, t), Kept(c, t, d, u)
  PROVE  ConsoleQueuesOK(con, d, u) /\ SemQueuesOK(tab, d, u)
<1>1. \A q \in Seq(Process) : Range(q) \subseteq Process
  BY ElementOfSeq, LenProperties DEF Range
<1>k. /\ \A q, at : at \in Sleeps /\ Range(q) \subseteq Process /\ QueueOK(q, at, c, t)
                   => QueueOK(q, at, d, u)
      /\ \A p \in Process : t[p].pc = "wait" /\ Off(p, c) => u[p].k = t[p].k
  BY Zenon DEF Kept
<1>2. ConsoleQueuesOK(con, d, u)
  <2>1. /\ con.inLock.queue \in Seq(Process) /\ con.inSem.queue \in Seq(Process)
        /\ con.outLock.queue \in Seq(Process) /\ con.outSem.queue \in Seq(Process)
    BY Zenon, ConsoleFields, SemFields
  <2> QED BY <1>1, <1>k, <2>1 DEF ConsoleQueuesOK, Sleeps
<1>3. ASSUME NEW k \in DOMAIN tab
      PROVE  QueueOK(tab[k].sem.queue, "wait", d, u)
             /\ \A p \in Range(tab[k].sem.queue) : u[p].k = k
  <2> DEFINE q == tab[k].sem.queue
  <2>1. q \in Seq(Process)
    <3>1. tab[k] \in Entry
      BY ElementOfSeq
    <3> QED BY <3>1 DEF Entry, UserSem, Threads
  <2>2. QueueOK(q, "wait", c, t) /\ \A p \in Range(q) : t[p].k = k
    BY Zenon DEF SemQueuesOK
  <2> HIDE DEF q
  <2>3. QueueOK(q, "wait", d, u)
    BY <1>1, <1>k, <2>1, <2>2 DEF Sleeps
  <2>4. \A p \in Range(q) : u[p].k = k
    BY <1>1, <1>k, <2>1, <2>2 DEF QueueOK
  <2> QED BY <2>3, <2>4 DEF q
<1> QED BY Zenon, <1>2, <1>3 DEF SemQueuesOK

\* Yield in OneTick: the thread goes to the end of the ready list with its status.
LEMMA YieldRun ==
  ASSUME NEW c \in CPU, NEW t \in [Process -> Task], RunOK(c, t), c.current # NoProcess,
         NEW old, old = [c EXCEPT !.oldStatus[c.current] = c.status,
                                  !.ready = Append(@, c.current)]
  PROVE  /\ Dispatch(old) \in CPU /\ RunOK(Dispatch(old), t)
         /\ \A q, at : Range(q) \subseteq Process /\ QueueOK(q, at, c, t)
                       => QueueOK(q, at, Dispatch(old), t)
<1> DEFINE p == c.current
           olds == [c.oldStatus EXCEPT ![p] = c.status]
           ready == Append(c.ready, p)
<1>1. /\ p \in Process /\ c.ready \in Seq(Process) /\ c.status \in {"SystemMode", "UserMode"}
      /\ c.oldStatus \in [Process -> {"none", "SystemMode", "UserMode"}]
  BY CPUFields DEF RunOK
<1>2. /\ ReadyOK(c, t) /\ p \notin Range(c.ready) /\ t[p].pc \notin {"none", "done"}
      /\ c.status = IF t[p].pc = "user" THEN "UserMode" ELSE "SystemMode"
  BY DEF RunOK
<1>3. ready \in Seq(Process) /\ Range(ready) = Range(c.ready) \cup {p} /\ IsInjective(ready)
  BY <1>1, <1>2, AppendList DEF ReadyOK
<1>4. olds \in OldStatuses /\ ready \in Threads /\ old = [c EXCEPT !.oldStatus = olds, !.ready = ready]
  <2>1. olds \in OldStatuses /\ ready \in Threads
    BY <1>1, <1>3 DEF OldStatuses, Threads
  <2>2. old = [c EXCEPT !.oldStatus = olds, !.ready = ready]
    BY DEF CPU
  <2> QED BY <2>1, <2>2
<1>5. olds[p] = c.status /\ \A q \in Process : q # p => olds[q] = c.oldStatus[q]
  BY <1>1
<1> HIDE DEF olds, ready, p
<1>6. old \in CPU /\ old.ready = ready /\ old.oldStatus = olds
  BY Zenon, <1>4 DEF CPU
<1>7. ReadyOK(old, t)
  <2>1. Range(c.ready) \subseteq Process
    BY CPUFields
  <2>2. ASSUME NEW q \in Range(ready)
        PROVE  t[q].pc \notin {"none", "done"} /\ (olds[q] = "UserMode" <=> t[q].pc = "user")
    <3>1. CASE q = p
      BY <1>2, <1>5, <3>1
    <3>2. CASE q # p
      <4>1. q \in Range(c.ready) /\ q \in Process
        BY <1>3, <2>1, <3>2
      <4>2. olds[q] = c.oldStatus[q]
        BY <1>5, <3>2, <4>1
      <4> QED BY <1>2, <4>1, <4>2 DEF ReadyOK
    <3> QED BY <3>1, <3>2
  <2>3. ASSUME NEW q \in Process, q \notin Range(ready) PROVE olds[q] = "none"
    <3>1. q # p /\ q \notin Range(c.ready)
      BY <1>3, <2>3
    <3> QED BY <1>2, <1>5, <3>1 DEF ReadyOK
  <2> QED BY Zenon, <1>3, <1>6, <2>2, <2>3 DEF ReadyOK
<1>8. \A q, at : (Range(q) \subseteq Process /\ QueueOK(q, at, c, t))
                  => (/\ IsInjective(q) /\ Range(q) \subseteq Process
                      /\ \A r \in Range(q) : t[r].pc = at /\ r \notin Range(old.ready))
  <2>1. Range(old.ready) = Range(c.ready) \cup {c.current}
    BY Zenon, <1>3, <1>6 DEF p
  <2> QED BY <2>1 DEF QueueOK, Off
<1> QED BY Zenon, <1>6, <1>7, <1>8, DispatchReady

LEMMA OneTickInv ==
  ASSUME Inv, OneTick
  PROVE  Inv'
<1>1. PICK available \in Polls :
        LET m == CheckIfDue(Machine(Later(pending, 1)), available)
            old == [m.cpu EXCEPT !.oldStatus[cpu.current] = cpu.status,
                                 !.ready = Append(@, cpu.current)]
        IN /\ cpu.current # NoProcess
           /\ pending' = m.pending /\ console' = m.console
           /\ cpu' = IF m.yield /\ m.cpu.ready # << >> THEN Dispatch(old) ELSE m.cpu
           /\ UNCHANGED <<task, script, numberBuffer, host, fileTable, semTab, undefined, history>>
  BY Zenon DEF OneTick
<1> DEFINE m == CheckIfDue(Machine(Later(pending, 1)), available)
           old == [m.cpu EXCEPT !.oldStatus[m.cpu.current] = m.cpu.status,
                                !.ready = Append(@, m.cpu.current)]
<1>2. ListOK(pending, 0) /\ Has(pending, "TimerInt")
  BY Zenon DEF Inv
<1>3. 1 \in Nat /\ 1 <= Head(pending).left
  <2>1. pending \in Seq(Interrupt) /\ 1 \in DOMAIN pending /\ Head(pending) = pending[1]
    <3>1. pending \in Seq(Interrupt) /\ pending # << >>
      BY <1>2 DEF ListOK, Has
    <3> QED BY <3>1, HeadTailProperties, LenProperties, EmptySeq
  <2>2. pending[1].left \in Int
    <3>1. pending[1] \in Interrupt
      BY <2>1, ElementOfSeq
    <3> QED BY <3>1 DEF Interrupt
  <2>3. pending[1].left > 0
    BY <1>2, <2>1 DEF ListOK
  <2> QED BY <2>1, <2>2, <2>3
<1>4. Turn(m, 0) /\ task \in [Process -> Task]
  BY Zenon, <1>3, ClockTurn
<1>5. /\ m.cpu \in CPU /\ m.console \in Console /\ RunOK(m.cpu, task)
      /\ ConsoleQueuesOK(m.console, m.cpu, task) /\ SemQueuesOK(semTab, m.cpu, task)
      /\ m.cpu.current = cpu.current /\ m.cpu.status = cpu.status
  BY Zenon, <1>4 DEF Turn, Mach
<1>6. /\ m.cpu.current # NoProcess /\ pending' = m.pending /\ console' = m.console
      /\ cpu' = Dispatch(old) \/ cpu' = m.cpu
      /\ UNCHANGED <<task, script, numberBuffer, host, fileTable, semTab, undefined, history>>
  <2>1. cpu.current # NoProcess /\ pending' = m.pending /\ console' = m.console
        /\ UNCHANGED <<task, script, numberBuffer, host, fileTable, semTab, undefined, history>>
    BY Zenon, <1>1
  <2>2. cpu' = Dispatch(old) \/ cpu' = m.cpu
    BY Zenon, <1>1, <1>5
  <2> QED BY Zenon, <1>5, <2>1, <2>2
<1>7. semTab \in Seq(Entry)
  BY Zenon DEF Inv, TypeOK
<1> HIDE DEF m
<1>8. CASE cpu' = m.cpu
  BY Zenon, <1>4, <1>5, <1>6, <1>8, ClockInv
<1>9. CASE cpu' = Dispatch(old)
  <2>1. /\ Dispatch(old) \in CPU /\ RunOK(Dispatch(old), task)
        /\ \A q, at : Range(q) \subseteq Process /\ QueueOK(q, at, m.cpu, task)
                      => QueueOK(q, at, Dispatch(old), task)
    BY Zenon, <1>4, <1>5, <1>6, YieldRun
  <2> HIDE DEF old
  <2>2. ConsoleQueuesOK(m.console, Dispatch(old), task) /\ SemQueuesOK(semTab, Dispatch(old), task)
    <3>1. Kept(m.cpu, task, Dispatch(old), task)
      BY Zenon, <2>1 DEF Kept
    <3> QED BY Zenon, <1>5, <1>7, <3>1, QueuesKept
  <2> QED BY Zenon, <1>4, <1>6, <1>9, <2>1, <2>2, ClockInv
<1> QED BY Zenon, <1>6, <1>8, <1>9

LEMMA IdleInv ==
  ASSUME Inv, Idle
  PROVE  Inv'
<1>1. PICK available \in Polls :
        LET m == CheckIfDue(Machine(Later(pending, Head(pending).left)), available)
        IN /\ cpu.current = NoProcess
           /\ pending' = m.pending /\ console' = m.console
           /\ cpu' = Dispatch(m.cpu)
           /\ UNCHANGED <<task, script, numberBuffer, host, fileTable, semTab, undefined, history>>
  BY Zenon DEF Idle
<1> DEFINE ticks == Head(pending).left
           m == CheckIfDue(Machine(Later(pending, ticks)), available)
<1>2. ListOK(pending, 0) /\ Has(pending, "TimerInt")
  BY Zenon DEF Inv
<1>3. ticks \in Nat /\ ticks <= Head(pending).left
  <2>1. pending \in Seq(Interrupt) /\ 1 \in DOMAIN pending /\ Head(pending) = pending[1]
    <3>1. pending \in Seq(Interrupt) /\ pending # << >>
      BY <1>2 DEF ListOK, Has
    <3> QED BY <3>1, HeadTailProperties, LenProperties, EmptySeq
  <2>2. pending[1].left \in Int
    <3>1. pending[1] \in Interrupt
      BY <2>1, ElementOfSeq
    <3> QED BY <3>1 DEF Interrupt
  <2>3. pending[1].left > 0
    BY <1>2, <2>1 DEF ListOK
  <2> QED BY <2>1, <2>2, <2>3
<1>4. Turn(m, 0) /\ task \in [Process -> Task]
  <2> HIDE DEF ticks
  <2>1. ticks <= Head(pending).left
    BY <1>3
  <2> QED BY Zenon, <1>3, <2>1, ClockTurn
<1>5. /\ m.cpu \in CPU /\ m.console \in Console /\ RunOK(m.cpu, task)
      /\ ConsoleQueuesOK(m.console, m.cpu, task) /\ SemQueuesOK(semTab, m.cpu, task)
  BY Zenon, <1>4 DEF Turn, Mach
<1>6. /\ pending' = m.pending /\ console' = m.console /\ cpu' = Dispatch(m.cpu)
      /\ UNCHANGED <<task, script, numberBuffer, host, fileTable, semTab, undefined, history>>
  BY Zenon, <1>1
<1>7. semTab \in Seq(Entry)
  BY Zenon DEF Inv, TypeOK
<1> HIDE DEF m
<1> DEFINE d == Dispatch(m.cpu)
<1>8. /\ d \in CPU /\ RunOK(d, task)
      /\ \A q, at : (/\ IsInjective(q) /\ Range(q) \subseteq Process
                     /\ \A p \in Range(q) : task[p].pc = at /\ p \notin Range(m.cpu.ready))
                    => QueueOK(q, at, d, task)
  BY Zenon, <1>4, <1>5, DispatchReady DEF RunOK
<1> HIDE DEF d
<1>9. \A q, at : Range(q) \subseteq Process /\ QueueOK(q, at, m.cpu, task) => QueueOK(q, at, d, task)
  BY Zenon, <1>8 DEF QueueOK, Off
<1>10. ConsoleQueuesOK(m.console, d, task) /\ SemQueuesOK(semTab, d, task)
  <2>1. Kept(m.cpu, task, d, task)
    BY Zenon, <1>9 DEF Kept
  <2> QED BY Zenon, <1>5, <1>7, <2>1, QueuesKept
<1> QED BY Zenon, <1>4, <1>6, <1>8, <1>10, ClockInv DEF d

-----------------------------------------------------------------------------
(* Steps of the current thread *)

\* The facts of the invariant that the steps of the current thread need.
LEMMA InvFacts ==
  ASSUME Inv
  PROVE  /\ cpu \in CPU /\ console \in Console /\ task \in [Process -> Task]
         /\ semTab \in Seq(Entry) /\ script \in [Process -> Seq(Command)]
         /\ ListOK(pending, 0) /\ Has(pending, "TimerInt")
         /\ InputOK(pending, console, history) /\ OutputOK(pending, console, task)
         /\ RunOK(cpu, task) /\ ConsoleQueuesOK(console, cpu, task)
         /\ SemQueuesOK(semTab, cpu, task) /\ SemsOK
         /\ \A p \in Process : CallOK(task[p])
BY Zenon DEF Inv, TypeOK

\* The fields of a task.
LEMMA TaskFields ==
  ASSUME NEW t \in Task
  PROVE  /\ t.pc \in PCs /\ t.call \in CallType /\ t.ch \in Int /\ t.k \in Nat
         /\ t.chars \in Text /\ t.put \in Text /\ t.heard \in Text
         /\ t.shares \in BOOLEAN /\ t.disturbed \in BOOLEAN
BY Zenon DEF Task

\* The current thread goes on: the ready list and the queues are as they were, as
\* long as no other thread moves.
LEMMA OtherThreads ==
  ASSUME NEW c \in CPU, NEW t, NEW u, RunOK(c, t), NEW d \in CPU,
         d.current = c.current, d.ready = c.ready, d.oldStatus = c.oldStatus,
         \A p \in Process : p # c.current => u[p].pc = t[p].pc
  PROVE  /\ ReadyOK(d, u) /\ d.current \notin Range(d.ready)
         /\ \A q, at : Range(q) \subseteq Process /\ QueueOK(q, at, c, t) => QueueOK(q, at, d, u)
<1>1. Range(c.ready) \subseteq Process /\ ReadyOK(c, t) /\ c.current \notin Range(c.ready)
  BY CPUFields DEF RunOK
<1>2. \A p \in Range(c.ready) : u[p].pc = t[p].pc
  BY <1>1
<1>3. ReadyOK(d, u)
  BY Zenon, <1>1, <1>2 DEF ReadyOK
<1>4. ASSUME NEW q, NEW at, Range(q) \subseteq Process, QueueOK(q, at, c, t)
      PROVE  QueueOK(q, at, d, u)
  <2>1. \A p \in Range(q) : Off(p, d)
    BY Zenon, <1>4 DEF QueueOK, Off
  <2>2. \A p \in Range(q) : u[p].pc = at
    BY <1>4 DEF QueueOK, Off
  <2> QED BY Zenon, <1>4, <2>1, <2>2 DEF QueueOK
<1> QED BY Zenon, <1>1, <1>3, <1>4

\* The same, with the status that belongs to what the thread does.
LEMMA SameThread ==
  ASSUME NEW c \in CPU, NEW t, NEW u, RunOK(c, t), c.current # NoProcess, NEW d \in CPU,
         d.current = c.current, d.ready = c.ready, d.oldStatus = c.oldStatus,
         \A p \in Process : p # c.current => u[p].pc = t[p].pc /\ u[p].k = t[p].k,
         u[c.current].pc \notin {"none", "done"},
         d.status = IF u[c.current].pc = "user" THEN "UserMode" ELSE "SystemMode",
         NEW con \in Console, ConsoleQueuesOK(con, c, t),
         NEW tab \in Seq(Entry), SemQueuesOK(tab, c, t)
  PROVE  RunOK(d, u) /\ ConsoleQueuesOK(con, d, u) /\ SemQueuesOK(tab, d, u)
<1>0. \A p \in Process : p # c.current => u[p].pc = t[p].pc
  BY Zenon
<1>1. /\ ReadyOK(d, u) /\ d.current \notin Range(d.ready)
      /\ \A q, at : Range(q) \subseteq Process /\ QueueOK(q, at, c, t) => QueueOK(q, at, d, u)
  BY Zenon, <1>0, OtherThreads
<1>2. RunOK(d, u)
  BY <1>1 DEF RunOK
<1>3. Kept(c, t, d, u)
  BY Zenon, <1>1 DEF Kept, Off
<1>4. ConsoleQueuesOK(con, d, u) /\ SemQueuesOK(tab, d, u)
  BY Zenon, <1>3, QueuesKept
<1> QED BY Zenon, <1>2, <1>4

\* What is left to show of a step that leaves the console, the interrupts and the
\* semaphores alone.
LEMMA StepOfThread ==
  ASSUME Inv, cpu.current \in Process, cpu' \in CPU, cpu'.current = cpu.current,
         cpu'.ready = cpu.ready, cpu'.oldStatus = cpu.oldStatus,
         task' \in [Process -> Task],
         \A p \in Process : p # cpu.current => task'[p].pc = task[p].pc /\ task'[p].k = task[p].k,
         task'[cpu.current].pc \notin {"none", "done", "waitOut", "unlockOut", "wait"},
         cpu'.status = IF task'[cpu.current].pc = "user" THEN "UserMode" ELSE "SystemMode",
         console' = console, pending' = pending, semTab' = semTab,
         history'.typed = history.typed, history'.taken = history.taken
  PROVE  /\ ListOK(pending', 0) /\ Has(pending', "TimerInt")
         /\ InputOK(pending', console', history') /\ OutputOK(pending', console', task')
         /\ RunOK(cpu', task') /\ ConsoleQueuesOK(console', cpu', task')
         /\ SemQueuesOK(semTab', cpu', task') /\ SemsOK'
<1>1. cpu.current # NoProcess
  BY SystemCallsAssumption
<1>2. RunOK(cpu', task') /\ ConsoleQueuesOK(console, cpu', task') /\ SemQueuesOK(semTab, cpu', task')
  <2>1. task'[cpu.current].pc \notin {"none", "done"}
    OBVIOUS
  <2> QED BY Zenon, <1>1, <2>1, InvFacts, SameThread
<1>3. InputOK(pending, console, history')
  BY Zenon, InvFacts DEF InputOK
<1>4. \A p \in Process : task'[p].pc \in {"waitOut", "unlockOut"} => task[p].pc = task'[p].pc
  OBVIOUS
<1>5. OutputOK(pending, console, task')
  <2>1. OutputOK(pending, console, task)
    BY Zenon, InvFacts
  <2> QED BY <1>4, <2>1 DEF OutputOK
<1>6. SemsOK'
  <2>1. \A p \in Process : task'[p].pc = "wait" => task[p].pc = "wait" /\ task[p].k = task'[p].k
    OBVIOUS
  <2> QED BY Zenon, <2>1, InvFacts DEF SemsOK
<1> QED BY Zenon, <1>2, <1>3, <1>5, <1>6, InvFacts

\* The current thread, at the place where its code is.
LEMMA AtFacts ==
  ASSUME Inv, NEW pc, At(pc), pc \notin {"none", "done"}
  PROVE  /\ Me \in Process /\ Me # NoProcess /\ My \in Task /\ My.pc = pc
         /\ cpu.status = IF pc = "user" THEN "UserMode" ELSE "SystemMode"
<1>1. cpu.current \in Process
  BY InvFacts, CPUFields DEF At
<1> QED BY <1>1, InvFacts DEF At, Me, My, RunOK

\* The task of one process is replaced.
LEMMA TaskSet ==
  ASSUME NEW t \in [Process -> Task], NEW p \in Process, NEW r \in Task,
         NEW u, u = [t EXCEPT ![p] = r]
  PROVE  u \in [Process -> Task] /\ u[p] = r /\ \A q \in Process : q # p => u[q] = t[q]
OBVIOUS

\* The rest of the invariant, for steps of the console.
LEMMA ConsoleStep ==
  ASSUME Inv, cpu' \in CPU, console' \in Console, task' \in [Process -> Task],
         ListOK(pending', 0), Has(pending', "TimerInt"),
         InputOK(pending', console', history'), OutputOK(pending', console', task'),
         RunOK(cpu', task'), ConsoleQueuesOK(console', cpu', task'),
         SemQueuesOK(semTab, cpu', task'), HistoryOK',
         \A p \in Process : CallOK(task'[p]),
         \A p \in Process : task'[p].pc = "wait" => task[p].pc = "wait" /\ task'[p].k = task[p].k,
         UNCHANGED <<script, numberBuffer, host, fileTable, semTab, undefined>>
  PROVE  Inv'
<1>1. TypeOK'
  BY Zenon DEF Inv, TypeOK
<1>2. FilesOK'
  BY Zenon DEF Inv, FilesOK
<1>3. SemsOK'
  <2>1. SemsOK
    BY Zenon DEF Inv
  <2> QED BY Zenon, <2>1 DEF SemsOK
<1> QED BY Zenon, <1>1, <1>2, <1>3 DEF Inv

\* P has to wait: the thread goes to the end of the queue, and another one runs.
LEMMA Sleeper ==
  ASSUME Inv, NEW pc \in Sleeps, At(pc),
         NEW q, q \in Seq(Process), QueueOK(q, pc, cpu, task)
  PROVE  /\ Append(q, Me) \in Seq(Process)
         /\ Range(Append(q, Me)) = Range(q) \cup {Me} /\ Me \notin Range(cpu.ready)
         /\ Dispatch(cpu) \in CPU /\ RunOK(Dispatch(cpu), task)
         /\ QueueOK(Append(q, Me), pc, Dispatch(cpu), task)
         /\ Kept(cpu, task, Dispatch(cpu), task)
<1> DEFINE d == Dispatch(cpu)
           new == Append(q, Me)
<1>1. Me \in Process /\ My.pc = pc
  BY AtFacts DEF Sleeps
<1>2. Range(q) \subseteq Process
  BY ElementOfSeq, LenProperties DEF Range
<1>3. IsInjective(q) /\ Me \notin Range(q) /\ \A p \in Range(q) : task[p].pc = pc /\ p \notin Range(cpu.ready)
  BY DEF QueueOK, Off, Me
<1>4. new \in Seq(Process) /\ Range(new) = Range(q) \cup {Me} /\ IsInjective(new)
  BY <1>1, <1>3, AppendList
<1>5. Me \notin Range(cpu.ready) /\ ReadyOK(cpu, task)
  BY Zenon, InvFacts DEF RunOK, Me
<1>6. task[Me].pc = pc
  BY <1>1 DEF My, Me
<1>7. Range(new) \subseteq Process /\ \A p \in Range(new) : task[p].pc = pc /\ p \notin Range(cpu.ready)
  BY <1>1, <1>2, <1>3, <1>4, <1>5, <1>6
<1> HIDE DEF new
<1>8. /\ d \in CPU /\ RunOK(d, task)
      /\ \A r, at : (/\ IsInjective(r) /\ Range(r) \subseteq Process
                     /\ \A p \in Range(r) : task[p].pc = at /\ p \notin Range(cpu.ready))
                    => QueueOK(r, at, d, task)
  BY Zenon, <1>5, InvFacts, DispatchReady
<1> HIDE DEF d
<1>9. QueueOK(new, pc, d, task)
  BY Zenon, <1>4, <1>7, <1>8
<1>10. Kept(cpu, task, d, task)
  <2>1. ASSUME NEW r, NEW at, Range(r) \subseteq Process, QueueOK(r, at, cpu, task)
        PROVE  QueueOK(r, at, d, task)
    <3>1. IsInjective(r) /\ \A p \in Range(r) : task[p].pc = at /\ p \notin Range(cpu.ready)
      BY Zenon, <2>1 DEF QueueOK, Off
    <3> QED BY Zenon, <1>8, <2>1, <3>1
  <2> QED BY Zenon, <2>1 DEF Kept
<1>11. d \in CPU /\ RunOK(d, task) /\ Me \notin Range(cpu.ready)
  BY Zenon, <1>5, <1>8
<1> QED BY Zenon, <1>4, <1>9, <1>10, <1>11 DEF d, new

\* Semaphore::P in the console's code, when the value is 0.
LEMMA WaitsInv ==
  ASSUME Inv, NEW pc, NEW sem, Waits(pc, sem),
         <<pc, sem>> \in {<<"lockIn", "inLock">>, <<"waitIn", "inSem">>,
                          <<"lockOut", "outLock">>, <<"waitOut", "outSem">>}
  PROVE  Inv'
<1> DEFINE s == console[sem]
           b == Block(s, Me)
           q == Append(s.queue, Me)
           d == Dispatch(cpu)
<1>1. \/ pc = "lockIn" /\ sem = "inLock"
      \/ pc = "waitIn" /\ sem = "inSem"
      \/ pc = "lockOut" /\ sem = "outLock"
      \/ pc = "waitOut" /\ sem = "outSem"
  OBVIOUS
<1>2. pc \in Sleeps /\ At(pc)
  BY <1>1 DEF Sleeps, Waits
<1>3. console \in Console /\ s \in Sem /\ QueueOK(s.queue, pc, cpu, task)
  BY <1>1, InvFacts, ConsoleFields DEF ConsoleQueuesOK
<1>4. s.queue \in Seq(Process) /\ s.value \in Nat
  BY <1>3, SemFields
<1>5. /\ q \in Seq(Process) /\ d \in CPU /\ RunOK(d, task)
      /\ QueueOK(q, pc, d, task) /\ Kept(cpu, task, d, task)
  BY Zenon, <1>2, <1>3, <1>4, Sleeper
<1>6. /\ console' = [console EXCEPT ![sem] = b] /\ cpu' = d
      /\ UNCHANGED <<pending, task, script, numberBuffer, host, fileTable, semTab, undefined, history>>
  BY Zenon DEF Waits
<1>7. b = [s EXCEPT !.queue = q] /\ q \in Threads
  BY Zenon, <1>5 DEF Block, Threads
<1> HIDE DEF q, d, b
<1>8. b \in Sem /\ b.value = s.value /\ b.queue = q
  BY Zenon, <1>3, <1>7 DEF Sem
<1>9. ConsoleQueuesOK(console, d, task) /\ SemQueuesOK(semTab, d, task)
  BY Zenon, <1>5, InvFacts, QueuesKept
<1>10. /\ console' \in Console /\ console'.putBusy = console.putBusy
       /\ console'.incoming = console.incoming /\ console'.input = console.input
       /\ console'.inSem.value = console.inSem.value
       /\ console'.outLock.value = console.outLock.value
       /\ console'.outSem.value = console.outSem.value
       /\ ConsoleQueuesOK(console', d, task)
  <2>1. CASE pc = "lockIn" /\ sem = "inLock"
    <3>1. console' = [console EXCEPT !.inLock = b] /\ s = console.inLock
      BY Zenon, <1>6, <2>1
    <3> HIDE DEF s
    <3>2. /\ console' \in Console /\ console'.inLock = b /\ console'.inSem = console.inSem
          /\ console'.outLock = console.outLock /\ console'.outSem = console.outSem
          /\ console'.putBusy = console.putBusy
          /\ console'.incoming = console.incoming /\ console'.input = console.input
      BY Zenon, <1>3, <1>8, <3>1 DEF Console
    <3> QED BY Zenon, <1>5, <1>8, <1>9, <2>1, <3>2 DEF ConsoleQueuesOK
  <2>2. CASE pc = "waitIn" /\ sem = "inSem"
    <3>1. console' = [console EXCEPT !.inSem = b] /\ s = console.inSem
      BY Zenon, <1>6, <2>2
    <3> HIDE DEF s
    <3>2. /\ console' \in Console /\ console'.inSem = b /\ console'.inLock = console.inLock
          /\ console'.outLock = console.outLock /\ console'.outSem = console.outSem
          /\ console'.putBusy = console.putBusy
          /\ console'.incoming = console.incoming /\ console'.input = console.input
      BY Zenon, <1>3, <1>8, <3>1 DEF Console
    <3> QED BY Zenon, <1>5, <1>8, <1>9, <2>2, <3>1, <3>2 DEF ConsoleQueuesOK
  <2>3. CASE pc = "lockOut" /\ sem = "outLock"
    <3>1. console' = [console EXCEPT !.outLock = b] /\ s = console.outLock
      BY Zenon, <1>6, <2>3
    <3> HIDE DEF s
    <3>2. /\ console' \in Console /\ console'.outLock = b /\ console'.inLock = console.inLock
          /\ console'.inSem = console.inSem /\ console'.outSem = console.outSem
          /\ console'.putBusy = console.putBusy
          /\ console'.incoming = console.incoming /\ console'.input = console.input
      BY Zenon, <1>3, <1>8, <3>1 DEF Console
    <3> QED BY Zenon, <1>5, <1>8, <1>9, <2>3, <3>1, <3>2 DEF ConsoleQueuesOK
  <2>4. CASE pc = "waitOut" /\ sem = "outSem"
    <3>1. console' = [console EXCEPT !.outSem = b] /\ s = console.outSem
      BY Zenon, <1>6, <2>4
    <3> HIDE DEF s
    <3>2. /\ console' \in Console /\ console'.outSem = b /\ console'.inLock = console.inLock
          /\ console'.inSem = console.inSem /\ console'.outLock = console.outLock
          /\ console'.putBusy = console.putBusy
          /\ console'.incoming = console.incoming /\ console'.input = console.input
      BY Zenon, <1>3, <1>8, <3>1 DEF Console
    <3> QED BY Zenon, <1>5, <1>8, <1>9, <2>4, <3>1, <3>2 DEF ConsoleQueuesOK
  <2> QED BY Zenon, <1>1, <2>1, <2>2, <2>3, <2>4
<1>11. InputOK(pending, console', history) /\ OutputOK(pending, console', task)
  <2>1. InputOK(pending, console, history) /\ OutputOK(pending, console, task)
    BY Zenon, InvFacts
  <2> QED BY Zenon, <1>10, <2>1 DEF InputOK, OutputOK
<1>12. HistoryOK'
  BY Zenon, <1>6 DEF Inv, HistoryOK
<1> QED BY Zenon, <1>5, <1>6, <1>9, <1>10, <1>11, <1>12, InvFacts, ConsoleStep

LEMMA TakeSem ==
  ASSUME NEW s \in Sem, s.value > 0
  PROVE  Take(s) \in Sem /\ Take(s).value = s.value - 1 /\ Take(s).queue = s.queue
<1> DEFINE v == s.value - 1
<1>1. v \in Nat
  BY SemFields
<1>2. Take(s) = [s EXCEPT !.value = v]
  BY Zenon DEF Take
<1> HIDE DEF v
<1>3. Take(s) \in Sem /\ Take(s).value = v /\ Take(s).queue = s.queue
  BY Zenon, <1>1, <1>2 DEF Sem
<1> QED BY <1>3 DEF v

\* The current thread goes from one place of the console's code to another.
Moved(u, r) ==
    /\ u \in [Process -> Task] /\ Me \in Process
    /\ u[Me] = r /\ \A p \in Process : p # Me => u[p] = task[p]
    /\ RunOK(cpu, u) /\ ConsoleQueuesOK(console, cpu, u) /\ SemQueuesOK(semTab, cpu, u)
    /\ \A p \in Process : CallOK(u[p])
    /\ \A p \in Process : u[p].pc = "wait" => task[p].pc = "wait" /\ u[p].k = task[p].k
LEMMA MoveTo ==
  ASSUME Inv, NEW pc, At(pc), pc \notin {"none", "done", "user"},
         NEW r \in Task, r.pc \notin {"none", "done", "user", "wait"},
         r.k = My.k, r.call = My.call, r.pc \in Ins => pc \in Ins, NEW u, u = [task EXCEPT ![Me] = r]
  PROVE  Moved(u, r)
<1>1. Me \in Process /\ Me # NoProcess /\ cpu.status = "SystemMode"
  BY AtFacts
<1>2. u \in [Process -> Task] /\ u[Me] = r /\ \A p \in Process : p # Me => u[p] = task[p]
  <2>1. task \in [Process -> Task]
    BY Zenon, InvFacts
  <2> QED BY Zenon, <1>1, <2>1, TaskSet
<1>3. RunOK(cpu, u) /\ ConsoleQueuesOK(console, cpu, u) /\ SemQueuesOK(semTab, cpu, u)
  <2>1. cpu.current = Me
    BY Zenon DEF Me
  <2>2. \A p \in Process : p # cpu.current => u[p].pc = task[p].pc /\ u[p].k = task[p].k
    BY Zenon, <1>2, <2>1
  <2>3. /\ u[cpu.current].pc \notin {"none", "done"} /\ cpu.current # NoProcess
        /\ cpu.status = IF u[cpu.current].pc = "user" THEN "UserMode" ELSE "SystemMode"
    BY <1>1, <1>2, <2>1
  <2> QED BY Zenon, <2>2, <2>3, InvFacts, SameThread
<1>4. \A p \in Process : CallOK(u[p])
  <2>1. \A p \in Process : CallOK(task[p])
    BY Zenon, InvFacts
  <2>2. CallOK(r)
    <3>1. CallOK(My) /\ My.pc = pc
      BY <1>1, <2>1, AtFacts DEF My, Me
    <3> QED BY <3>1 DEF CallOK
  <2> QED BY Zenon, <1>2, <2>1, <2>2
<1>5. \A p \in Process : u[p].pc = "wait" => task[p].pc = "wait" /\ u[p].k = task[p].k
  BY <1>2
<1> QED BY Zenon, <1>1, <1>2, <1>3, <1>4, <1>5 DEF Moved

\* Lock::Acquire of the input
LEMMA LockInInv ==
  ASSUME Inv, LockIn
  PROVE  Inv'
<1> DEFINE r == [My EXCEPT !.pc = "waitIn"]
           s == Take(console.inLock)
<1>1. /\ At("lockIn") /\ console.inLock.value > 0
      /\ console' = [console EXCEPT !.inLock = s] /\ task' = [task EXCEPT ![Me] = r]
      /\ UNCHANGED <<cpu, pending, script, numberBuffer, host, fileTable, semTab, undefined, history>>
  BY Zenon DEF LockIn, My, Me
<1>2. console \in Console /\ console.inLock \in Sem /\ My \in Task
  BY Zenon, <1>1, InvFacts, ConsoleFields, AtFacts
<1>3. s \in Sem /\ s.queue = console.inLock.queue
  BY Zenon, <1>1, <1>2, TakeSem
<1>4. r \in Task /\ r.pc = "waitIn" /\ r.k = My.k /\ r.call = My.call
  <2>1. "waitIn" \in PCs
    BY DEF PCs
  <2>2. r = [My EXCEPT !.pc = "waitIn"]
    BY Zenon
  <2> HIDE DEF r
  <2> QED BY Zenon, <1>2, <2>1, <2>2 DEF Task
<1> HIDE DEF r, s
<1>5. /\ task' \in [Process -> Task] /\ task'[Me] = r /\ \A p \in Process : p # Me => task'[p] = task[p]
      /\ RunOK(cpu, task') /\ ConsoleQueuesOK(console, cpu, task') /\ SemQueuesOK(semTab, cpu, task')
      /\ \A p \in Process : CallOK(task'[p])
      /\ \A p \in Process : task'[p].pc = "wait" => task[p].pc = "wait" /\ task'[p].k = task[p].k
  <2>1. /\ "lockIn" \notin {"none", "done", "user"} /\ r.pc \notin {"none", "done", "user", "wait"}
        /\ r.pc \in Ins => "lockIn" \in Ins
    BY <1>4 DEF Ins
  <2>2. Moved(task', r)
    BY Zenon, <1>1, <1>4, <2>1, MoveTo
  <2> QED BY Zenon, <2>2 DEF Moved
<1>6. /\ console' \in Console /\ console'.inLock = s /\ console'.inSem = console.inSem
      /\ console'.outLock = console.outLock /\ console'.outSem = console.outSem
      /\ console'.putBusy = console.putBusy
      /\ console'.incoming = console.incoming /\ console'.input = console.input
  BY Zenon, <1>1, <1>2, <1>3 DEF Console
<1>7. ConsoleQueuesOK(console', cpu, task')
  BY Zenon, <1>3, <1>5, <1>6 DEF ConsoleQueuesOK
<1>8. InputOK(pending, console', history)
  BY Zenon, <1>6, InvFacts DEF InputOK
<1>9. OutputOK(pending, console', task')
  <2>1. OutputOK(pending, console, task)
    BY Zenon, InvFacts
  <2>2. \A p \in Process : task'[p].pc \in {"waitOut", "unlockOut"} => task[p].pc = task'[p].pc
    BY <1>4, <1>5
  <2> QED BY <1>6, <2>1, <2>2 DEF OutputOK
<1>10. HistoryOK'
  BY Zenon, <1>1 DEF Inv, HistoryOK
<1> QED BY Zenon, <1>1, <1>5, <1>6, <1>7, <1>8, <1>9, <1>10, InvFacts, ConsoleStep

\* ConsoleInput::GetChar, once a character is there or the input has ended
LEMMA WaitInInv ==
  ASSUME Inv, WaitIn
  PROVE  Inv'
<1> DEFINE ch == console.incoming
           r == [My EXCEPT !.pc = "unlockIn", !.ch = ch]
           s == Take(console.inSem)
<1>1. /\ At("waitIn") /\ console.inSem.value > 0 /\ GetChar(ch)
      /\ console' = [console EXCEPT !.inSem = s, !.incoming = EOF]
      /\ UNCHANGED <<cpu, script, numberBuffer, host, fileTable, semTab, undefined>>
  BY Zenon DEF WaitIn
<1>2. /\ console \in Console /\ console.inSem \in Sem /\ My \in Task /\ ch \in Read /\ Me \in Process
      /\ task \in [Process -> Task]
  <2>1. "waitIn" \notin {"none", "done"}
    OBVIOUS
  <2> QED BY Zenon, <1>1, <2>1, InvFacts, ConsoleFields, AtFacts
<1>t. task' = [task EXCEPT ![Me] = r]
  BY Zenon DEF WaitIn
<1>3. s \in Sem /\ s.queue = console.inSem.queue /\ s.value = 0 /\ ~ Has(pending, "ConsoleReadInt")
  <2>1. console.inSem.value = 1 /\ ~ Has(pending, "ConsoleReadInt")
    <3>1. InputOK(pending, console, history)
      BY Zenon, InvFacts
    <3>2. console.inSem.value \in Nat
      BY Zenon, <1>2, SemFields
    <3>3. /\ console.inSem.value <= 1
          /\ Has(pending, "ConsoleReadInt") => console.inSem.value = 0
      BY Zenon, <3>1 DEF InputOK
    <3> QED BY <1>1, <3>2, <3>3
  <2> QED BY <1>1, <1>2, <2>1, TakeSem
<1>4. r \in Task /\ r.pc = "unlockIn" /\ r.k = My.k /\ r.call = My.call
  <2>1. "unlockIn" \in PCs /\ ch \in Int
    BY <1>2 DEF PCs, Read, Character, EOF
  <2> HIDE DEF ch
  <2> QED BY Zenon, <1>2, <2>1 DEF Task
<1>h. ch \in Character \/ ch = EOF
  BY <1>2 DEF Read
<1> HIDE DEF r, s
<1>5. /\ task' \in [Process -> Task] /\ task'[Me] = r /\ \A p \in Process : p # Me => task'[p] = task[p]
      /\ RunOK(cpu, task') /\ ConsoleQueuesOK(console, cpu, task') /\ SemQueuesOK(semTab, cpu, task')
      /\ \A p \in Process : CallOK(task'[p])
      /\ \A p \in Process : task'[p].pc = "wait" => task[p].pc = "wait" /\ task'[p].k = task[p].k
  <2>1. /\ "waitIn" \notin {"none", "done", "user"} /\ r.pc \notin {"none", "done", "user", "wait"}
        /\ r.pc \in Ins => "waitIn" \in Ins
    BY <1>4 DEF Ins
  <2>2. Moved(task', r)
    BY Zenon, <1>1, <1>4, <1>t, <2>1, MoveTo
  <2> QED BY Zenon, <2>2 DEF Moved
<1>6. /\ console' \in Console /\ console'.inSem = s /\ console'.inLock = console.inLock
      /\ console'.outLock = console.outLock /\ console'.outSem = console.outSem
      /\ console'.putBusy = console.putBusy
      /\ console'.incoming = EOF /\ console'.input = console.input
  <2>1. EOF \in Read
    BY DEF Read
  <2> HIDE DEF ch
  <2> QED BY Zenon, <1>1, <1>2, <1>3, <2>1 DEF Console
<1>7. ConsoleQueuesOK(console', cpu, task')
  BY Zenon, <1>3, <1>5, <1>6 DEF ConsoleQueuesOK
<1>8. /\ ListOK(pending', 0) /\ Has(pending', "TimerInt")
      /\ Has(pending', "ConsoleWriteInt") <=> Has(pending, "ConsoleWriteInt")
  <2>1. CASE ch = EOF
    <3>1. pending' = pending
      BY Zenon, <1>1, <2>1 DEF GetChar
    <3> QED BY Zenon, <3>1, InvFacts
  <2>2. CASE ch # EOF
    <3>1. pending' = Schedule(pending, "ConsoleReadInt", ConsoleTime)
      BY Zenon, <1>1, <2>2 DEF GetChar
    <3>2. "ConsoleReadInt" \in Types
      BY DEF Types
    <3>3. /\ ListOK(pending', 0)
          /\ \A t : Has(pending', t) <=> t = "ConsoleReadInt" \/ Has(pending, t)
      BY Zenon, <1>3, <3>1, <3>2, InvFacts, ScheduleInterrupt, SystemCallsAssumption
    <3>4. Has(pending, "TimerInt")
      BY Zenon, InvFacts
    <3> QED BY <3>3, <3>4
  <2> QED BY <2>1, <2>2
<1>9. /\ HistoryOK' /\ history'.typed = history.typed
      /\ history'.taken = IF ch = EOF THEN history.taken ELSE Append(history.taken, ch)
  <2> DEFINE taken == IF ch = EOF THEN history.taken ELSE Append(history.taken, ch)
  <2>1. history' = [history EXCEPT !.taken = taken] /\ HistoryOK
    BY Zenon, <1>1 DEF GetChar, Inv
  <2>2. taken \in Seq(Character)
    BY <1>h, <2>1 DEF HistoryOK
  <2> HIDE DEF taken
  <2>3. HistoryOK' /\ history'.typed = history.typed /\ history'.taken = taken
    BY <2>1, <2>2 DEF HistoryOK
  <2> QED BY <2>3 DEF taken
<1>10. InputOK(pending', console', history')
  <2>1. InputOK(pending, console, history) /\ history.taken \in Seq(Character)
    BY Zenon, InvFacts DEF Inv, HistoryOK
  <2>2. \/ ch = EOF /\ history.typed = history.taken \o console.input
        \/ history.typed = history.taken \o <<ch>> \o console.input
    BY Zenon, <2>1 DEF InputOK
  <2>3. ch # EOF => history'.taken = history.taken \o <<ch>>
    BY <1>h, <1>9, <2>1, AppendIsConcat
  <2>4. ch = EOF => history'.taken = history.taken /\ pending' = pending
    BY Zenon, <1>1, <1>9 DEF GetChar
  <2>5. \/ history'.typed = history'.taken \o console.input
        \/ ch = EOF /\ history'.typed = history'.taken \o <<EOF>> \o console.input
    BY Zenon, <1>9, <2>2, <2>3, <2>4
  <2>6. Has(pending', "ConsoleReadInt") => history'.typed = history'.taken \o console.input
    BY Zenon, <1>3, <2>4, <2>5
  <2>7. s.value <= 1
    BY <1>3
  <2> QED BY Zenon, <1>3, <1>6, <2>5, <2>6, <2>7 DEF InputOK
<1>11. OutputOK(pending', console', task')
  <2>1. OutputOK(pending, console, task)
    BY Zenon, InvFacts
  <2>2. \A p \in Process : task'[p].pc = "unlockIn" \/ task[p].pc = task'[p].pc
    BY Zenon, <1>4, <1>5
  <2> QED BY <1>6, <1>8, <2>1, <2>2 DEF OutputOK
<1>12. cpu' = cpu /\ cpu \in CPU
  BY Zenon, <1>1, InvFacts
<1> QED BY Zenon, <1>1, <1>5, <1>6, <1>7, <1>8, <1>9, <1>10, <1>11, <1>12, ConsoleStep

\* Lock::Release of a lock of the console: the thread that waited longest is woken.
Freed(c, t, s, at) ==
    /\ Wake(c, s) \in CPU /\ RunOK(Wake(c, s), t) /\ Give(s) \in Sem
    /\ Give(s).value = s.value + 1
    /\ QueueOK(Give(s).queue, at, Wake(c, s), t)
    /\ \A q, a : QueueOK(q, a, c, t) /\ a # at => QueueOK(q, a, Wake(c, s), t)
LEMMA Released ==
  ASSUME NEW c \in CPU, NEW t \in [Process -> Task], RunOK(c, t),
         NEW s \in Sem, NEW at \in Sleeps, QueueOK(s.queue, at, c, t)
  PROVE  Freed(c, t, s, at)
<1>1. s.queue \in Seq(Process)
  BY Zenon, SemFields
<1>2. /\ Wake(c, s) \in CPU /\ RunOK(Wake(c, s), t)
      /\ QueueOK(Give(s).queue, at, Wake(c, s), t)
      /\ \A q, a : QueueOK(q, a, c, t) /\ a # at => QueueOK(q, a, Wake(c, s), t)
  BY Zenon, <1>1, WakeFirst
<1>3. Give(s) \in Sem /\ Give(s).value = s.value + 1
  BY Zenon, GiveSem
<1> QED BY Zenon, <1>2, <1>3 DEF Freed

LEMMA UnlockInInv ==
  ASSUME Inv, UnlockIn
  PROVE  Inv'
<1> DEFINE r == [My EXCEPT !.pc = "heard"]
           s == console.inLock
           g == Give(s)
           d == Wake(cpu, s)
<1>1. /\ At("unlockIn") /\ console' = [console EXCEPT !.inLock = g] /\ cpu' = d
      /\ task' = [task EXCEPT ![Me] = r]
      /\ UNCHANGED <<pending, script, numberBuffer, host, fileTable, semTab, undefined, history>>
  BY Zenon DEF UnlockIn, My, Me
<1>2. console \in Console /\ s \in Sem /\ My \in Task /\ cpu \in CPU
  <2>1. "unlockIn" \notin {"none", "done"}
    OBVIOUS
  <2> QED BY Zenon, <1>1, <2>1, InvFacts, ConsoleFields, AtFacts
<1>4. r \in Task /\ r.pc = "heard" /\ r.k = My.k /\ r.call = My.call
  <2>1. "heard" \in PCs
    BY DEF PCs
  <2>2. r = [My EXCEPT !.pc = "heard"]
    BY Zenon
  <2> HIDE DEF r
  <2> QED BY Zenon, <1>2, <2>1, <2>2 DEF Task
<1> HIDE DEF r
<1>5. /\ task' \in [Process -> Task] /\ task'[Me] = r /\ \A p \in Process : p # Me => task'[p] = task[p]
      /\ RunOK(cpu, task') /\ ConsoleQueuesOK(console, cpu, task') /\ SemQueuesOK(semTab, cpu, task')
      /\ \A p \in Process : CallOK(task'[p])
      /\ \A p \in Process : task'[p].pc = "wait" => task[p].pc = "wait" /\ task'[p].k = task[p].k
  <2>1. /\ "unlockIn" \notin {"none", "done", "user"} /\ r.pc \notin {"none", "done", "user", "wait"}
        /\ r.pc \in Ins => "unlockIn" \in Ins
    BY <1>4 DEF Ins
  <2>2. Moved(task', r)
    BY Zenon, <1>1, <1>4, <2>1, MoveTo
  <2> QED BY Zenon, <2>2 DEF Moved
<1>6. /\ d \in CPU /\ RunOK(d, task') /\ g \in Sem /\ QueueOK(g.queue, "lockIn", d, task')
      /\ \A q, a : QueueOK(q, a, cpu, task') /\ a # "lockIn" => QueueOK(q, a, d, task')
  <2>1. "lockIn" \in Sleeps /\ QueueOK(s.queue, "lockIn", cpu, task')
    BY <1>5 DEF Sleeps, ConsoleQueuesOK
  <2>2. Freed(cpu, task', s, "lockIn")
    BY Zenon, <1>2, <1>5, <2>1, Released
  <2> QED BY Zenon, <2>2 DEF Freed
<1> HIDE DEF d, g
<1>7. /\ console' \in Console /\ console'.inLock = g /\ console'.inSem = console.inSem
      /\ console'.outLock = console.outLock /\ console'.outSem = console.outSem
      /\ console'.putBusy = console.putBusy
      /\ console'.incoming = console.incoming /\ console'.input = console.input
  <2> HIDE DEF s
  <2> QED BY Zenon, <1>1, <1>2, <1>6 DEF Console
<1>8. ConsoleQueuesOK(console', d, task') /\ SemQueuesOK(semTab, d, task')
  <2>1. "waitIn" # "lockIn" /\ "lockOut" # "lockIn" /\ "waitOut" # "lockIn" /\ "wait" # "lockIn"
    OBVIOUS
  <2>2. ConsoleQueuesOK(console', d, task')
    BY Zenon, <1>5, <1>6, <1>7, <2>1 DEF ConsoleQueuesOK
  <2>3. SemQueuesOK(semTab, d, task')
    BY Zenon, <1>5, <1>6, <2>1 DEF SemQueuesOK
  <2> QED BY Zenon, <2>2, <2>3
<1>9. InputOK(pending, console', history)
  BY Zenon, <1>7, InvFacts DEF InputOK
<1>10. OutputOK(pending, console', task')
  <2>1. OutputOK(pending, console, task)
    BY Zenon, InvFacts
  <2>2. \A p \in Process : task'[p].pc \in {"waitOut", "unlockOut"} => task[p].pc = task'[p].pc
    BY <1>4, <1>5
  <2> QED BY <1>7, <2>1, <2>2 DEF OutputOK
<1>11. HistoryOK'
  BY Zenon, <1>1 DEF Inv, HistoryOK
<1> QED BY Zenon, <1>1, <1>5, <1>6, <1>7, <1>8, <1>9, <1>10, <1>11, InvFacts, ConsoleStep

\* The lock of the output, and ConsoleOutput::PutChar
LEMMA LockOutInv ==
  ASSUME Inv, LockOut
  PROVE  Inv'
<1> DEFINE put == Append(My.put, My.ch)
           r == [My EXCEPT !.pc = "waitOut", !.put = put]
           s == Take(console.outLock)
<1>1. /\ At("lockOut") /\ console.outLock.value > 0
      /\ console' = [console EXCEPT !.outLock = s, !.putBusy = TRUE]
      /\ pending' = Schedule(pending, "ConsoleWriteInt", ConsoleTime)
      /\ task' = [task EXCEPT ![Me] = r]
      /\ UNCHANGED <<cpu, script, numberBuffer, host, fileTable, semTab, undefined, history>>
  BY Zenon DEF LockOut
<1>2. /\ console \in Console /\ console.outLock \in Sem /\ console.outSem \in Sem /\ My \in Task
      /\ cpu \in CPU
  <2>1. "lockOut" \notin {"none", "done"}
    OBVIOUS
  <2> QED BY Zenon, <1>1, <2>1, InvFacts, ConsoleFields, AtFacts
<1>o. OutputOK(pending, console, task)
  BY Zenon, InvFacts
<1>3. /\ s \in Sem /\ s.queue = console.outLock.queue /\ s.value = 0
      /\ ~ Has(pending, "ConsoleWriteInt") /\ console.outSem.value = 0
      /\ \A p \in Process : task[p].pc \notin {"waitOut", "unlockOut"}
  <2>1. console.outLock.value = 1
    <3>1. console.outLock.value \in Nat
      BY Zenon, <1>2, SemFields
    <3> QED BY <1>1, <1>o, <3>1 DEF OutputOK
  <2>2. s \in Sem /\ s.queue = console.outLock.queue /\ s.value = 0
    BY <1>1, <1>2, <2>1, TakeSem
  <2> QED BY <1>o, <2>1, <2>2 DEF OutputOK
<1>4. r \in Task /\ r.pc = "waitOut" /\ r.k = My.k /\ r.call = My.call
  <2>1. "waitOut" \in PCs
    BY DEF PCs
  <2>2. put \in Text
    BY <1>2, TaskFields DEF Text
  <2> HIDE DEF put
  <2> QED BY Zenon, <1>2, <2>1, <2>2 DEF Task
<1> HIDE DEF r, s
<1>5. /\ task' \in [Process -> Task] /\ task'[Me] = r /\ \A p \in Process : p # Me => task'[p] = task[p]
      /\ RunOK(cpu, task') /\ ConsoleQueuesOK(console, cpu, task') /\ SemQueuesOK(semTab, cpu, task')
      /\ \A p \in Process : CallOK(task'[p])
      /\ \A p \in Process : task'[p].pc = "wait" => task[p].pc = "wait" /\ task'[p].k = task[p].k
  <2>1. /\ "lockOut" \notin {"none", "done", "user"} /\ r.pc \notin {"none", "done", "user", "wait"}
        /\ r.pc \in Ins => "lockOut" \in Ins
    BY <1>4 DEF Ins
  <2>2. Moved(task', r)
    BY Zenon, <1>1, <1>4, <2>1, MoveTo
  <2> QED BY Zenon, <2>2 DEF Moved
<1>6. /\ console' \in Console /\ console'.outLock = s /\ console'.inSem = console.inSem
      /\ console'.inLock = console.inLock /\ console'.outSem = console.outSem
      /\ console'.putBusy = TRUE
      /\ console'.incoming = console.incoming /\ console'.input = console.input
  BY Zenon, <1>1, <1>2, <1>3 DEF Console
<1>7. ConsoleQueuesOK(console', cpu, task')
  BY Zenon, <1>3, <1>5, <1>6 DEF ConsoleQueuesOK
<1>8. /\ ListOK(pending', 0) /\ Has(pending', "TimerInt") /\ Has(pending', "ConsoleWriteInt")
      /\ Has(pending', "ConsoleReadInt") <=> Has(pending, "ConsoleReadInt")
  <2>1. "ConsoleWriteInt" \in Types
    BY DEF Types
  <2>2. /\ ListOK(pending', 0)
        /\ \A t : Has(pending', t) <=> t = "ConsoleWriteInt" \/ Has(pending, t)
    BY Zenon, <1>1, <1>3, <2>1, InvFacts, ScheduleInterrupt, SystemCallsAssumption
  <2>3. Has(pending, "TimerInt")
    BY Zenon, InvFacts
  <2> QED BY <2>2, <2>3
<1>9. InputOK(pending', console', history)
  <2>1. InputOK(pending, console, history)
    BY Zenon, InvFacts
  <2> QED BY Zenon, <1>6, <1>8, <2>1 DEF InputOK
<1>10. OutputOK(pending', console', task')
  <2>1. \A p \in Process : task'[p].pc \in {"waitOut", "unlockOut"} => p = Me /\ task'[p].pc = "waitOut"
    BY <1>3, <1>4, <1>5
  <2> QED BY SMTT(30), <1>3, <1>6, <1>8, <2>1 DEF OutputOK
<1>11. HistoryOK'
  BY Zenon, <1>1 DEF Inv, HistoryOK
<1> QED BY Zenon, <1>1, <1>2, <1>5, <1>6, <1>7, <1>8, <1>9, <1>10, <1>11, ConsoleStep

\* The character is printed.
LEMMA WaitOutInv ==
  ASSUME Inv, WaitOut
  PROVE  Inv'
<1> DEFINE r == [My EXCEPT !.pc = "unlockOut"]
           s == Take(console.outSem)
<1>1. /\ At("waitOut") /\ console.outSem.value > 0
      /\ console' = [console EXCEPT !.outSem = s] /\ task' = [task EXCEPT ![Me] = r]
      /\ UNCHANGED <<cpu, pending, script, numberBuffer, host, fileTable, semTab, undefined, history>>
  BY Zenon DEF WaitOut, My, Me
<1>2. /\ console \in Console /\ console.outSem \in Sem /\ My \in Task /\ My.pc = "waitOut"
      /\ Me \in Process /\ cpu \in CPU
  <2>1. "waitOut" \notin {"none", "done"}
    OBVIOUS
  <2> QED BY Zenon, <1>1, <2>1, InvFacts, ConsoleFields, AtFacts
<1>o. OutputOK(pending, console, task)
  BY Zenon, InvFacts
<1>3. /\ s \in Sem /\ s.queue = console.outSem.queue /\ s.value = 0
      /\ ~ console.putBusy /\ console.outLock.value # 1
      /\ \A p \in Process : task[p].pc \in {"waitOut", "unlockOut"} => p = Me
  <2>1. console.outSem.value = 1
    <3>1. console.outSem.value \in Nat
      BY Zenon, <1>2, SemFields
    <3> QED BY <1>1, <1>o, <3>1 DEF OutputOK
  <2>2. s \in Sem /\ s.queue = console.outSem.queue /\ s.value = 0
    BY <1>1, <1>2, <2>1, TakeSem
  <2>3. task[Me].pc = "waitOut"
    BY Zenon, <1>2 DEF My, Me
  <2> QED BY SMTT(30), <1>2, <1>o, <2>1, <2>2, <2>3 DEF OutputOK
<1>4. r \in Task /\ r.pc = "unlockOut" /\ r.k = My.k /\ r.call = My.call
  <2>1. "unlockOut" \in PCs
    BY DEF PCs
  <2>2. r = [My EXCEPT !.pc = "unlockOut"]
    BY Zenon
  <2> HIDE DEF r
  <2> QED BY Zenon, <1>2, <2>1, <2>2 DEF Task
<1> HIDE DEF r, s
<1>5. /\ task' \in [Process -> Task] /\ task'[Me] = r /\ \A p \in Process : p # Me => task'[p] = task[p]
      /\ RunOK(cpu, task') /\ ConsoleQueuesOK(console, cpu, task') /\ SemQueuesOK(semTab, cpu, task')
      /\ \A p \in Process : CallOK(task'[p])
      /\ \A p \in Process : task'[p].pc = "wait" => task[p].pc = "wait" /\ task'[p].k = task[p].k
  <2>1. /\ "waitOut" \notin {"none", "done", "user"} /\ r.pc \notin {"none", "done", "user", "wait"}
        /\ r.pc \in Ins => "waitOut" \in Ins
    BY <1>4 DEF Ins
  <2>2. Moved(task', r)
    BY Zenon, <1>1, <1>4, <2>1, MoveTo
  <2> QED BY Zenon, <2>2 DEF Moved
<1>6. /\ console' \in Console /\ console'.outSem = s /\ console'.inSem = console.inSem
      /\ console'.inLock = console.inLock /\ console'.outLock = console.outLock
      /\ console'.putBusy = console.putBusy
      /\ console'.incoming = console.incoming /\ console'.input = console.input
  BY Zenon, <1>1, <1>2, <1>3 DEF Console
<1>7. ConsoleQueuesOK(console', cpu, task')
  BY Zenon, <1>3, <1>5, <1>6 DEF ConsoleQueuesOK
<1>8. InputOK(pending, console', history)
  BY Zenon, <1>6, InvFacts DEF InputOK
<1>9. OutputOK(pending, console', task')
  <2>1. \A p \in Process : task'[p].pc \in {"waitOut", "unlockOut"} => p = Me /\ task'[p].pc = "unlockOut"
    BY <1>3, <1>4, <1>5
  <2> QED BY <1>o, <1>3, <1>6, <2>1 DEF OutputOK
<1>10. HistoryOK'
  BY Zenon, <1>1 DEF Inv, HistoryOK
<1> QED BY Zenon, <1>1, <1>5, <1>6, <1>7, <1>8, <1>9, <1>10, InvFacts, ConsoleStep

LEMMA UnlockOutInv ==
  ASSUME Inv, UnlockOut
  PROVE  Inv'
<1> DEFINE r == [My EXCEPT !.pc = "printed"]
           s == console.outLock
           g == Give(s)
           d == Wake(cpu, s)
<1>1. /\ At("unlockOut") /\ console' = [console EXCEPT !.outLock = g] /\ cpu' = d
      /\ task' = [task EXCEPT ![Me] = r]
      /\ UNCHANGED <<pending, script, numberBuffer, host, fileTable, semTab, undefined, history>>
  BY Zenon DEF UnlockOut, My, Me
<1>2. /\ console \in Console /\ s \in Sem /\ My \in Task /\ My.pc = "unlockOut"
      /\ Me \in Process /\ cpu \in CPU
  <2>1. "unlockOut" \notin {"none", "done"}
    OBVIOUS
  <2> QED BY Zenon, <1>1, <2>1, InvFacts, ConsoleFields, AtFacts
<1>o. OutputOK(pending, console, task)
  BY Zenon, InvFacts
<1>3. /\ s.value = 0 /\ ~ console.putBusy /\ console.outSem.value = 0
      /\ \A p \in Process : task[p].pc \in {"waitOut", "unlockOut"} => p = Me
  <2>1. s.value \in Nat
    BY Zenon, <1>2, SemFields
  <2>2. task[Me].pc = "unlockOut"
    BY Zenon, <1>2 DEF My, Me
  <2> QED BY <1>2, <1>o, <2>1, <2>2 DEF OutputOK
<1>4. r \in Task /\ r.pc = "printed" /\ r.k = My.k /\ r.call = My.call
  <2>1. "printed" \in PCs
    BY DEF PCs
  <2>2. r = [My EXCEPT !.pc = "printed"]
    BY Zenon
  <2> HIDE DEF r
  <2> QED BY Zenon, <1>2, <2>1, <2>2 DEF Task
<1> HIDE DEF r
<1>5. /\ task' \in [Process -> Task] /\ task'[Me] = r /\ \A p \in Process : p # Me => task'[p] = task[p]
      /\ RunOK(cpu, task') /\ ConsoleQueuesOK(console, cpu, task') /\ SemQueuesOK(semTab, cpu, task')
      /\ \A p \in Process : CallOK(task'[p])
      /\ \A p \in Process : task'[p].pc = "wait" => task[p].pc = "wait" /\ task'[p].k = task[p].k
  <2>1. /\ "unlockOut" \notin {"none", "done", "user"} /\ r.pc \notin {"none", "done", "user", "wait"}
        /\ r.pc \in Ins => "unlockOut" \in Ins
    BY <1>4 DEF Ins
  <2>2. Moved(task', r)
    BY Zenon, <1>1, <1>4, <2>1, MoveTo
  <2> QED BY Zenon, <2>2 DEF Moved
<1>6. /\ d \in CPU /\ RunOK(d, task') /\ g \in Sem /\ QueueOK(g.queue, "lockOut", d, task')
      /\ g.value = s.value + 1
      /\ \A q, a : QueueOK(q, a, cpu, task') /\ a # "lockOut" => QueueOK(q, a, d, task')
  <2>1. "lockOut" \in Sleeps /\ QueueOK(s.queue, "lockOut", cpu, task')
    BY <1>5 DEF Sleeps, ConsoleQueuesOK
  <2>2. Freed(cpu, task', s, "lockOut")
    BY Zenon, <1>2, <1>5, <2>1, Released
  <2> QED BY Zenon, <2>2 DEF Freed
<1> HIDE DEF d, g
<1>7. /\ console' \in Console /\ console'.outLock = g /\ console'.inSem = console.inSem
      /\ console'.inLock = console.inLock /\ console'.outSem = console.outSem
      /\ console'.putBusy = console.putBusy
      /\ console'.incoming = console.incoming /\ console'.input = console.input
  <2> HIDE DEF s
  <2> QED BY Zenon, <1>1, <1>2, <1>6 DEF Console
<1>8. ConsoleQueuesOK(console', d, task') /\ SemQueuesOK(semTab, d, task')
  <2>1. "waitIn" # "lockOut" /\ "lockIn" # "lockOut" /\ "waitOut" # "lockOut" /\ "wait" # "lockOut"
    OBVIOUS
  <2>2. ConsoleQueuesOK(console', d, task')
    BY Zenon, <1>5, <1>6, <1>7, <2>1 DEF ConsoleQueuesOK
  <2>3. SemQueuesOK(semTab, d, task')
    BY Zenon, <1>5, <1>6, <2>1 DEF SemQueuesOK
  <2> QED BY Zenon, <2>2, <2>3
<1>9. InputOK(pending, console', history)
  BY Zenon, <1>7, InvFacts DEF InputOK
<1>10. OutputOK(pending, console', task')
  <2>1. \A p \in Process : task'[p].pc \notin {"waitOut", "unlockOut"}
    BY <1>3, <1>4, <1>5
  <2>2. g.value = 1
    BY <1>3, <1>6
  <2>3. /\ console'.outLock.value = 1 /\ console'.outSem.value = 0
        /\ console'.outLock.value <= 1 /\ console'.outSem.value <= 1
    BY <1>3, <1>7, <2>2
  <2>4. ~ console'.putBusy /\ ~ Has(pending, "ConsoleWriteInt")
    BY Zenon, <1>o, <1>3, <1>7 DEF OutputOK
  <2>5. \A p \in Process : task'[p].pc # "waitOut" /\ task'[p].pc # "unlockOut"
    BY <2>1
  <2> QED BY Zenon, <2>1, <2>3, <2>4, <2>5 DEF OutputOK
<1>11. HistoryOK'
  BY Zenon, <1>1 DEF Inv, HistoryOK
<1> QED BY Zenon, <1>1, <1>5, <1>6, <1>7, <1>8, <1>9, <1>10, <1>11, InvFacts, ConsoleStep

-----------------------------------------------------------------------------
(* Calls *)

Characters == Seq(Nat)
Range32 == MinInt .. -MinInt - 1
Reads == {"ReadChar", "ReadNum", "ReadString", "ReadConsole"}

\* What is known of the arguments of a call from its name.
LEMMA CommandFacts ==
  ASSUME NEW c \in Command
  PROVE  /\ c.op = "PrintNum" => c.n \in Range32
         /\ c.op \in {"PrintChar", "PrintString", "WriteConsole"} => c.chars \in Characters
         /\ c.op = "Exec" => c.child \in Process /\ c = [op |-> "Exec", child |-> c.child]
         /\ c.op = "Create" => c = [op |-> "Create", name |-> c.name]
         /\ c.op = "CreateSemaphore" => c.name \in SemNames /\ c.value \in Int
         /\ c.op \in {"Wait", "Signal"} => c.name \in SemNames
         /\ c.op \notin {"none", "Print"}
<1>1. \/ c \in [op : {"PrintNum"}, n : Range32]
      \/ c \in [op : {"PrintChar", "PrintString"}, chars : Characters]
      \/ c \in [op : {"WriteConsole"}, chars : Bytes]
      \/ c \in [op : {"ReadNum", "ReadChar"}]
      \/ c \in [op : {"ReadString"}, n : 0..MAX_READ_STRING_LENGTH]
      \/ c \in [op : {"ReadConsole"}, n : Nat \ {0}]
      \/ c \in [op : {"Create"}, name : Names]
      \/ c \in [op : {"Open"}, name : Names, mode : Int]
      \/ c \in [op : {"Close"}, fd : Int]
      \/ c \in [op : {"Read"}, n : Nat \ {0}, fd : Int \ {0}]
      \/ c \in [op : {"Write"}, chars : Bytes, fd : Int \ {1}]
      \/ c \in [op : {"Seek"}, pos : Int, fd : Int]
      \/ c \in [op : {"Exec"}, child : Process]
      \/ c \in [op : {"CreateSemaphore"}, name : SemNames, value : Int]
      \/ c \in [op : {"Wait", "Signal"}, name : SemNames]
  BY Zenon DEF Command, Range32, Characters
<1>2. CASE c \in [op : {"PrintNum"}, n : Range32]
  BY <1>2
<1>3. CASE \/ c \in [op : {"PrintChar", "PrintString"}, chars : Characters]
           \/ c \in [op : {"WriteConsole"}, chars : Bytes]
  BY <1>3 DEF Bytes, Characters
<1>4. CASE \/ c \in [op : {"ReadNum", "ReadChar"}]
           \/ c \in [op : {"ReadString"}, n : 0..MAX_READ_STRING_LENGTH]
           \/ c \in [op : {"ReadConsole"}, n : Nat \ {0}]
           \/ c \in [op : {"Open"}, name : Names, mode : Int] \/ c \in [op : {"Close"}, fd : Int]
           \/ c \in [op : {"Read"}, n : Nat \ {0}, fd : Int \ {0}]
           \/ c \in [op : {"Write"}, chars : Bytes, fd : Int \ {1}]
           \/ c \in [op : {"Seek"}, pos : Int, fd : Int]
  BY <1>4
<1>5. CASE c \in [op : {"Create"}, name : Names]
  BY <1>5
<1>6. CASE c \in [op : {"Exec"}, child : Process]
  BY <1>6
<1>7. CASE \/ c \in [op : {"CreateSemaphore"}, name : SemNames, value : Int]
           \/ c \in [op : {"Wait", "Signal"}, name : SemNames]
  BY <1>7
<1> QED BY Zenon, <1>1, <1>2, <1>3, <1>4, <1>5, <1>6, <1>7

LEMMA NumberRange ==
  ASSUME NEW n \in Range32
  PROVE  n \in Int
BY DEF Range32

-----------------------------------------------------------------------------
(* Digits *)

\* The recursion of Digits has a solution up to every number.
DigitsBy(f, num) == f = [n \in 0 .. num |-> IF n = 0 THEN << >> ELSE <<n % 10>> \o f[n \div 10]]
LEMMA DigitsExist ==
  ASSUME NEW num \in Nat
  PROVE  \E f : DigitsBy(f, num)
<1> DEFINE T == {l \in Nat : ~ \E f : DigitsBy(f, l)}
<1>1. ASSUME NEW l \in T, \A k \in T : l <= k PROVE FALSE
  <2>1. l \in Nat /\ ~ \E f : DigitsBy(f, l)
    OBVIOUS
  <2>2. CASE l = 0
    <3> DEFINE g == [n \in 0 .. 0 |-> << >>]
    <3>1. g = [n \in 0 .. 0 |-> IF n = 0 THEN << >> ELSE <<n % 10>> \o g[n \div 10]]
      OBVIOUS
    <3> HIDE DEF g
    <3>2. DigitsBy(g, 0)
      BY Zenon, <3>1 DEF DigitsBy
    <3> QED BY Zenon, <2>1, <2>2, <3>2
  <2>3. CASE l # 0
    <3>1. l - 1 \in Nat /\ l - 1 \notin T
      BY <1>1, <2>1, <2>3
    <3>2. PICK f : DigitsBy(f, l - 1)
      BY Zenon, <3>1
    <3>f. \A n \in 0 .. l - 1 : f[n] = IF n = 0 THEN << >> ELSE <<n % 10>> \o f[n \div 10]
      BY Zenon, <3>2 DEF DigitsBy
    <3> DEFINE last == <<l % 10>> \o f[l \div 10]
               g == [n \in 0 .. l |-> IF n < l THEN f[n] ELSE last]
               e(n) == IF n = 0 THEN << >> ELSE <<n % 10>> \o g[n \div 10]
    <3>d. \A n \in 0 .. l : n # 0 => n \div 10 \in 0 .. l - 1 /\ n \div 10 < l /\ n \div 10 \in 0 .. l
      BY <2>1, <2>3
    <3>3. /\ \A n \in 0 .. l - 1 : g[n] = f[n]
          /\ g[l] = last
      <4> HIDE DEF last
      <4> QED BY <2>1
    <3>4. g = [n \in 0 .. l |-> g[n]]
      BY Zenon
    <3> HIDE DEF g
    <3>5. ASSUME NEW n \in 0 .. l PROVE g[n] = e(n)
      <4>1. CASE n = 0
        <5>1. 0 \in 0 .. l - 1
          BY <3>1
        <5> QED BY Zenon, <3>f, <3>3, <4>1, <5>1
      <4>2. CASE n # 0 /\ n # l
        <5>1. n \in 0 .. l - 1
          BY <2>1, <4>2
        <5> QED BY Zenon, <3>d, <3>f, <3>3, <4>2, <5>1
      <4>3. CASE n = l
        <5>1. g[l \div 10] = f[l \div 10]
          BY Zenon, <2>3, <3>d, <3>3, <4>3
        <5> QED BY Zenon, <2>3, <3>3, <4>3, <5>1
      <4> QED BY Zenon, <4>1, <4>2, <4>3
    <3>6. g = [n \in 0 .. l |-> e(n)]
      <4> HIDE DEF e
      <4> QED BY Zenon, <3>4, <3>5
    <3>7. DigitsBy(g, l)
      BY Zenon, <3>6 DEF DigitsBy
    <3> QED BY Zenon, <2>1, <3>7
  <2> QED BY <2>2, <2>3
<1>2. T = {}
  <2>1. T \subseteq Nat
    OBVIOUS
  <2> HIDE DEF T
  <2> QED BY Zenon, <1>1, <2>1, LeastNatural
<1> QED BY Zenon, <1>2

\* SysPrintNum computes digits, and at least one of a number that is not 0.
LEMMA DigitsType ==
  ASSUME NEW num \in Nat
  PROVE  Digits(num) \in Seq(0 .. 9) /\ (num > 0 => Len(Digits(num)) > 0)
<1> DEFINE d == CHOOSE f : DigitsBy(f, num)
           T == {n \in 0 .. num : d[n] \notin Seq(0 .. 9)}
<1>1. Digits(num) = d[num]
  BY Zenon DEF Digits, DigitsBy
<1>2. \A n \in 0 .. num : d[n] = IF n = 0 THEN << >> ELSE <<n % 10>> \o d[n \div 10]
  <2>1. \E f : DigitsBy(f, num)
    BY Zenon, DigitsExist
  <2>2. DigitsBy(d, num)
    BY Zenon, <2>1
  <2> HIDE DEF d
  <2> QED BY Zenon, <2>2 DEF DigitsBy
<1> HIDE DEF d
<1>3. ASSUME NEW n \in T, \A k \in T : n <= k PROVE FALSE
  <2>1. n \in 0 .. num /\ d[n] \notin Seq(0 .. 9)
    OBVIOUS
  <2>2. CASE n = 0
    <3>1. d[n] = << >>
      BY Zenon, <1>2, <2>1, <2>2
    <3> QED BY <2>1, <3>1
  <2>3. CASE n # 0
    <3>1. n \div 10 \in 0 .. num /\ ~(n <= n \div 10) /\ n % 10 \in 0 .. 9
      BY <2>1, <2>3
    <3>2. d[n \div 10] \in Seq(0 .. 9)
      BY Zenon, <1>3, <3>1
    <3>3. <<n % 10>> \in Seq(0 .. 9)
      BY <3>1
    <3>4. <<n % 10>> \o d[n \div 10] \in Seq(0 .. 9)
      BY Zenon, <3>2, <3>3, ConcatProperties
    <3> QED BY Zenon, <1>2, <2>1, <2>3, <3>4
  <2> QED BY <2>2, <2>3
<1>4. T = {}
  <2>1. T \subseteq Nat
    OBVIOUS
  <2> HIDE DEF T
  <2> QED BY Zenon, <1>3, <2>1, LeastNatural
<1>5. num \in 0 .. num
  OBVIOUS
<1>6. d[num] \in Seq(0 .. 9)
  BY Zenon, <1>4, <1>5
<1>7. ASSUME num > 0 PROVE Len(d[num]) > 0
  <2>1. num \div 10 \in 0 .. num /\ num # 0 /\ num % 10 \in 0 .. 9
    BY <1>7
  <2>2. d[num \div 10] \in Seq(0 .. 9)
    BY Zenon, <1>4, <2>1
  <2>3. d[num] = <<num % 10>> \o d[num \div 10]
    BY Zenon, <1>2, <1>5, <2>1
  <2>4. <<num % 10>> \in Seq(0 .. 9) /\ Len(<<num % 10>>) = 1
    BY <2>1
  <2>5. Len(d[num]) = 1 + Len(d[num \div 10])
    BY <2>2, <2>3, <2>4, ConcatProperties
  <2> QED BY <2>2, <2>5, LenProperties
<1> QED BY Zenon, <1>1, <1>6, <1>7

\* A numeral is its sign and the digits, the most significant first; the digits of an
\* int are in the number buffer.
Sign(n) == IF n < 0 THEN <<Minus>> ELSE << >>
LEMMA RestType ==
  ASSUME NEW d \in Seq(0 .. 9), NEW k \in 0 .. Len(d)
  PROVE  Rest(d, k) \in Text /\ Len(Rest(d, k)) = k
<1>1. Len(d) \in Nat /\ DOMAIN d = 1 .. Len(d) /\ \A i \in 1 .. Len(d) : d[i] \in 0 .. 9
  BY LenProperties, ElementOfSeq
<1>2. \A j \in 1 .. k : Zero + d[k + 1 - j] \in Int
  <2>1. \A j \in 1 .. k : k + 1 - j \in 1 .. Len(d)
    BY <1>1
  <2> QED BY <1>1, <2>1 DEF Zero
<1>3. Rest(d, k) = [j \in 1 .. k |-> Zero + d[k + 1 - j]]
  BY Zenon DEF Rest
<1>4. \A j \in 1 .. k : Rest(d, k)[j] \in Int
  BY Zenon, <1>2, <1>3
<1>5. Rest(d, k) = [j \in 1 .. k |-> Rest(d, k)[j]]
  BY Zenon, <1>3
<1>6. k \in Nat
  BY <1>1
<1> QED BY <1>4, <1>5, <1>6 DEF Text

LEMMA NumeralFacts ==
  ASSUME NEW n \in Int
  PROVE  /\ Numeral(n) \in Text /\ Sign(n) \in Text
         /\ n # 0 => /\ DigitsOf(n) \in Seq(0 .. 9) /\ Len(DigitsOf(n)) \in Nat \ {0}
                     /\ Numeral(n) = Sign(n) \o Rest(DigitsOf(n), Len(DigitsOf(n)))
                     /\ Len(DigitsOf(n)) <= Len(Numeral(n))
<1> DEFINE m == IF n < 0 THEN -n ELSE n
           d == DigitsOf(n)
<1>0. Sign(n) \in Text
  BY DEF Sign, Text, Minus
<1>1. m \in Nat /\ (n # 0 => m > 0)
  OBVIOUS
<1>2. d \in Seq(0 .. 9) /\ (n # 0 => Len(d) > 0)
  <2> HIDE DEF m
  <2>1. d = Digits(m)
    BY Zenon DEF DigitsOf, m
  <2> QED BY <1>1, <2>1, DigitsType
<1>3. Len(d) \in Nat
  BY <1>2, LenProperties
<1>4. CASE n = 0
  <2>1. Numeral(n) = <<Zero>>
    BY Zenon, <1>4 DEF Numeral
  <2>2. <<Zero>> \in Text
    BY DEF Text, Zero
  <2> QED BY Zenon, <1>0, <1>4, <2>1, <2>2
<1>5. CASE n # 0
  <2>1. Numeral(n) = Sign(n) \o Rest(d, Len(d))
    BY Zenon, <1>5 DEF Numeral, Sign, Rest, DigitsOf
  <2> HIDE DEF d
  <2>2. Rest(d, Len(d)) \in Text /\ Len(Rest(d, Len(d))) = Len(d)
    <3>1. Len(d) \in 0 .. Len(d)
      BY <1>3
    <3> QED BY Zenon, <1>2, <3>1, RestType
  <2>3. Numeral(n) \in Text /\ Len(Numeral(n)) = Len(Sign(n)) + Len(d)
    <3> DEFINE r == Rest(d, Len(d))
    <3> HIDE DEF r
    <3>1. Sign(n) \in Seq(Int) /\ r \in Seq(Int) /\ Numeral(n) = Sign(n) \o r /\ Len(r) = Len(d)
      BY Zenon, <1>0, <2>1, <2>2 DEF Text, r
    <3>2. Numeral(n) \in Seq(Int) /\ Len(Numeral(n)) = Len(Sign(n)) + Len(r)
      BY Zenon, <3>1, ConcatProperties
    <3> QED BY Zenon, <3>1, <3>2 DEF Text
  <2>4. Len(Sign(n)) \in Nat
    BY <1>0, LenProperties DEF Text
  <2>5. Len(d) \in Nat \ {0} /\ Len(d) <= Len(Numeral(n))
    BY <1>2, <1>3, <1>5, <2>3, <2>4
  <2> QED BY Zenon, <1>0, <1>2, <2>1, <2>3, <2>5 DEF d
<1> QED BY Zenon, <1>4, <1>5

LEMMA DigitsFit ==
  ASSUME NEW n \in Range32, n # 0
  PROVE  DigitsOf(n) \in Seq(0 .. 9) /\ Len(DigitsOf(n)) \in 1 .. MaxNumLength
<1>1. n \in Int
  BY Zenon, NumberRange
<1>2. /\ DigitsOf(n) \in Seq(0 .. 9) /\ Len(DigitsOf(n)) \in Nat \ {0}
      /\ Len(DigitsOf(n)) <= Len(Numeral(n)) /\ Numeral(n) \in Text
  BY Zenon, <1>1, NumeralFacts
<1>3. Len(Numeral(n)) <= MaxNumLength
  BY Zenon, LongestNumeral DEF Range32
<1>4. Len(Numeral(n)) \in Nat /\ MaxNumLength \in Nat
  BY <1>2, NumbersAssumption, LenProperties DEF Text
<1> QED BY <1>2, <1>3, <1>4

Buffers == [0 .. MaxNumLength + 1 -> Int]
LEMMA FillType ==
  ASSUME numberBuffer \in Buffers, NEW n \in Range32, n # 0
  PROVE  /\ Fill(n) \in Buffers
         /\ Len(DigitsOf(n)) - 1 \in 0 .. MaxNumLength
         /\ \A i \in 0 .. Len(DigitsOf(n)) - 1 : Fill(n)[i] = DigitsOf(n)[i + 1]
<1> DEFINE d == DigitsOf(n)
<1>1. d \in Seq(0 .. 9) /\ Len(d) \in 1 .. MaxNumLength /\ MaxNumLength \in Nat
  BY DigitsFit, NumbersAssumption
<1>2. Fill(n) = [i \in 0 .. MaxNumLength + 1 |-> IF i < Len(d) THEN d[i + 1] ELSE numberBuffer[i]]
  <2>1. DOMAIN numberBuffer = 0 .. MaxNumLength + 1
    BY DEF Buffers
  <2> QED BY Zenon, <2>1 DEF Fill, DigitsOf
<1> HIDE DEF d
<1>3. \A i \in 0 .. MaxNumLength + 1 : i < Len(d) => d[i + 1] \in 0 .. 9
  <2>1. \A i \in 1 .. Len(d) : d[i] \in 0 .. 9
    BY <1>1, LenProperties, ElementOfSeq
  <2> QED BY <1>1, <2>1
<1>4. Fill(n) \in Buffers
  BY <1>2, <1>3 DEF Buffers
<1>5. \A i \in 0 .. Len(d) - 1 : Fill(n)[i] = d[i + 1]
  BY <1>1, <1>2
<1>6. Len(d) - 1 \in 0 .. MaxNumLength
  BY <1>1
<1> QED BY Zenon, <1>4, <1>5, <1>6 DEF d

-----------------------------------------------------------------------------
(* What a handler does next *)

\* The four things NextOut may do: the next character of its own, the first digit, the
\* next digit, and return.
PutOwn(t) == [[t EXCEPT !.chars = Tail(t.chars)] EXCEPT !.pc = "lockOut", !.ch = Head(t.chars)]
PutFirst(t) ==
    LET last == Len(DigitsOf(t.call.n)) - 1
    IN [[t EXCEPT !.shares = TRUE, !.k = last] EXCEPT !.pc = "lockOut",
                                                      !.ch = Fill(t.call.n)[last] + Zero]
PutDigit(t) ==
    [[t EXCEPT !.k = t.k - 1] EXCEPT !.pc = "lockOut", !.ch = numberBuffer[t.k - 1] + Zero]
LEMMA NextOutCases ==
  ASSUME NEW t
  PROVE  /\ t.chars # << >> => NextOut(t) = Goes(PutOwn(t))
         /\ t.chars = << >> /\ t.call.op = "PrintNum" /\ ~ t.shares
              => NextOut(t) = [Goes(PutFirst(t)) EXCEPT !.buffer = Fill(t.call.n), !.wrote = TRUE]
         /\ t.chars = << >> /\ t.call.op = "PrintNum" /\ t.shares /\ t.k > 0
              => NextOut(t) = Goes(PutDigit(t))
         /\ t.chars = << >> /\ t.call.op = "PrintNum" /\ t.shares /\ ~(t.k > 0)
              => NextOut(t) = Returns(t)
         /\ t.chars = << >> /\ t.call.op # "PrintNum" => NextOut(t) = Returns(t)
<1>1. t.chars # << >> => NextOut(t) = Goes(PutOwn(t))
  BY Zenon DEF NextOut, PutOwn
<1>2. t.chars = << >> /\ t.call.op = "PrintNum" /\ ~ t.shares
        => NextOut(t) = [Goes(PutFirst(t)) EXCEPT !.buffer = Fill(t.call.n), !.wrote = TRUE]
  BY Zenon DEF NextOut, PutFirst, DigitsOf
<1>3. t.chars = << >> /\ t.call.op = "PrintNum" /\ t.shares /\ t.k > 0
        => NextOut(t) = Goes(PutDigit(t))
  BY Zenon DEF NextOut, PutDigit
<1>4. t.chars = << >> /\ t.call.op = "PrintNum" /\ t.shares /\ ~(t.k > 0)
        => NextOut(t) = Returns(t)
  BY Zenon DEF NextOut
<1>5. t.chars = << >> /\ t.call.op # "PrintNum" => NextOut(t) = Returns(t)
  BY Zenon DEF NextOut
<1> QED BY Zenon, <1>1, <1>2, <1>3, <1>4, <1>5

LEMMA GoesFields ==
  ASSUME NEW t
  PROVE  /\ Goes(t).t = t /\ Goes(t).buffer = numberBuffer
         /\ Goes(t).wrote = FALSE /\ Goes(t).returns = FALSE
         /\ Returns(t).t = t /\ Returns(t).buffer = numberBuffer
         /\ Returns(t).wrote = FALSE /\ Returns(t).returns = TRUE
         /\ \A b : LET r == [Goes(t) EXCEPT !.buffer = b, !.wrote = TRUE]
                   IN r.t = t /\ r.buffer = b /\ r.wrote = TRUE /\ r.returns = FALSE
BY DEF Goes, Returns

\* What a handler that goes on with the console, or returns, leaves behind.
Turned(r, pc) ==
    /\ r.buffer \in Buffers /\ r.wrote \in BOOLEAN /\ r.returns \in BOOLEAN
    /\ ~ r.returns => r.t \in Task /\ r.t.pc = pc /\ CallOK(r.t)

\* The fields of the tasks NextOut makes.
LEMMA PutOwnTask ==
  ASSUME NEW t \in Task, t.chars # << >>, NEW u, u = PutOwn(t)
  PROVE  /\ u \in Task /\ u.pc = "lockOut" /\ u.ch = Head(t.chars) /\ u.k = t.k /\ u.call = t.call
         /\ u.chars = Tail(t.chars) /\ u.put = t.put /\ u.shares = t.shares
         /\ u.disturbed = t.disturbed
<1> DEFINE c == Head(t.chars)
           rest == Tail(t.chars)
           v == [t EXCEPT !.chars = rest]
<1>1. c \in Int /\ rest \in Text
  BY TaskFields, HeadTailProperties DEF Text
<1>2. u = [v EXCEPT !.pc = "lockOut", !.ch = c]
  BY Zenon DEF PutOwn
<1> HIDE DEF c, rest
<1>3. /\ v \in Task /\ v.k = t.k /\ v.call = t.call /\ v.chars = rest /\ v.put = t.put
      /\ v.shares = t.shares /\ v.disturbed = t.disturbed
  BY Zenon, <1>1 DEF Task
<1> HIDE DEF v
<1>4. /\ u \in Task /\ u.pc = "lockOut" /\ u.ch = c /\ u.k = v.k /\ u.call = v.call
      /\ u.chars = v.chars /\ u.put = v.put /\ u.shares = v.shares
      /\ u.disturbed = v.disturbed
  <2>1. "lockOut" \in PCs
    BY DEF PCs
  <2> QED BY Zenon, <1>1, <1>2, <1>3, <2>1 DEF Task
<1> QED BY Zenon, <1>3, <1>4 DEF c, rest

LEMMA PutFirstTask ==
  ASSUME numberBuffer \in Buffers, NEW t \in Task, t.call.n \in Range32, t.call.n # 0,
         NEW u, u = PutFirst(t)
  PROVE  LET n == t.call.n
             last == Len(DigitsOf(n)) - 1
         IN /\ u \in Task /\ u.pc = "lockOut" /\ u.k = last /\ u.call = t.call
            /\ u.ch = Fill(n)[last] + Zero
            /\ u.chars = t.chars /\ u.put = t.put /\ u.shares = TRUE
            /\ u.disturbed = t.disturbed
<1> DEFINE n == t.call.n
           last == Len(DigitsOf(n)) - 1
           c == Fill(n)[last] + Zero
           v == [t EXCEPT !.shares = TRUE, !.k = last]
<1>1. Fill(n) \in Buffers /\ last \in 0 .. MaxNumLength
  BY Zenon, FillType
<1>2. c \in Int /\ last \in Nat
  <2> HIDE DEF last, n
  <2>1. MaxNumLength \in Nat
    BY NumbersAssumption
  <2>2. last \in Nat /\ last \in 0 .. MaxNumLength + 1
    BY <1>1, <2>1
  <2>3. Fill(n)[last] \in Int
    BY <1>1, <2>2 DEF Buffers
  <2> QED BY <2>2, <2>3 DEF Zero
<1>3. u = [v EXCEPT !.pc = "lockOut", !.ch = c]
  BY Zenon DEF PutFirst
<1> HIDE DEF c, last
<1>4. /\ v \in Task /\ v.k = last /\ v.call = t.call /\ v.chars = t.chars /\ v.put = t.put
      /\ v.shares = TRUE /\ v.disturbed = t.disturbed
  BY Zenon, <1>2 DEF Task
<1> HIDE DEF v
<1>5. /\ u \in Task /\ u.pc = "lockOut" /\ u.ch = c /\ u.k = v.k /\ u.call = v.call
      /\ u.chars = v.chars /\ u.put = v.put /\ u.shares = v.shares
      /\ u.disturbed = v.disturbed
  <2>1. "lockOut" \in PCs
    BY DEF PCs
  <2> QED BY Zenon, <1>2, <1>3, <1>4, <2>1 DEF Task
<1> QED BY Zenon, <1>4, <1>5 DEF c, last

LEMMA PutDigitTask ==
  ASSUME numberBuffer \in Buffers, NEW t \in Task, t.k > 0, t.k <= MaxNumLength + 1,
         NEW u, u = PutDigit(t)
  PROVE  /\ u \in Task /\ u.pc = "lockOut" /\ u.k = t.k - 1 /\ u.call = t.call
         /\ u.ch = numberBuffer[t.k - 1] + Zero
         /\ u.chars = t.chars /\ u.put = t.put /\ u.shares = t.shares
         /\ u.disturbed = t.disturbed
<1> DEFINE k == t.k - 1
           c == numberBuffer[k] + Zero
           v == [t EXCEPT !.k = k]
<1>1. t.k \in Nat /\ MaxNumLength \in Nat
  BY TaskFields, NumbersAssumption
<1>2. k \in Nat /\ k \in 0 .. MaxNumLength + 1
  BY <1>1
<1>3. u = [v EXCEPT !.pc = "lockOut", !.ch = c]
  BY Zenon DEF PutDigit
<1> HIDE DEF k
<1>4. c \in Int
  <2>1. numberBuffer[k] \in Int
    BY <1>2 DEF Buffers
  <2> QED BY <2>1 DEF Zero
<1> HIDE DEF c
<1>5. /\ v \in Task /\ v.k = k /\ v.call = t.call /\ v.chars = t.chars /\ v.put = t.put
      /\ v.shares = t.shares /\ v.disturbed = t.disturbed
  BY Zenon, <1>2 DEF Task
<1> HIDE DEF v
<1>6. /\ u \in Task /\ u.pc = "lockOut" /\ u.ch = c /\ u.k = v.k /\ u.call = v.call
      /\ u.chars = v.chars /\ u.put = v.put /\ u.shares = v.shares
      /\ u.disturbed = v.disturbed
  <2>1. "lockOut" \in PCs
    BY DEF PCs
  <2> QED BY Zenon, <1>3, <1>4, <1>5, <2>1 DEF Task
<1> QED BY Zenon, <1>5, <1>6 DEF c, k

LEMMA NextOutTurned ==
  ASSUME numberBuffer \in Buffers, NEW t \in Task, CallOK(t)
  PROVE  Turned(NextOut(t), "lockOut")
<1> DEFINE r == NextOut(t)
<1> SUFFICES Turned(r, "lockOut")
  OBVIOUS
<1>1. CASE t.chars # << >>
  <2> DEFINE u == PutOwn(t)
  <2>1. r = Goes(u)
    BY Zenon, <1>1, NextOutCases
  <2>2. u \in Task /\ u.pc = "lockOut" /\ u.k = t.k /\ u.call = t.call
    BY Zenon, <1>1, PutOwnTask
  <2> HIDE DEF r, u
  <2>3. CallOK(u)
    BY <2>2 DEF CallOK, Ins
  <2>4. r.t = u /\ r.buffer = numberBuffer /\ r.wrote = FALSE /\ r.returns = FALSE
    BY Zenon, <2>1, GoesFields
  <2> QED BY Zenon, <2>2, <2>3, <2>4 DEF Turned
<1>2. CASE t.chars = << >> /\ t.call.op = "PrintNum" /\ ~ t.shares
  <2> DEFINE u == PutFirst(t)
             b == Fill(t.call.n)
  <2>1. r = [Goes(u) EXCEPT !.buffer = b, !.wrote = TRUE]
    BY Zenon, <1>2, NextOutCases
  <2>2. t.call.n \in Range32 /\ t.call.n # 0
    <3>1. t.call \in Command
      BY <1>2, TaskFields DEF CallType, NoCall, PrintOwn
    <3> QED BY Zenon, <1>2, <3>1, CommandFacts DEF CallOK
  <2>3. b \in Buffers /\ Len(DigitsOf(t.call.n)) - 1 \in 0 .. MaxNumLength
    BY Zenon, <2>2, FillType
  <2>4. u \in Task /\ u.pc = "lockOut" /\ u.k = Len(DigitsOf(t.call.n)) - 1 /\ u.call = t.call
    BY Zenon, <2>2, PutFirstTask
  <2> HIDE DEF r, u, b
  <2>5. CallOK(u)
    <3>1. u.k <= MaxNumLength + 1
      BY <2>3, <2>4, NumbersAssumption
    <3> QED BY <2>2, <2>4, <3>1 DEF CallOK, Ins
  <2>6. r.t = u /\ r.buffer = b /\ r.wrote = TRUE /\ r.returns = FALSE
    BY <2>1 DEF Goes
  <2> QED BY Zenon, <2>3, <2>4, <2>5, <2>6 DEF Turned
<1>3. CASE t.chars = << >> /\ t.call.op = "PrintNum" /\ t.shares /\ t.k > 0
  <2> DEFINE u == PutDigit(t)
  <2>1. r = Goes(u)
    BY Zenon, <1>3, NextOutCases
  <2>2. t.k <= MaxNumLength + 1 /\ t.call.n # 0
    BY Zenon, <1>3 DEF CallOK
  <2>3. u \in Task /\ u.pc = "lockOut" /\ u.k = t.k - 1 /\ u.call = t.call
    BY Zenon, <1>3, <2>2, PutDigitTask
  <2> HIDE DEF r, u
  <2>4. CallOK(u)
    <3>1. u.k <= MaxNumLength + 1
      BY <2>2, <2>3, TaskFields, NumbersAssumption
    <3> QED BY <2>2, <2>3, <3>1 DEF CallOK, Ins
  <2>5. r.t = u /\ r.buffer = numberBuffer /\ r.wrote = FALSE /\ r.returns = FALSE
    BY Zenon, <2>1, GoesFields
  <2> QED BY Zenon, <2>3, <2>4, <2>5 DEF Turned
<1>4. CASE /\ t.chars = << >>
           /\ t.call.op # "PrintNum" \/ (t.shares /\ ~(t.k > 0))
  <2>1. r = Returns(t)
    BY Zenon, <1>4, NextOutCases
  <2> HIDE DEF r
  <2>2. r.buffer = numberBuffer /\ r.wrote = FALSE /\ r.returns = TRUE
    BY Zenon, <2>1, GoesFields
  <2> QED BY Zenon, <2>2 DEF Turned
<1> QED BY Zenon, <1>1, <1>2, <1>3, <1>4

\* What the functions that read do with a character.
Again(t) == [t EXCEPT !.pc = "lockIn", !.heard = Append(t.heard, t.ch)]
Stored(t) == [Again(t) EXCEPT !.k = t.k + 1]
LEMMA NextInCases ==
  ASSUME NEW t \in Task, t.call.op \in Reads
  PROVE  /\ t.call.op # "ReadNum" => NextIn(t) = Returns(Again(t)) \/ NextIn(t) = Goes(Again(t))
         /\ t.call.op = "ReadNum" /\ (isBlank(t.ch) \/ t.ch = EOF) => NextIn(t) = Returns(t)
         /\ t.call.op = "ReadNum" /\ ~(isBlank(t.ch) \/ t.ch = EOF)
              => NextIn(t) = [Goes(Stored(t)) EXCEPT
                                  !.buffer = [numberBuffer EXCEPT ![t.k] = t.ch],
                                  !.wrote = TRUE, !.returns = Stored(t).k > MaxNumLength]
<1>a. Again(t).k = t.k
  BY Zenon DEF Again, Task
<1> DEFINE a == [t EXCEPT !.pc = "lockIn", !.heard = Append(@, t.ch)]
<1>b. a = Again(t) /\ [a EXCEPT !.k = @ + 1] = Stored(t)
  <2>1. a = Again(t)
    BY Zenon DEF Again
  <2> HIDE DEF a
  <2> QED BY Zenon, <1>a, <2>1 DEF Stored
<1>1. t.call.op # "ReadNum" => NextIn(t) = Returns(a) \/ NextIn(t) = Goes(a)
  <2>1. CASE t.call.op = "ReadChar"
    BY Zenon, <2>1 DEF NextIn
  <2>2. CASE t.call.op = "ReadString"
    BY Zenon, <2>2 DEF NextIn
  <2>3. CASE t.call.op = "ReadConsole"
    BY Zenon, <2>3 DEF NextIn
  <2> HIDE DEF a
  <2> QED BY <2>1, <2>2, <2>3 DEF Reads
<1>2. t.call.op = "ReadNum" /\ (isBlank(t.ch) \/ t.ch = EOF) => NextIn(t) = Returns(t)
  BY Zenon DEF NextIn
<1>3. t.call.op = "ReadNum" /\ ~(isBlank(t.ch) \/ t.ch = EOF)
        => NextIn(t) = [Goes([a EXCEPT !.k = @ + 1]) EXCEPT
                            !.buffer = [numberBuffer EXCEPT ![t.k] = t.ch],
                            !.wrote = TRUE, !.returns = [a EXCEPT !.k = @ + 1].k > MaxNumLength]
  BY Zenon DEF NextIn
<1> HIDE DEF a
<1> QED BY Zenon, <1>b, <1>1, <1>2, <1>3

LEMMA AgainTask ==
  ASSUME NEW t \in Task, NEW a, a = Again(t), NEW s, s = Stored(t)
  PROVE  /\ a \in Task /\ a.pc = "lockIn" /\ a.call = t.call /\ a.k = t.k
         /\ s \in Task /\ s.pc = "lockIn" /\ s.call = t.call /\ s.k = t.k + 1
         /\ s.heard = Append(t.heard, t.ch) /\ s.ch = t.ch /\ s.put = t.put /\ s.chars = t.chars
         /\ s.shares = t.shares /\ s.disturbed = t.disturbed
<1> DEFINE h == Append(t.heard, t.ch)
           k == t.k + 1
<1>1. h \in Text /\ "lockIn" \in PCs /\ k \in Nat
  BY TaskFields DEF Text, PCs
<1>2. a = [t EXCEPT !.pc = "lockIn", !.heard = h] /\ s = [a EXCEPT !.k = k]
  BY Zenon DEF Again, Stored
<1> HIDE DEF h, k
<1>3. /\ a \in Task /\ a.pc = "lockIn" /\ a.call = t.call /\ a.k = t.k /\ a.heard = h
      /\ a.ch = t.ch /\ a.put = t.put /\ a.chars = t.chars
      /\ a.shares = t.shares /\ a.disturbed = t.disturbed
  BY Zenon, <1>1, <1>2 DEF Task
<1>4. /\ s \in Task /\ s.pc = a.pc /\ s.call = a.call /\ s.k = k /\ s.heard = a.heard
      /\ s.ch = a.ch /\ s.put = a.put /\ s.chars = a.chars
      /\ s.shares = a.shares /\ s.disturbed = a.disturbed
  BY Zenon, <1>1, <1>2, <1>3 DEF Task
<1> QED BY Zenon, <1>3, <1>4 DEF h, k

\* An entry of a function is replaced.
LEMMA EntrySet ==
  ASSUME NEW S, NEW T, NEW g \in [S -> T], NEW x, NEW y \in T
  PROVE  [g EXCEPT ![x] = y] \in [S -> T]
<1> DEFINE h == [g EXCEPT ![x] = y]
<1>1. DOMAIN h = S /\ \A i \in S : h[i] = IF i = x THEN y ELSE g[i]
  BY Zenon
<1>2. \A i \in S : h[i] \in T
  <2> HIDE DEF h
  <2> QED BY <1>1
<1>3. h = [i \in S |-> h[i]]
  BY Zenon, <1>1
<1> HIDE DEF h
<1>4. h \in [S -> T]
  BY <1>1, <1>2, <1>3
<1> QED BY <1>4 DEF h

LEMMA NextInTurned ==
  ASSUME numberBuffer \in Buffers, NEW t \in Task, t.call.op \in Reads
  PROVE  Turned(NextIn(t), "lockIn")
<1> DEFINE r == NextIn(t)
           a == Again(t)
           s == Stored(t)
<1> SUFFICES Turned(r, "lockIn")
  OBVIOUS
<1>1. /\ a \in Task /\ a.pc = "lockIn" /\ a.call = t.call
      /\ s \in Task /\ s.pc = "lockIn" /\ s.call = t.call
  BY Zenon, AgainTask
<1> HIDE DEF a, s
<1>2. CallOK(a) /\ CallOK(s)
  BY <1>1 DEF CallOK, Reads
<1>3. CASE t.call.op # "ReadNum"
  <2>1. r = Returns(a) \/ r = Goes(a)
    BY Zenon, <1>3, NextInCases DEF a
  <2> HIDE DEF r
  <2>2. /\ r.t = a /\ r.buffer = numberBuffer /\ r.wrote = FALSE
        /\ r.returns \in BOOLEAN
    <3>1. CASE r = Returns(a)
      BY Zenon, <3>1, GoesFields
    <3>2. CASE r = Goes(a)
      BY Zenon, <3>2, GoesFields
    <3> QED BY Zenon, <2>1, <3>1, <3>2
  <2> QED BY Zenon, <1>1, <1>2, <2>2 DEF Turned
<1>4. CASE t.call.op = "ReadNum" /\ (isBlank(t.ch) \/ t.ch = EOF)
  <2>1. r = Returns(t)
    BY Zenon, <1>4, NextInCases
  <2> HIDE DEF r
  <2>2. r.buffer = numberBuffer /\ r.wrote = FALSE /\ r.returns = TRUE
    BY Zenon, <2>1, GoesFields
  <2> QED BY Zenon, <2>2 DEF Turned
<1>5. CASE t.call.op = "ReadNum" /\ ~(isBlank(t.ch) \/ t.ch = EOF)
  <2> DEFINE b == [numberBuffer EXCEPT ![t.k] = t.ch]
             over == s.k > MaxNumLength
  <2>1. r = [Goes(s) EXCEPT !.buffer = b, !.wrote = TRUE, !.returns = over]
    BY Zenon, <1>5, NextInCases DEF s
  <2>2. b \in Buffers
    <3>1. t.ch \in Int
      BY Zenon, TaskFields
    <3> QED BY Zenon, <3>1, EntrySet DEF Buffers
  <2> HIDE DEF r, b, over
  <2>3. r.t = s /\ r.buffer = b /\ r.wrote = TRUE /\ r.returns = over
    BY <2>1 DEF Goes
  <2>4. r.returns \in BOOLEAN
    BY <2>3 DEF over
  <2> QED BY Zenon, <1>1, <1>2, <2>2, <2>3, <2>4 DEF Turned
<1> QED BY Zenon, <1>3, <1>4, <1>5

-----------------------------------------------------------------------------
(* Steps of the handlers *)

LEMMA IdlingTask ==
  Idling \in Task /\ CallOK(Idling) /\ Idling.pc = "user" /\ Idling.k = 0 /\ Idling.call = NoCall
<1>1. "user" \in PCs /\ NoCall \in CallType /\ EOF \in Int /\ 0 \in Nat /\ << >> \in Text
  BY EmptySeq DEF PCs, CallType, EOF, Text
<1>2. Idling \in Task
  BY Zenon, <1>1 DEF Idling, Task
<1>3. Idling.pc = "user" /\ Idling.k = 0 /\ Idling.call = NoCall
  BY DEF Idling
<1>4. CallOK(Idling)
  BY <1>3 DEF CallOK, Ins, NoCall
<1> QED BY Zenon, <1>2, <1>3, <1>4

\* An entry of the table of answers or of results is replaced.
LEMMA HistoryAnswer ==
  ASSUME HistoryOK, NEW a, history' = [history EXCEPT !.answer[Me] = a]
  PROVE  HistoryOK' /\ history'.typed = history.typed /\ history'.taken = history.taken
<1> DEFINE new == [history.answer EXCEPT ![Me] = a]
<1>1. history' = [history EXCEPT !.answer = new] /\ DOMAIN new = DOMAIN history.answer
  BY Zenon
<1> HIDE DEF new
<1>2. /\ DOMAIN history' = DOMAIN history
      /\ history'.typed = history.typed /\ history'.taken = history.taken
      /\ history'.answer = new
  BY <1>1 DEF HistoryOK
<1> QED BY <1>1, <1>2 DEF HistoryOK

LEMMA HistoryResult ==
  ASSUME HistoryOK, NEW a, history' = [history EXCEPT !.result[Me] = a]
  PROVE  /\ HistoryOK' /\ history'.typed = history.typed /\ history'.taken = history.taken
         /\ history'.answer = history.answer
<1> DEFINE new == [history.result EXCEPT ![Me] = a]
<1>1. history' = [history EXCEPT !.result = new]
  BY Zenon
<1> HIDE DEF new
<1>2. /\ DOMAIN history' = DOMAIN history
      /\ history'.typed = history.typed /\ history'.taken = history.taken
      /\ history'.answer = history.answer
  BY <1>1 DEF HistoryOK
<1> QED BY <1>2 DEF HistoryOK

\* The tasks after a handler has gone on or returned.
LEMMA ProceedTasks ==
  ASSUME Inv, Me \in Process, NEW r, NEW pc, Turned(r, pc), Proceed(r, cpu)
  PROVE  /\ task' \in [Process -> Task]
         /\ task'[Me] = IF r.returns THEN Idling ELSE r.t
         /\ \A p \in Process : p # Me =>
              /\ task'[p] = [task[p] EXCEPT !.disturbed = task[p].disturbed \/ (r.wrote /\ task[p].shares)]
              /\ task'[p].pc = task[p].pc /\ task'[p].k = task[p].k /\ task'[p].call = task[p].call
         /\ \A p \in Process : CallOK(task'[p])
<1> DEFINE mine == IF r.returns THEN Idling ELSE r.t
           d(p) == task[p].disturbed \/ (r.wrote /\ task[p].shares)
           other(p) == [task[p] EXCEPT !.disturbed = d(p)]
<1>1. mine \in Task /\ CallOK(mine)
  BY Zenon, IdlingTask DEF Turned
<1>2. ASSUME NEW p \in Process
      PROVE  /\ other(p) \in Task /\ other(p).pc = task[p].pc
             /\ other(p).k = task[p].k /\ other(p).call = task[p].call
  <2> DEFINE b == d(p)
  <2>1. task[p] \in Task
    BY Zenon, InvFacts
  <2>2. b \in BOOLEAN
    BY Zenon DEF Turned
  <2>3. other(p) = [task[p] EXCEPT !.disturbed = b]
    BY Zenon
  <2> HIDE DEF b, other
  <2> QED BY Zenon, <2>1, <2>2, <2>3 DEF Task
<1>3. task' = [p \in Process |-> IF p = Me THEN mine ELSE other(p)]
  BY Zenon DEF Proceed
<1>4. \A p \in Process : CallOK(task[p])
  BY Zenon, InvFacts
<1>o. \A p \in Process : other(p) = [task[p] EXCEPT !.disturbed = task[p].disturbed \/ (r.wrote /\ task[p].shares)]
  BY Zenon
<1> HIDE DEF mine, other
<1>5. \A p \in Process : CallOK(other(p))
  BY Zenon, <1>2, <1>4 DEF CallOK
<1>6. task' \in [Process -> Task]
  BY <1>1, <1>2, <1>3
<1>7. task'[Me] = mine /\ \A p \in Process : p # Me => task'[p] = other(p)
  BY <1>3
<1>8. \A p \in Process : CallOK(task'[p])
  BY Zenon, <1>1, <1>5, <1>7
<1> QED BY Zenon, <1>2, <1>6, <1>7, <1>8, <1>o DEF mine

LEMMA ProceedInv ==
  ASSUME Inv, NEW pc, At(pc), pc \in {"heard", "printed", "user"},
         NEW r, NEW next \in {"lockIn", "lockOut"}, Turned(r, next),
         Proceed(r, cpu), script' \in [Process -> Seq(Command)],
         UNCHANGED <<console, pending, host, fileTable, semTab, undefined>>
  PROVE  Inv'
<1> DEFINE s == IF r.returns THEN "UserMode" ELSE "SystemMode"
<1>1. Me \in Process /\ cpu.current = Me
  BY AtFacts DEF Me
<1>2. /\ task' \in [Process -> Task]
      /\ task'[Me] = IF r.returns THEN Idling ELSE r.t
      /\ \A p \in Process : p # Me => task'[p].pc = task[p].pc /\ task'[p].k = task[p].k
      /\ \A p \in Process : CallOK(task'[p])
  BY Zenon, <1>1, ProceedTasks
<1>3. task'[Me].pc = IF r.returns THEN "user" ELSE next
  BY Zenon, <1>2, IdlingTask DEF Turned
<1>4. /\ cpu' \in CPU /\ cpu'.current = cpu.current /\ cpu'.ready = cpu.ready
      /\ cpu'.status = s /\ cpu'.oldStatus = cpu.oldStatus
  <2>1. cpu' = [cpu EXCEPT !.status = s] /\ cpu \in CPU
    BY Zenon, InvFacts DEF Proceed
  <2>2. s \in {"SystemMode", "UserMode"}
    OBVIOUS
  <2> HIDE DEF s
  <2> QED BY Zenon, <2>1, <2>2, CPUStatus
<1>5. /\ task'[Me].pc \notin {"none", "done", "waitOut", "unlockOut", "wait"}
      /\ cpu'.status = IF task'[Me].pc = "user" THEN "UserMode" ELSE "SystemMode"
  BY <1>3, <1>4
<1>6. HistoryOK' /\ history'.typed = history.typed /\ history'.taken = history.taken
  <2>0. HistoryOK
    BY Zenon DEF Inv
  <2>1. CASE r.returns
    <3>1. history' = [history EXCEPT !.answer[Me] = Answer(r)]
      BY Zenon, <2>1 DEF Proceed
    <3> QED BY Zenon, <2>0, <3>1, HistoryAnswer
  <2>2. CASE ~ r.returns
    <3>1. history' = history
      BY Zenon, <2>2 DEF Proceed
    <3> QED BY Zenon, <2>0, <3>1 DEF HistoryOK
  <2> QED BY Zenon, <2>1, <2>2
<1>7. /\ ListOK(pending', 0) /\ Has(pending', "TimerInt")
      /\ InputOK(pending', console', history') /\ OutputOK(pending', console', task')
      /\ RunOK(cpu', task') /\ ConsoleQueuesOK(console', cpu', task')
      /\ SemQueuesOK(semTab', cpu', task') /\ SemsOK'
  BY Zenon, <1>1, <1>2, <1>4, <1>5, <1>6, StepOfThread
<1>8. TypeOK' /\ FilesOK'
  <2>1. numberBuffer' \in Buffers
    BY Zenon DEF Proceed, Turned
  <2>2. TypeOK'
    BY Zenon, <1>2, <1>4, <2>1 DEF Inv, TypeOK, Buffers
  <2> QED BY Zenon, <2>2 DEF Inv, FilesOK
<1> QED BY Zenon, <1>2, <1>6, <1>7, <1>8 DEF Inv

LEMMA GotCharInv ==
  ASSUME Inv, GotChar
  PROVE  Inv'
<1>1. /\ At("heard") /\ Proceed(NextIn(My), cpu)
      /\ UNCHANGED <<console, pending, script, host, fileTable, semTab, undefined>>
  BY Zenon DEF GotChar
<1>2. My \in Task /\ My.pc = "heard" /\ Me \in Process
  BY <1>1, AtFacts
<1>3. My.call.op \in Reads
  <2>1. CallOK(My)
    BY Zenon, <1>2, InvFacts DEF My, Me
  <2> QED BY <1>2, <2>1 DEF CallOK, Ins, Reads
<1>4. numberBuffer \in Buffers /\ script' \in [Process -> Seq(Command)]
  BY Zenon, <1>1 DEF Inv, TypeOK, Buffers
<1>5. Turned(NextIn(My), "lockIn")
  BY Zenon, <1>2, <1>3, <1>4, NextInTurned
<1>6. "heard" \in {"heard", "printed", "user"} /\ "lockIn" \in {"lockIn", "lockOut"}
  OBVIOUS
<1> QED BY Zenon, <1>1, <1>4, <1>5, <1>6, ProceedInv

LEMMA PrintNextInv ==
  ASSUME Inv, PrintNext
  PROVE  Inv'
<1>1. /\ At("printed") /\ Proceed(NextOut(My), cpu)
      /\ UNCHANGED <<console, pending, script, host, fileTable, semTab, undefined>>
  BY Zenon DEF PrintNext
<1>2. My \in Task /\ Me \in Process
  BY <1>1, AtFacts
<1>3. CallOK(My)
  BY Zenon, <1>2, InvFacts DEF My, Me
<1>4. numberBuffer \in Buffers /\ script' \in [Process -> Seq(Command)]
  BY Zenon, <1>1 DEF Inv, TypeOK, Buffers
<1>5. Turned(NextOut(My), "lockOut")
  BY Zenon, <1>2, <1>3, <1>4, NextOutTurned
<1>6. "printed" \in {"heard", "printed", "user"} /\ "lockOut" \in {"lockIn", "lockOut"}
  OBVIOUS
<1> QED BY Zenon, <1>1, <1>4, <1>5, <1>6, ProceedInv
=============================================================================
