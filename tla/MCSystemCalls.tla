--------------------------- MODULE MCSystemCalls ---------------------------
(***************************************************************************)
(* SystemCalls for TLC.  An int has 8 bits, so that a numeral has up to    *)
(* four characters; console and timer take two ticks.                      *)
(***************************************************************************)
EXTENDS SystemCalls

CONSTANTS p1, p2, p3

MCProcess == {p1, p2, p3}
MCNames == {"f", "g"}
MCSemNames == {"m", "r", "s", "x"}

PrintNum(n) == [op |-> "PrintNum", n |-> n]
PrintString(s) == [op |-> "PrintString", chars |-> s]
PrintChar(c) == [op |-> "PrintChar", chars |-> <<c>>]
ReadNum == [op |-> "ReadNum"]
ReadChar == [op |-> "ReadChar"]
ReadString(n) == [op |-> "ReadString", n |-> n]
ReadConsole(n) == [op |-> "ReadConsole", n |-> n]
WriteConsole(s) == [op |-> "WriteConsole", chars |-> s]
CreateF(f) == [op |-> "Create", name |-> f]
OpenF(f, mode) == [op |-> "Open", name |-> f, mode |-> mode]
CloseF(fd) == [op |-> "Close", fd |-> fd]
ReadF(n, fd) == [op |-> "Read", n |-> n, fd |-> fd]
WriteF(s, fd) == [op |-> "Write", chars |-> s, fd |-> fd]
SeekF(pos, fd) == [op |-> "Seek", pos |-> pos, fd |-> fd]
ExecP(p) == [op |-> "Exec", child |-> p]
CreateSem(s, n) == [op |-> "CreateSemaphore", name |-> s, value |-> n]
WaitSem(s) == [op |-> "Wait", name |-> s]
SignalSem(s) == [op |-> "Signal", name |-> s]

\* The processes that are ready at the start are the ones with a number in ready.
Scenario(a, b, c, ready, typed, closed, wild) ==
    [script |-> [p \in MCProcess |-> CASE p = p1 -> a [] p = p2 -> b [] p = p3 -> c],
     ready |-> ready, typed |-> typed, closed |-> closed, wild |-> wild]

MCScenarios ==
    { \* Two processes print numbers, a negative one and the special ones among them.
      Scenario(<<PrintNum(-37)>>, <<PrintNum(105), PrintNum(0)>>, << >>,
               <<p1, p2>>, << >>, FALSE, {}),
      \* One reads a number while another prints one; a third would have read it too.
      Scenario(<<ReadNum>>, <<PrintNum(-9)>>, << >>, <<p1, p2>>, <<45, 56, 32>>, FALSE, {}),
      Scenario(<<ReadNum, PrintNum(MinInt)>>, << >>, << >>,
               <<p1>>, <<49, 50, 51, 52, 53, 54>>, FALSE, {}),
      \* Readers share what is typed; the input ends.
      Scenario(<<ReadString(2), ReadChar>>, <<ReadConsole(2)>>, << >>,
               <<p1, p2>>, <<65, 66, 67>>, TRUE, {}),
      Scenario(<<ReadNum, ReadNum>>, <<PrintChar(65)>>, <<ReadChar>>,
               <<p1, p2, p3>>, <<55, 32, 56>>, TRUE, {}),
      \* Nothing is read after a byte 0xFF; a string of length 0.
      Scenario(<<ReadString(2), ReadChar>>, <<ReadString(0), ReadNum>>, << >>,
               <<p1, p2>>, <<65, EOF, 66>>, FALSE, {}),
      \* Printers take turns character by character.
      Scenario(<<PrintString(<<65, 66>>)>>, <<WriteConsole(<<67, 68>>)>>, <<PrintString(<< >>)>>,
               <<p1, p2, p3>>, << >>, FALSE, {}),
      \* Files: a writer and a reader, full tables, descriptors that are not open.
      Scenario(<<CreateF("f"), OpenF("f", 0), WriteF(<<1, 2, 3>>, 2), ExecP(p2), SeekF(1, 2),
                 WriteF(<<9>>, 2), SeekF(5, 2), SeekF(-1, 2), ReadF(1, 2), CreateF("f"),
                 WriteF(<<4>>, 2), CloseF(2)>>,
               <<OpenF("f", 1), WriteF(<<8>>, 2), ReadF(2, 2), ReadF(9, 2), OpenF("f", 0),
                 OpenF("f", 0), OpenF("g", 1), OpenF("f", 2), CloseF(2), CloseF(2), WriteF(<<7>>, 7)>>,
               << >>, <<p1>>, << >>, FALSE, {}),
      Scenario(<<CreateF("f"), OpenF("f", 0), ReadF(1, 2), ExecP(p2), CloseF(1)>>,
               <<OpenF("f", 0), WriteF(<<5>>, 0), ReadF(1, 1)>>, << >>,
               <<p1>>, << >>, FALSE, {2}),
      \* Semaphores: mutual exclusion and a rendezvous; names used twice or
      \* unknown; a negative count.
      Scenario(<<CreateSem("m", 1), CreateSem("r", 0), ExecP(p2), ExecP(p3),
                 WaitSem("m"), PrintChar(65), SignalSem("m"), WaitSem("r")>>,
               <<WaitSem("m"), PrintChar(66), SignalSem("m")>>,
               <<WaitSem("m"), SignalSem("m"), SignalSem("r")>>,
               <<p1>>, << >>, FALSE, {}),
      Scenario(<<CreateSem("m", 1), CreateSem("r", -1), ExecP(p2), CreateSem("s", 0), WaitSem("s")>>,
               <<WaitSem("r"), CreateSem("m", 0), WaitSem("m"), WaitSem("x"), SignalSem("x")>>, << >>,
               <<p1>>, << >>, FALSE, {}) }
=============================================================================
