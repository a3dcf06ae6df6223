--------------------------- MODULE NumbersProofs ---------------------------
(***************************************************************************)
(* Numbers printed and read by the system calls of module SystemCalls, for *)
(* any processes, scripts and input: what the calls and the global         *)
(* _numberBuffer hold meanwhile.                                           *)
(***************************************************************************)
EXTENDS SystemCallsProofs

-----------------------------------------------------------------------------
(* The number buffer *)

Out == {"lockOut", "waitOut", "unlockOut", "printed"}
\* What has been printed, the character that is being printed included.
Said(t) == IF t.pc = "lockOut" THEN Append(t.put, t.ch) ELSE t.put

\* SysPrintNum has printed said.  While its digits are its own: those below k, which are
\* still to be printed, are in the buffer, and what was printed and they make up the
\* numeral.
Printing(t, said, buffer) ==
    LET d == DigitsOf(t.call.n)
    IN /\ ~t.shares => ~t.disturbed /\ said \o t.chars = Sign(t.call.n)
       /\ t.shares => t.chars = << >>
       /\ t.shares /\ ~t.disturbed =>
            /\ t.k < Len(d)
            /\ \A i \in 0 .. t.k - 1 : buffer[i] = d[i + 1]
            /\ said \o Rest(d, t.k) = Numeral(t.call.n)
PrintsOK(t, buffer) == t.pc \in Out /\ Printing(t, Said(t), buffer)

\* SysReadNum has read heard.  Until it is disturbed, the buffer holds that, and zeros.
Holds(t, buffer) ==
    /\ t.heard \in Seq(Character) /\ Len(t.heard) = t.k
    /\ ~t.disturbed =>
         \A i \in 0 .. MaxNumLength + 1 : buffer[i] = IF i < t.k THEN t.heard[i + 1] ELSE 0
ReadsOK(t, buffer) ==
    /\ t.pc \in Ins /\ t.shares /\ t.k <= MaxNumLength /\ Holds(t, buffer)
    /\ t.pc \in {"unlockIn", "heard"} => t.ch \in Read

NumberOK(t, buffer) == /\ t.call.op = "PrintNum" => PrintsOK(t, buffer)
                       /\ t.call.op = "ReadNum" => ReadsOK(t, buffer)
NumbersOK == NumbersIntact /\ \A p \in Process : NumberOK(task[p], numberBuffer)

\* What a step of a handler has to leave behind.
AnswerOK(a) == ~a.disturbed => a.got = a.wanted
Fine(r) ==
    /\ ~ r.returns => NumberOK(r.t, r.buffer)
    /\ r.returns => AnswerOK(Answer(r))
    /\ r.wrote \/ r.buffer = numberBuffer

\* One digit more: it is printed before those below it.
LEMMA RestStep ==
  ASSUME NEW d \in Seq(0 .. 9), NEW k \in 0 .. Len(d) - 1, NEW s \in Text,
         NEW c, c = d[k + 1] + Zero
  PROVE  Append(s, c) \o Rest(d, k) = s \o Rest(d, k + 1)
<1> DEFINE q == Rest(d, k + 1)
<1>1. Len(d) \in Nat /\ k \in 0 .. Len(d) /\ k + 1 \in 0 .. Len(d) /\ k \in Nat
  BY LenProperties
<1>2. q \in Seq(Int) /\ Len(q) = k + 1 /\ Rest(d, k) \in Seq(Int) /\ Len(Rest(d, k)) = k
  BY <1>1, RestType DEF Text
<1>3. q # << >>
  BY <1>1, <1>2, EmptySeq
<1>4. \A j \in 1 .. k + 1 : q[j] = Zero + d[k + 2 - j]
  BY <1>1 DEF Rest
<1>5. \A j \in 1 .. k : Rest(d, k)[j] = Zero + d[k + 1 - j]
  BY <1>1 DEF Rest
<1> HIDE DEF q
<1>6. /\ Head(q) = q[1] /\ Tail(q) \in Seq(Int) /\ Len(Tail(q)) = k
      /\ \A j \in 1 .. k : Tail(q)[j] = q[j + 1]
  BY <1>1, <1>2, <1>3, HeadTailProperties
<1>7. Head(q) = c
  <2>1. q[1] = Zero + d[k + 1]
    BY <1>1, <1>4
  <2>2. d[k + 1] \in Int
    BY <1>1, LenProperties, ElementOfSeq
  <2> QED BY <1>6, <2>1, <2>2 DEF Zero
<1>8. Tail(q) = Rest(d, k)
  <2>1. ASSUME NEW j \in 1 .. k PROVE Tail(q)[j] = Rest(d, k)[j]
    <3>1. j + 1 \in 1 .. k + 1 /\ k + 2 - (j + 1) = k + 1 - j
      BY <1>1
    <3>2. Tail(q)[j] = Zero + d[k + 2 - (j + 1)]
      BY Zenon, <1>4, <1>6, <3>1
    <3> QED BY Zenon, <1>5, <3>1, <3>2
  <2> QED BY Zenon, <1>2, <1>6, <2>1, SeqEqual
<1>9. Append(s, Head(q)) \o Tail(q) = s \o q
  BY Zenon, <1>2, <1>3, TakeFirst DEF Text
<1> QED BY Zenon, <1>7, <1>8, <1>9 DEF q

\* strlen finds the end of what was read.
LEMMA PrefixIs ==
  ASSUME NEW b \in Buffers, NEW h \in Seq(Character), Len(h) <= MaxNumLength + 1,
         \A i \in 0 .. MaxNumLength + 1 : b[i] = IF i < Len(h) THEN h[i + 1] ELSE 0
  PROVE  Prefix(b) = h
<1> DEFINE Z == {i \in DOMAIN b : b[i] = 0} \cup {MaxNumLength + 2}
<1>1. MaxNumLength \in Nat /\ Len(h) \in Nat /\ DOMAIN b = 0 .. MaxNumLength + 1
  BY NumbersAssumption, LenProperties DEF Buffers
<1>2. Z \subseteq Nat /\ Z # {}
  BY <1>1
<1>3. Min(Z) \in Z /\ \A i \in Z : Min(Z) <= i
  BY Zenon, <1>2, MinOfNaturals
<1>4. Len(h) \in Z
  BY <1>1
<1>5. \A i \in Z : i >= Len(h)
  <2>1. ASSUME NEW i \in Z, ~(i >= Len(h)) PROVE FALSE
    <3>1. i \in 0 .. MaxNumLength + 1 /\ i + 1 \in 1 .. Len(h) /\ b[i] = 0
      BY <1>1, <2>1
    <3>2. h[i + 1] \in Character /\ h[i + 1] = 0
      BY <1>1, <3>1, ElementOfSeq
    <3> QED BY <3>2 DEF Character, EOF
  <2> QED BY <2>1
<1>6. Min(Z) = Len(h)
  <2> DEFINE m == Min(Z)
  <2>1. m \in Z /\ m <= Len(h) /\ m >= Len(h)
    BY Zenon, <1>3, <1>4, <1>5
  <2>2. m \in Nat
    BY Zenon, <1>2, <2>1
  <2> HIDE DEF m
  <2>3. m = Len(h)
    BY <1>1, <2>1, <2>2
  <2> QED BY Zenon, <2>3 DEF m
<1>7. Prefix(b) = [i \in 1 .. Len(h) |-> b[i - 1]]
  BY Zenon, <1>6 DEF Prefix
<1>8. \A i \in 1 .. Len(h) : b[i - 1] = h[i]
  BY <1>1
<1>9. h = [i \in 1 .. Len(h) |-> h[i]]
  BY LenProperties
<1> QED BY <1>7, <1>8, <1>9

\* The call of a task that prints a number.
LEMMA NumberFacts ==
  ASSUME NEW t \in Task, t.call.op = "PrintNum", CallOK(t)
  PROVE  LET n == t.call.n
         IN /\ n \in Range32 /\ n \in Int /\ n # 0 /\ t.k \in Nat /\ t.k <= MaxNumLength + 1
            /\ DigitsOf(n) \in Seq(0 .. 9) /\ Len(DigitsOf(n)) \in 1 .. MaxNumLength
            /\ Numeral(n) = Sign(n) \o Rest(DigitsOf(n), Len(DigitsOf(n)))
<1>1. "PrintNum" # "none" /\ "PrintNum" # "Print"
  OBVIOUS
<1>2. NoCall.op = "none" /\ PrintOwn.op = "Print"
  BY DEF NoCall, PrintOwn
<1>3. t.call \in CallType /\ t.k \in Nat
  BY Zenon, TaskFields
<1>4. t.call \in Command
  BY Zenon, <1>1, <1>2, <1>3 DEF CallType
<1>5. t.call.n \in Range32 /\ t.call.n # 0 /\ t.k <= MaxNumLength + 1
  BY Zenon, <1>4, CommandFacts DEF CallOK
<1>6. t.call.n \in Int
  BY Zenon, <1>5, NumberRange
<1> QED BY Zenon, <1>3, <1>5, <1>6, DigitsFit, NumeralFacts

\* What SysPrintNum does next, with a character of its own.
LEMMA OwnFine ==
  ASSUME numberBuffer \in Buffers, NEW t \in Task, t.call.op = "PrintNum", CallOK(t),
         Printing(t, t.put, numberBuffer), t.chars # << >>
  PROVE  PrintsOK(PutOwn(t), numberBuffer)
<1> DEFINE u == PutOwn(t)
<1>1. /\ u.pc = "lockOut" /\ u.ch = Head(t.chars) /\ u.k = t.k /\ u.call = t.call
      /\ u.chars = Tail(t.chars) /\ u.put = t.put /\ u.shares = t.shares
      /\ u.disturbed = t.disturbed
  BY Zenon, PutOwnTask
<1> HIDE DEF u
<1>2. ~t.shares /\ ~t.disturbed /\ t.put \o t.chars = Sign(t.call.n)
  BY Zenon DEF Printing
<1>3. t.put \in Seq(Int) /\ t.chars \in Seq(Int)
  BY Zenon, TaskFields DEF Text
<1>4. Said(u) = Append(t.put, Head(t.chars))
  BY Zenon, <1>1 DEF Said
<1>5. Said(u) \o u.chars = Sign(u.call.n)
  BY Zenon, <1>1, <1>2, <1>3, <1>4, TakeFirst
<1>6. Printing(u, Said(u), numberBuffer)
  BY Zenon, <1>1, <1>2, <1>5 DEF Printing
<1>7. u.pc \in Out
  BY <1>1 DEF Out
<1> QED BY Zenon, <1>6, <1>7 DEF PrintsOK, u

\* What it does with the first digit.
LEMMA FirstFine ==
  ASSUME numberBuffer \in Buffers, NEW t \in Task, t.call.op = "PrintNum", CallOK(t),
         Printing(t, t.put, numberBuffer), t.chars = << >>, ~t.shares
  PROVE  PrintsOK(PutFirst(t), Fill(t.call.n))
<1> DEFINE u == PutFirst(t)
           n == t.call.n
           d == DigitsOf(n)
           last == Len(d) - 1
           f == Fill(n)
<1>1. /\ n \in Range32 /\ n \in Int /\ n # 0 /\ d \in Seq(0 .. 9) /\ Len(d) \in 1 .. MaxNumLength
      /\ Numeral(n) = Sign(n) \o Rest(d, Len(d))
  BY Zenon, NumberFacts
<1>2. /\ u.pc = "lockOut" /\ u.k = last /\ u.call = t.call /\ u.ch = f[last] + Zero
      /\ u.chars = t.chars /\ u.put = t.put /\ u.shares = TRUE
  BY Zenon, <1>1, PutFirstTask
<1>3. \A i \in 0 .. last : f[i] = d[i + 1]
  BY Zenon, <1>1, FillType
<1>4. ~t.disturbed /\ t.put \o t.chars = Sign(n)
  BY Zenon DEF Printing
<1>5. t.put \in Seq(Int) /\ t.put \in Text
  BY Zenon, TaskFields DEF Text
<1>6. t.put = Sign(n)
  BY <1>4, <1>5, ConcatEmptySeq
<1> HIDE DEF u, n, d, f
<1>7. /\ last \in 0 .. Len(d) - 1 /\ last \in 0 .. last /\ last < Len(d) /\ last + 1 = Len(d)
      /\ \A i \in 0 .. last - 1 : i \in 0 .. last
  BY <1>1, NumbersAssumption
<1>8. u.ch = d[last + 1] + Zero
  BY Zenon, <1>2, <1>3, <1>7
<1>9. Append(t.put, u.ch) \o Rest(d, last) = t.put \o Rest(d, last + 1)
  BY Zenon, <1>1, <1>5, <1>7, <1>8, RestStep
<1>10. Said(u) \o Rest(d, last) = Numeral(n)
  BY Zenon, <1>1, <1>2, <1>6, <1>7, <1>9 DEF Said
<1>11. Printing(u, Said(u), f)
  BY Zenon, <1>2, <1>3, <1>7, <1>10 DEF Printing, d, n
<1>12. u.pc \in Out
  BY <1>2 DEF Out
<1> QED BY Zenon, <1>11, <1>12 DEF PrintsOK, u, f, n

\* What it does with the next digit, which it takes from the buffer.
LEMMA DigitFine ==
  ASSUME numberBuffer \in Buffers, NEW t \in Task, t.call.op = "PrintNum", CallOK(t),
         Printing(t, t.put, numberBuffer), t.chars = << >>, t.shares, t.k > 0
  PROVE  PrintsOK(PutDigit(t), numberBuffer)
<1> DEFINE u == PutDigit(t)
           n == t.call.n
           d == DigitsOf(n)
<1>1. /\ t.k \in Nat /\ t.k <= MaxNumLength + 1 /\ d \in Seq(0 .. 9) /\ Len(d) \in 1 .. MaxNumLength
  BY Zenon, NumberFacts
<1>2. /\ u.pc = "lockOut" /\ u.k = t.k - 1 /\ u.call = t.call
      /\ u.ch = numberBuffer[t.k - 1] + Zero
      /\ u.chars = t.chars /\ u.put = t.put /\ u.shares = t.shares
      /\ u.disturbed = t.disturbed
  BY Zenon, <1>1, PutDigitTask
<1>3. t.put \in Text
  BY Zenon, TaskFields
<1>4. ~t.disturbed => /\ t.k < Len(d) /\ \A i \in 0 .. t.k - 1 : numberBuffer[i] = d[i + 1]
                      /\ t.put \o Rest(d, t.k) = Numeral(n)
  BY Zenon DEF Printing
<1> HIDE DEF u, n, d
<1>5. ASSUME ~t.disturbed
      PROVE  /\ u.k < Len(d) /\ \A i \in 0 .. u.k - 1 : numberBuffer[i] = d[i + 1]
             /\ Said(u) \o Rest(d, u.k) = Numeral(n)
  <2> DEFINE k == t.k - 1
  <2>1. t.k < Len(d)
    BY Zenon, <1>4, <1>5
  <2>2. Len(d) \in Nat
    BY <1>1, LenProperties
  <2>3. /\ k \in 0 .. Len(d) - 1 /\ k \in 0 .. t.k - 1 /\ k + 1 = t.k /\ k < Len(d)
        /\ \A i \in 0 .. k - 1 : i \in 0 .. t.k - 1
    BY <1>1, <2>1, <2>2
  <2> HIDE DEF k
  <2>4. u.k = k /\ u.ch = d[k + 1] + Zero /\ \A i \in 0 .. k - 1 : numberBuffer[i] = d[i + 1]
    BY Zenon, <1>2, <1>4, <1>5, <2>3 DEF k
  <2>5. Append(t.put, u.ch) \o Rest(d, k) = t.put \o Rest(d, k + 1)
    BY Zenon, <1>1, <1>3, <2>3, <2>4, RestStep
  <2> QED BY Zenon, <1>2, <1>4, <1>5, <2>3, <2>4, <2>5 DEF Said
<1>6. Printing(u, Said(u), numberBuffer)
  BY Zenon, <1>2, <1>5 DEF Printing, d, n
<1>7. u.pc \in Out
  BY <1>2 DEF Out
<1> QED BY Zenon, <1>6, <1>7 DEF PrintsOK, u

\* The answer of a handler that returns.
LEMMA AnswerFields ==
  ASSUME NEW r
  PROVE  /\ r.t.call.op = "PrintNum" =>
              /\ Answer(r).wanted = Numeral(r.t.call.n) /\ Answer(r).got = r.t.put
              /\ Answer(r).disturbed = r.t.disturbed
         /\ r.t.call.op = "ReadNum" =>
              /\ Answer(r).wanted = <<ParseNum(r.t.heard)>>
              /\ Answer(r).got = <<ParseNum(Prefix(r.buffer))>>
              /\ Answer(r).disturbed = r.t.disturbed
         /\ r.t.call.op \notin {"PrintNum", "ReadNum"} => AnswerOK(Answer(r))
<1> DEFINE op == r.t.call.op
           a == [wanted |-> Numeral(r.t.call.n), got |-> r.t.put, disturbed |-> r.t.disturbed]
           b == [wanted |-> <<ParseNum(r.t.heard)>>, got |-> <<ParseNum(Prefix(r.buffer))>>,
                 disturbed |-> r.t.disturbed]
           c == [wanted |-> << >>, got |-> << >>, disturbed |-> FALSE]
<1>1. Answer(r) = CASE op = "PrintNum" -> a [] op = "ReadNum" -> b [] OTHER -> c
  BY Zenon DEF Answer
<1>2. /\ a.wanted = Numeral(r.t.call.n) /\ a.got = r.t.put /\ a.disturbed = r.t.disturbed
      /\ b.wanted = <<ParseNum(r.t.heard)>> /\ b.got = <<ParseNum(Prefix(r.buffer))>>
      /\ b.disturbed = r.t.disturbed /\ c.got = c.wanted
  BY Zenon
<1> HIDE DEF op, a, b, c
<1>3. /\ op = "PrintNum" => Answer(r) = a
      /\ op = "ReadNum" => Answer(r) = b
      /\ op \notin {"PrintNum", "ReadNum"} => Answer(r) = c
  BY <1>1
<1> QED BY Zenon, <1>2, <1>3 DEF AnswerOK, op

LEMMA FineGoes ==
  ASSUME NEW r, r.returns = FALSE, NumberOK(r.t, r.buffer), r.wrote \/ r.buffer = numberBuffer
  PROVE  Fine(r)
BY Zenon DEF Fine

LEMMA FineReturns ==
  ASSUME NEW r, r.returns = TRUE, AnswerOK(Answer(r)), r.wrote \/ r.buffer = numberBuffer
  PROVE  Fine(r)
<1>1. r.returns
  OBVIOUS
<1> QED BY Zenon, <1>1 DEF Fine

\* The next PutChar keeps the number in order, or the call has printed it.
LEMMA NextOutFine ==
  ASSUME numberBuffer \in Buffers, NEW t \in Task, CallOK(t), t.call.op # "ReadNum",
         t.call.op = "PrintNum" => Printing(t, t.put, numberBuffer)
  PROVE  Fine(NextOut(t))
<1> DEFINE r == NextOut(t)
<1>0. r = NextOut(t) /\ "PrintNum" # "ReadNum"
  OBVIOUS
<1> HIDE DEF r
<1>1. CASE t.call.op = "PrintNum" /\ t.chars # << >>
  <2>1. r = Goes(PutOwn(t)) /\ PrintsOK(PutOwn(t), numberBuffer) /\ PutOwn(t).call = t.call
    BY Zenon, <1>1, <1>0, NextOutCases, OwnFine, PutOwnTask
  <2>2. r.t = PutOwn(t) /\ r.buffer = numberBuffer /\ r.returns = FALSE
    BY Zenon, <2>1, GoesFields
  <2> QED BY Zenon, <1>0, <1>1, <2>1, <2>2 DEF Fine, NumberOK
<1>2. CASE t.call.op = "PrintNum" /\ t.chars = << >> /\ ~t.shares
  <2> DEFINE f == Fill(t.call.n)
  <2>1. /\ r = [Goes(PutFirst(t)) EXCEPT !.buffer = f, !.wrote = TRUE]
        /\ PrintsOK(PutFirst(t), f)
    BY Zenon, <1>2, <1>0, NextOutCases, FirstFine
  <2>2. PutFirst(t).call = t.call
    BY Zenon, <1>2, NumberFacts, PutFirstTask
  <2> HIDE DEF f
  <2>3. r.t = PutFirst(t) /\ r.buffer = f /\ r.wrote = TRUE /\ r.returns = FALSE
    BY <2>1 DEF Goes
  <2> QED BY Zenon, <1>0, <1>2, <2>1, <2>2, <2>3 DEF Fine, NumberOK
<1>3. CASE t.call.op = "PrintNum" /\ t.chars = << >> /\ t.shares /\ t.k > 0
  <2>1. r = Goes(PutDigit(t)) /\ PrintsOK(PutDigit(t), numberBuffer)
    BY Zenon, <1>3, <1>0, NextOutCases, DigitFine
  <2>2. PutDigit(t).call = t.call
    BY Zenon, <1>3, NumberFacts, PutDigitTask
  <2>3. r.t = PutDigit(t) /\ r.buffer = numberBuffer /\ r.returns = FALSE
    BY Zenon, <2>1, GoesFields
  <2> QED BY Zenon, <1>0, <1>3, <2>1, <2>2, <2>3 DEF Fine, NumberOK
<1>4. CASE t.call.op = "PrintNum" /\ t.chars = << >> /\ t.shares /\ ~(t.k > 0)
  <2>1. r = Returns(t)
    BY Zenon, <1>4, <1>0, NextOutCases
  <2>2. r.t = t /\ r.buffer = numberBuffer /\ r.returns = TRUE
    BY Zenon, <2>1, GoesFields
  <2>3. t.k \in Nat /\ DigitsOf(t.call.n) \in Seq(0 .. 9)
    BY Zenon, <1>4, NumberFacts
  <2>4. t.k = 0 /\ 0 \in 0 .. Len(DigitsOf(t.call.n))
    BY <1>4, <2>3, LenProperties
  <2>5. Rest(DigitsOf(t.call.n), 0) \in Text /\ Len(Rest(DigitsOf(t.call.n), 0)) = 0
    BY Zenon, <2>3, <2>4, RestType
  <2>6. Rest(DigitsOf(t.call.n), 0) = << >>
    BY <2>5, EmptySeq DEF Text
  <2>7. t.put \in Seq(Int)
    BY Zenon, TaskFields DEF Text
  <2>8. ~t.disturbed => t.put \o << >> = Numeral(t.call.n)
    BY Zenon, <1>4, <2>4, <2>6 DEF Printing
  <2>9. t.put \o << >> = t.put
    BY <2>7, ConcatEmptySeq
  <2>10. /\ Answer(r).wanted = Numeral(t.call.n) /\ Answer(r).got = t.put
         /\ Answer(r).disturbed = t.disturbed
    BY Zenon, <1>4, <2>2, AnswerFields
  <2>11. AnswerOK(Answer(r))
    BY Zenon, <2>8, <2>9, <2>10 DEF AnswerOK
  <2> QED BY Zenon, <1>0, <2>2, <2>11, FineReturns
<1>5. CASE t.call.op # "PrintNum"
  <2>1. \/ r = Goes(PutOwn(t)) /\ PutOwn(t).call = t.call
        \/ r = Returns(t)
    BY Zenon, <1>5, <1>0, NextOutCases, PutOwnTask
  <2>2. CASE r = Goes(PutOwn(t)) /\ PutOwn(t).call = t.call
    <3>1. r.t = PutOwn(t) /\ r.buffer = numberBuffer /\ r.returns = FALSE
      BY Zenon, <2>2, GoesFields
    <3>2. NumberOK(r.t, r.buffer)
      BY Zenon, <1>5, <2>2, <3>1 DEF NumberOK
    <3> QED BY Zenon, <1>0, <3>1, <3>2, FineGoes
  <2>3. CASE r = Returns(t)
    <3>1. r.t = t /\ r.buffer = numberBuffer /\ r.returns = TRUE
      BY Zenon, <2>3, GoesFields
    <3>2. r.t.call.op \notin {"PrintNum", "ReadNum"}
      BY Zenon, <1>5, <3>1
    <3>3. AnswerOK(Answer(r))
      BY Zenon, <3>2, AnswerFields
    <3> QED BY Zenon, <1>0, <3>1, <3>3, FineReturns
  <2> QED BY Zenon, <2>1, <2>2, <2>3
<1> QED BY Zenon, <1>0, <1>1, <1>2, <1>3, <1>4, <1>5

\* What SysReadNum does with a character keeps what it has read, or the call returns the
\* number that was typed.
LEMMA NextInFine ==
  ASSUME numberBuffer \in Buffers, NEW t \in Task, t.call.op \in Reads, t.pc = "heard",
         t.call.op = "ReadNum" => ReadsOK(t, numberBuffer)
  PROVE  Fine(NextIn(t))
<1> DEFINE r == NextIn(t)
           a == Again(t)
           s == Stored(t)
<1>0. r = NextIn(t) /\ a = Again(t) /\ s = Stored(t)
  OBVIOUS
<1>1. /\ a.call = t.call /\ s.pc = "lockIn" /\ s.call = t.call /\ s.k = t.k + 1
      /\ s.heard = Append(t.heard, t.ch) /\ s.shares = t.shares /\ s.disturbed = t.disturbed
  BY Zenon, AgainTask
<1> HIDE DEF r, a, s
<1>2. CASE t.call.op # "ReadNum"
  <2>0. t.call.op # "PrintNum"
    BY DEF Reads
  <2>1. r = Returns(a) \/ r = Goes(a)
    BY Zenon, <1>0, <1>2, NextInCases
  <2>2. CASE r = Returns(a)
    <3>1. r.t = a /\ r.buffer = numberBuffer /\ r.returns = TRUE
      BY Zenon, <2>2, GoesFields
    <3>2. r.t.call.op \notin {"PrintNum", "ReadNum"}
      BY Zenon, <1>1, <1>2, <2>0, <3>1
    <3>3. AnswerOK(Answer(r))
      BY Zenon, <3>2, AnswerFields
    <3> QED BY Zenon, <1>0, <3>1, <3>3, FineReturns
  <2>3. CASE r = Goes(a)
    <3>1. r.t = a /\ r.buffer = numberBuffer /\ r.returns = FALSE
      BY Zenon, <2>3, GoesFields
    <3>2. NumberOK(r.t, r.buffer)
      BY Zenon, <1>1, <1>2, <2>0, <3>1 DEF NumberOK
    <3> QED BY Zenon, <1>0, <3>1, <3>2, FineGoes
  <2> QED BY Zenon, <2>1, <2>2, <2>3
<1>3. CASE t.call.op = "ReadNum" /\ (isBlank(t.ch) \/ t.ch = EOF)
  <2>1. r = Returns(t)
    BY Zenon, <1>0, <1>3, NextInCases
  <2>2. r.t = t /\ r.buffer = numberBuffer /\ r.returns = TRUE
    BY Zenon, <2>1, GoesFields
  <2>3. Holds(t, numberBuffer) /\ t.k <= MaxNumLength
    BY Zenon, <1>3 DEF ReadsOK
  <2>4. t.k <= MaxNumLength + 1
    BY <2>3, TaskFields, NumbersAssumption
  <2>5. ~t.disturbed => Prefix(numberBuffer) = t.heard
    BY Zenon, <2>3, <2>4, PrefixIs DEF Holds
  <2>6. /\ Answer(r).wanted = <<ParseNum(t.heard)>>
        /\ Answer(r).got = <<ParseNum(Prefix(numberBuffer))>>
        /\ Answer(r).disturbed = t.disturbed
    BY Zenon, <1>3, <2>2, AnswerFields
  <2>7. AnswerOK(Answer(r))
    BY Zenon, <2>5, <2>6 DEF AnswerOK
  <2> QED BY Zenon, <1>0, <2>2, <2>7, FineReturns
<1>4. CASE t.call.op = "ReadNum" /\ ~(isBlank(t.ch) \/ t.ch = EOF)
  <2> DEFINE b == [numberBuffer EXCEPT ![t.k] = t.ch]
             over == s.k > MaxNumLength
  <2>1. r = [Goes(s) EXCEPT !.buffer = b, !.wrote = TRUE, !.returns = over]
    BY Zenon, <1>0, <1>4, NextInCases
  <2>2. /\ Holds(t, numberBuffer) /\ t.k <= MaxNumLength /\ t.shares /\ t.ch \in Read
        /\ t.k \in Nat /\ t.ch \in Int
    BY Zenon, <1>4, TaskFields DEF ReadsOK
  <2>3. t.ch \in Character
    BY Zenon, <1>4, <2>2 DEF Read
  <2>4. b \in Buffers
    BY Zenon, <2>2, EntrySet DEF Buffers
  <2>5. /\ t.heard \in Seq(Character) /\ Len(t.heard) = t.k
        /\ ~t.disturbed =>
             \A i \in 0 .. MaxNumLength + 1 :
                 numberBuffer[i] = IF i < t.k THEN t.heard[i + 1] ELSE 0
    BY Zenon, <2>2 DEF Holds
  <2>6. /\ s.heard \in Seq(Character) /\ Len(s.heard) = s.k /\ s.k \in Nat
        /\ s.heard[t.k + 1] = t.ch /\ \A i \in 0 .. t.k - 1 : s.heard[i + 1] = t.heard[i + 1]
    <3>1. /\ Append(t.heard, t.ch) \in Seq(Character) /\ Len(Append(t.heard, t.ch)) = t.k + 1
          /\ Append(t.heard, t.ch)[t.k + 1] = t.ch
          /\ \A j \in 1 .. t.k : Append(t.heard, t.ch)[j] = t.heard[j]
      BY <2>3, <2>5, AppendProperties
    <3>2. \A i \in 0 .. t.k - 1 : i + 1 \in 1 .. t.k
      BY <2>2
    <3>3. t.k + 1 \in Nat
      BY <2>2
    <3> QED BY Zenon, <1>1, <3>1, <3>2, <3>3
  <2>7. ~s.disturbed =>
          \A i \in 0 .. MaxNumLength + 1 : b[i] = IF i < s.k THEN s.heard[i + 1] ELSE 0
    <3> SUFFICES ASSUME ~s.disturbed, NEW i \in 0 .. MaxNumLength + 1
                 PROVE  b[i] = IF i < s.k THEN s.heard[i + 1] ELSE 0
      OBVIOUS
    <3>1. numberBuffer[i] = IF i < t.k THEN t.heard[i + 1] ELSE 0
      BY Zenon, <1>1, <2>5
    <3>2. b[i] = IF i = t.k THEN t.ch ELSE numberBuffer[i]
      BY Zenon DEF Buffers
    <3> HIDE DEF b
    <3>3. CASE i = t.k
      BY <1>1, <2>2, <2>6, <3>2, <3>3
    <3>4. CASE i < t.k
      <4>1. i \in 0 .. t.k - 1 /\ i # t.k /\ i < t.k + 1
        BY <2>2, <3>4
      <4> QED BY Zenon, <1>1, <2>6, <3>1, <3>2, <3>4, <4>1
    <3>5. CASE i > t.k
      <4>1. i # t.k /\ ~(i < t.k) /\ ~(i < t.k + 1)
        BY <2>2, <3>5
      <4> QED BY Zenon, <1>1, <3>1, <3>2, <4>1
    <3> QED BY <2>2, <3>3, <3>4, <3>5
  <2>0. over \in BOOLEAN
    BY DEF over
  <2> HIDE DEF b, over
  <2>8. r.t = s /\ r.buffer = b /\ r.wrote = TRUE /\ r.returns = over
    BY <2>1 DEF Goes
  <2>9. Holds(s, b)
    BY Zenon, <2>6, <2>7 DEF Holds
  <2>10. CASE over
    <3>1. Len(s.heard) <= MaxNumLength + 1
      BY <1>1, <2>2, <2>6, NumbersAssumption
    <3>2. ~s.disturbed => Prefix(b) = s.heard
      BY Zenon, <2>4, <2>6, <2>7, <3>1, PrefixIs
    <3>3. /\ Answer(r).wanted = <<ParseNum(s.heard)>> /\ Answer(r).got = <<ParseNum(Prefix(b))>>
          /\ Answer(r).disturbed = s.disturbed
      BY Zenon, <1>1, <1>4, <2>8, AnswerFields
    <3>4. AnswerOK(Answer(r))
      BY Zenon, <3>2, <3>3 DEF AnswerOK
    <3>5. r.returns = TRUE
      BY Zenon, <2>0, <2>8, <2>10
    <3> QED BY Zenon, <1>0, <2>8, <3>4, <3>5, FineReturns
  <2>11. CASE ~over
    <3>1. s.k <= MaxNumLength
      BY <2>6, <2>11, NumbersAssumption DEF over
    <3>2. s.pc \in Ins /\ s.pc \notin {"unlockIn", "heard"} /\ s.call.op # "PrintNum"
      BY <1>1, <1>4 DEF Ins
    <3>3. ReadsOK(s, b)
      BY Zenon, <1>1, <2>2, <2>9, <3>1, <3>2 DEF ReadsOK
    <3>4. NumberOK(s, b)
      BY Zenon, <3>2, <3>3 DEF NumberOK
    <3>5. r.returns = FALSE
      BY Zenon, <2>0, <2>8, <2>11
    <3> QED BY Zenon, <1>0, <2>8, <3>4, <3>5, FineGoes
  <2> QED BY Zenon, <2>10, <2>11
<1> QED BY Zenon, <1>2, <1>3, <1>4

\* SysReadNum starts with a buffer of zeros.
LEMMA ListensFine ==
  ASSUME numberBuffer \in Buffers, NEW c \in Command, c.op \in Reads
  PROVE  Fine(Listens(c))
<1> DEFINE u == Listen(c)
           r == Listens(c)
<1>0. u = Listen(c) /\ r = Listens(c)
  OBVIOUS
<1> HIDE DEF u, r
<1>1. Listening(c, u, r)
  BY Zenon, <1>0, ListensFacts
<1>2. c.op # "PrintNum"
  BY DEF Reads
<1>3. CASE c.op = "ReadNum"
  <2>0. ~(c.op = "ReadString" /\ c.n = 0)
    BY <1>3
  <2>1. /\ u.pc = "lockIn" /\ u.call = c /\ u.k = 0 /\ u.heard = << >> /\ u.shares
        /\ r.t = u /\ r.returns = FALSE /\ r.wrote
        /\ \A i \in 0 .. MaxNumLength + 1 : r.buffer[i] = 0
    BY Zenon, <1>1, <1>3, <2>0 DEF Listening
  <2>2. u.heard \in Seq(Character) /\ Len(u.heard) = u.k
    BY <2>1, EmptySeq
  <2>3. \A i \in 0 .. MaxNumLength + 1 : ~(i < 0)
    BY NumbersAssumption
  <2>4. Holds(u, r.buffer)
    BY Zenon, <2>1, <2>2, <2>3 DEF Holds
  <2>5. u.pc \in Ins /\ u.pc \notin {"unlockIn", "heard"} /\ u.k <= MaxNumLength
    BY <2>1, NumbersAssumption DEF Ins
  <2>6. NumberOK(u, r.buffer)
    BY Zenon, <1>2, <2>1, <2>4, <2>5 DEF NumberOK, ReadsOK
  <2> QED BY Zenon, <1>0, <2>1, <2>6, FineGoes
<1>4. CASE c.op # "ReadNum"
  <2>1. /\ u.call = c /\ r.t = u /\ r.buffer = numberBuffer
        /\ r.returns = (c.op = "ReadString" /\ c.n = 0)
    BY Zenon, <1>1, <1>4 DEF Listening
  <2>2. NumberOK(u, r.buffer)
    BY Zenon, <1>2, <1>4, <2>1 DEF NumberOK
  <2>3. AnswerOK(Answer(r))
    <3>1. r.t.call.op \notin {"PrintNum", "ReadNum"}
      BY Zenon, <1>2, <1>4, <2>1
    <3> QED BY Zenon, <3>1, AnswerFields
  <2> QED BY Zenon, <1>0, <2>1, <2>2, <2>3 DEF Fine
<1> QED BY Zenon, <1>3, <1>4

\* Another process has written into the buffer: whoever has digits there is disturbed.
LEMMA OthersFine ==
  ASSUME NEW t \in Task, NEW b, NumberOK(t, b), NEW w, NEW c, w \/ c = b,
         NEW u, u = [t EXCEPT !.disturbed = t.disturbed \/ (w /\ t.shares)]
  PROVE  NumberOK(u, c)
<1>1. /\ u.pc = t.pc /\ u.call = t.call /\ u.ch = t.ch /\ u.k = t.k /\ u.chars = t.chars
      /\ u.put = t.put /\ u.heard = t.heard /\ u.shares = t.shares
      /\ u.disturbed = (t.disturbed \/ (w /\ t.shares))
  BY DEF Task
<1>2. Said(u) = Said(t)
  BY <1>1 DEF Said
<1>3. ~u.disturbed => ~t.disturbed
  BY Zenon, <1>1
<1>4. ~t.shares /\ ~t.disturbed => ~u.disturbed
  BY Zenon, <1>1
<1>5. u.shares /\ ~u.disturbed => c = b
  BY Zenon, <1>1
<1>6. ASSUME t.call.op = "PrintNum" PROVE PrintsOK(u, c)
  <2>1. t.pc \in Out /\ Printing(t, Said(t), b)
    BY Zenon, <1>6 DEF NumberOK, PrintsOK
  <2>2. Printing(u, Said(u), c)
    BY Zenon, <1>1, <1>2, <1>3, <1>4, <1>5, <2>1 DEF Printing
  <2> QED BY Zenon, <1>1, <2>1, <2>2 DEF PrintsOK
<1>7. ASSUME t.call.op = "ReadNum" PROVE ReadsOK(u, c)
  <2>1. ReadsOK(t, b)
    BY Zenon, <1>7 DEF NumberOK
  <2>2. Holds(u, c)
    BY Zenon, <1>1, <1>3, <1>5, <2>1 DEF ReadsOK, Holds
  <2> QED BY Zenon, <1>1, <2>1, <2>2 DEF ReadsOK
<1> QED BY Zenon, <1>1, <1>6, <1>7 DEF NumberOK

LEMMA IdlingFine == \A b : NumberOK(Idling, b)
<1>1. Idling.call.op = "none"
  BY DEF Idling, NoCall
<1>2. "none" # "PrintNum" /\ "none" # "ReadNum"
  OBVIOUS
<1> QED BY Zenon, <1>1, <1>2 DEF NumberOK

LEMMA ProceedNumbers ==
  ASSUME Inv, NumbersOK, Me \in Process, NEW r, NEW pc, Turned(r, pc), Fine(r), Proceed(r, cpu)
  PROVE  NumbersOK'
<1>0. /\ numberBuffer' = r.buffer /\ task \in [Process -> Task] /\ HistoryOK
      /\ history' = IF r.returns THEN [history EXCEPT !.answer[Me] = Answer(r)] ELSE history
  BY Zenon, InvFacts DEF Proceed, Inv
<1>1. /\ task'[Me] = IF r.returns THEN Idling ELSE r.t
      /\ \A p \in Process : p # Me =>
           task'[p] = [task[p] EXCEPT !.disturbed = task[p].disturbed \/ (r.wrote /\ task[p].shares)]
  BY Zenon, ProceedTasks
<1>2. NumberOK(task'[Me], r.buffer)
  BY Zenon, <1>1, IdlingFine DEF Fine
<1>3. ASSUME NEW p \in Process, p # Me PROVE NumberOK(task'[p], r.buffer)
  <2>1. NumberOK(task[p], numberBuffer) /\ task[p] \in Task /\ (r.wrote \/ r.buffer = numberBuffer)
    BY Zenon, <1>0 DEF NumbersOK, Fine
  <2> QED BY Zenon, <1>1, <1>3, <2>1, OthersFine
<1>4. \A p \in Process : NumberOK(task'[p], numberBuffer')
  BY Zenon, <1>0, <1>2, <1>3
<1>5. \A p \in Process : AnswerOK(history.answer[p])
  BY Zenon DEF NumbersOK, NumbersIntact, AnswerOK
<1>6. \A p \in Process : AnswerOK(history'.answer[p])
  <2>1. CASE r.returns
    <3> DEFINE new == [history.answer EXCEPT ![Me] = Answer(r)]
    <3>1. history' = [history EXCEPT !.answer = new]
      BY Zenon, <1>0, <2>1
    <3>2. \A p \in Process : new[p] = IF p = Me THEN Answer(r) ELSE history.answer[p]
      BY Zenon, <1>0 DEF HistoryOK
    <3> HIDE DEF new
    <3>3. history'.answer = new
      BY <1>0, <3>1 DEF HistoryOK
    <3>4. AnswerOK(Answer(r))
      BY Zenon, <2>1 DEF Fine
    <3> QED BY Zenon, <1>5, <3>2, <3>3, <3>4
  <2>2. CASE ~r.returns
    BY Zenon, <1>0, <1>5, <2>2
  <2> QED BY Zenon, <2>1, <2>2
<1>7. NumbersIntact'
  BY Zenon, <1>6 DEF NumbersIntact, AnswerOK
<1> QED BY Zenon, <1>4, <1>7 DEF NumbersOK, NumberOK, PrintsOK, ReadsOK, Printing, Holds, Said

\* A step that leaves the buffer and the answers alone, and the tasks of all but one.
LEMMA OneTaskNumbers ==
  ASSUME NumbersOK, task \in [Process -> Task], NEW p, NEW r, task' = [task EXCEPT ![p] = r],
         numberBuffer' = numberBuffer, history'.answer = history.answer,
         NumberOK(r, numberBuffer)
  PROVE  NumbersOK'
<1>1. \A q \in Process : task'[q] = IF q = p THEN r ELSE task[q]
  BY Zenon
<1>2. \A q \in Process : NumberOK(task'[q], numberBuffer')
  BY Zenon, <1>1 DEF NumbersOK
<1>3. NumbersIntact'
  BY Zenon DEF NumbersOK, NumbersIntact
<1> QED BY Zenon, <1>2, <1>3 DEF NumbersOK, NumberOK, PrintsOK, ReadsOK, Printing, Holds, Said

LEMMA SameNumbers ==
  ASSUME NumbersOK, task' = task, numberBuffer' = numberBuffer,
         history'.answer = history.answer
  PROVE  NumbersOK'
<1>1. NumbersIntact'
  BY Zenon DEF NumbersOK, NumbersIntact
<1>2. \A q \in Process : NumberOK(task'[q], numberBuffer')
  BY Zenon DEF NumbersOK
<1> QED BY Zenon, <1>1, <1>2 DEF NumbersOK, NumberOK, PrintsOK, ReadsOK, Printing, Holds, Said

\* The places where a process that prints or reads a number can be.
LEMMA NumberPlaces ==
  ASSUME NumbersOK, NEW p \in Process
  PROVE  /\ NumberOK(task[p], numberBuffer)
         /\ task[p].pc \in Ins => task[p].call.op # "PrintNum"
         /\ task[p].pc \in Out => task[p].call.op # "ReadNum"
         /\ task[p].pc \notin Ins \cup Out => task[p].call.op \notin {"PrintNum", "ReadNum"}
<1>1. Ins \cap Out = {}
  BY DEF Ins, Out
<1>2. NumberOK(task[p], numberBuffer)
  BY Zenon DEF NumbersOK
<1>3. /\ task[p].call.op = "PrintNum" => task[p].pc \in Out
      /\ task[p].call.op = "ReadNum" => task[p].pc \in Ins
  BY Zenon, <1>2 DEF NumberOK, PrintsOK, ReadsOK
<1> QED BY Zenon, <1>1, <1>2, <1>3

\* In the console's code a task keeps its call, and what it has printed or read.
LEMMA MovedNumbers ==
  ASSUME Inv, NumbersOK, NEW pc \in Ins \cup Out, At(pc), NEW to \in Ins \cup Out,
         NEW r, r.pc = to, r.call = My.call, r.k = My.k, r.chars = My.chars,
         r.heard = My.heard, r.shares = My.shares, r.disturbed = My.disturbed,
         pc \in Ins => to \in Ins /\ (to \in {"unlockIn", "heard"} => r.ch \in Read \/ My.call.op # "ReadNum"),
         pc \in Out => to \in Out /\ Said(r) = Said(My),
         task' = [task EXCEPT ![Me] = r],
         numberBuffer' = numberBuffer, history'.answer = history.answer
  PROVE  NumbersOK'
<1>1. pc \notin {"none", "done"}
  BY DEF Ins, Out
<1>2. Me \in Process /\ My.pc = pc /\ task \in [Process -> Task]
  BY Zenon, <1>1, AtFacts, InvFacts
<1>3. /\ NumberOK(My, numberBuffer)
      /\ pc \in Ins => My.call.op # "PrintNum"
      /\ pc \in Out => My.call.op # "ReadNum"
  BY Zenon, <1>2, NumberPlaces DEF My, Me
<1>4. NumberOK(r, numberBuffer)
  <2>1. CASE pc \in Ins
    <3>1. ASSUME My.call.op = "ReadNum" PROVE ReadsOK(r, numberBuffer)
      <4>1. ReadsOK(My, numberBuffer)
        BY Zenon, <1>3, <3>1 DEF NumberOK
      <4>2. Holds(r, numberBuffer)
        BY Zenon, <4>1 DEF ReadsOK, Holds
      <4> QED BY Zenon, <2>1, <3>1, <4>1, <4>2 DEF ReadsOK
    <3> QED BY Zenon, <1>3, <2>1, <3>1 DEF NumberOK
  <2>2. CASE pc \in Out
    <3>1. ASSUME My.call.op = "PrintNum" PROVE PrintsOK(r, numberBuffer)
      <4>1. Printing(My, Said(My), numberBuffer)
        BY Zenon, <1>3, <3>1 DEF NumberOK, PrintsOK
      <4>2. Printing(r, Said(r), numberBuffer)
        BY Zenon, <2>2, <4>1 DEF Printing
      <4> QED BY Zenon, <2>2, <4>2 DEF PrintsOK
    <3> QED BY Zenon, <1>3, <2>2, <3>1 DEF NumberOK
  <2> QED BY Zenon, <2>1, <2>2
<1> QED BY Zenon, <1>2, <1>4, OneTaskNumbers

\* The steps of the console's code.
LEMMA PlaceNumbers ==
  ASSUME Inv, NumbersOK, NEW pc, NEW to, At(pc),
         <<pc, to>> \in {<<"lockIn", "waitIn">>, <<"unlockIn", "heard">>,
                         <<"waitOut", "unlockOut">>, <<"unlockOut", "printed">>},
         task' = [task EXCEPT ![Me] = [My EXCEPT !.pc = to]],
         numberBuffer' = numberBuffer, history'.answer = history.answer
  PROVE  NumbersOK'
<1> DEFINE r == [My EXCEPT !.pc = to]
<1>1. /\ pc \in Ins \cup Out /\ to \in Ins \cup Out
      /\ pc \in Ins => to \in Ins /\ (to \in {"unlockIn", "heard"} => pc = "unlockIn")
      /\ pc \in Out => to \in Out /\ pc # "lockOut" /\ to # "lockOut"
      /\ pc \notin {"none", "done"}
  BY DEF Ins, Out
<1>2. My \in Task /\ My.pc = pc /\ Me \in Process
  BY Zenon, <1>1, AtFacts
<1>3. r = [My EXCEPT !.pc = to]
  BY Zenon
<1> HIDE DEF r
<1>4. /\ r.pc = to /\ r.call = My.call /\ r.ch = My.ch /\ r.k = My.k /\ r.chars = My.chars
      /\ r.put = My.put /\ r.heard = My.heard /\ r.shares = My.shares
      /\ r.disturbed = My.disturbed
  BY <1>2, <1>3 DEF Task
<1>5. pc \in Out => Said(r) = Said(My)
  BY Zenon, <1>1, <1>2, <1>4 DEF Said
<1>6. ASSUME pc = "unlockIn", My.call.op = "ReadNum" PROVE r.ch \in Read
  <2>1. NumberOK(My, numberBuffer)
    BY Zenon, <1>2, NumberPlaces DEF My, Me
  <2>2. ReadsOK(My, numberBuffer) /\ My.pc = "unlockIn"
    BY Zenon, <1>2, <1>6, <2>1 DEF NumberOK
  <2>3. My.pc \in {"unlockIn", "heard"}
    BY <2>2
  <2> QED BY Zenon, <1>4, <2>2, <2>3 DEF ReadsOK
<1>7. pc \in Ins => to \in Ins
                    /\ (to \in {"unlockIn", "heard"} => r.ch \in Read \/ My.call.op # "ReadNum")
  BY Zenon, <1>1, <1>6
<1> QED BY Zenon, <1>1, <1>3, <1>4, <1>5, <1>7, MovedNumbers

LEMMA ConsoleNumbers ==
  ASSUME Inv, NumbersOK, LockIn \/ WaitIn \/ UnlockIn \/ LockOut \/ WaitOut \/ UnlockOut
  PROVE  NumbersOK'
<1>1. CASE LockIn
  BY Zenon, <1>1, PlaceNumbers DEF LockIn, My, Me
<1>2. CASE UnlockIn
  BY Zenon, <1>2, PlaceNumbers DEF UnlockIn, My, Me
<1>3. CASE WaitOut
  BY Zenon, <1>3, PlaceNumbers DEF WaitOut, My, Me
<1>4. CASE UnlockOut
  BY Zenon, <1>4, PlaceNumbers DEF UnlockOut, My, Me
<1>5. CASE WaitIn
  <2> DEFINE r == [My EXCEPT !.pc = "unlockIn", !.ch = console.incoming]
  <2>1. /\ At("waitIn") /\ task' = [task EXCEPT ![Me] = r] /\ numberBuffer' = numberBuffer
        /\ GetChar(console.incoming)
    BY Zenon, <1>5 DEF WaitIn
  <2>2. /\ "waitIn" \in Ins \cup Out /\ "unlockIn" \in Ins \cup Out
        /\ "waitIn" \notin Out /\ "unlockIn" \in Ins /\ "waitIn" \notin {"none", "done"}
    BY DEF Ins, Out
  <2>3. My \in Task
    BY Zenon, <2>1, <2>2, AtFacts
  <2>4. console.incoming \in Read
    BY Zenon, InvFacts DEF Console
  <2>5. r = [My EXCEPT !.pc = "unlockIn", !.ch = console.incoming]
    BY Zenon
  <2>6. history'.answer = history.answer
    BY Zenon, <2>1 DEF GetChar, Inv, HistoryOK
  <2> HIDE DEF r
  <2>7. /\ r.pc = "unlockIn" /\ r.call = My.call /\ r.ch = console.incoming /\ r.k = My.k
        /\ r.chars = My.chars /\ r.heard = My.heard /\ r.shares = My.shares
        /\ r.disturbed = My.disturbed
    BY <2>3, <2>5 DEF Task
  <2> QED BY Zenon, <2>1, <2>2, <2>4, <2>6, <2>7, MovedNumbers
<1>6. CASE LockOut
  <2> DEFINE said == Append(My.put, My.ch)
             r == [My EXCEPT !.pc = "waitOut", !.put = said]
  <2>1. /\ At("lockOut") /\ task' = [task EXCEPT ![Me] = r] /\ numberBuffer' = numberBuffer
        /\ history' = history
    BY Zenon, <1>6 DEF LockOut
  <2>2. /\ "lockOut" \in Ins \cup Out /\ "waitOut" \in Ins \cup Out
        /\ "lockOut" \notin Ins /\ "waitOut" \in Out /\ "lockOut" \notin {"none", "done"}
        /\ "waitOut" # "lockOut"
    BY DEF Ins, Out
  <2>3. My \in Task /\ My.pc = "lockOut"
    BY Zenon, <2>1, <2>2, AtFacts
  <2>4. r = [My EXCEPT !.pc = "waitOut", !.put = said] /\ said = Append(My.put, My.ch)
    BY Zenon
  <2> HIDE DEF r, said
  <2>5. /\ r.pc = "waitOut" /\ r.call = My.call /\ r.k = My.k /\ r.put = said
        /\ r.chars = My.chars /\ r.heard = My.heard /\ r.shares = My.shares
        /\ r.disturbed = My.disturbed
    BY <2>3, <2>4 DEF Task
  <2>6. Said(r) = Said(My)
    BY Zenon, <2>2, <2>3, <2>4, <2>5 DEF Said
  <2> QED BY Zenon, <2>1, <2>2, <2>5, <2>6, MovedNumbers
<1> QED BY Zenon, <1>1, <1>2, <1>3, <1>4, <1>5, <1>6

\* The steps of the handlers.
LEMMA GotCharNumbers ==
  ASSUME Inv, NumbersOK, GotChar
  PROVE  NumbersOK'
<1>1. At("heard") /\ Proceed(NextIn(My), cpu)
  BY Zenon DEF GotChar
<1>2. My \in Task /\ My.pc = "heard" /\ Me \in Process
  BY <1>1, AtFacts
<1>3. My.call.op \in Reads
  <2>1. CallOK(My)
    BY Zenon, <1>2, InvFacts DEF My, Me
  <2> QED BY <1>2, <2>1 DEF CallOK, Ins, Reads
<1>4. numberBuffer \in Buffers
  BY Zenon DEF Inv, TypeOK, Buffers
<1>5. My.call.op = "ReadNum" => ReadsOK(My, numberBuffer)
  BY Zenon, <1>2, NumberPlaces DEF My, Me, NumberOK
<1>6. Turned(NextIn(My), "lockIn") /\ Fine(NextIn(My))
  BY Zenon, <1>2, <1>3, <1>4, <1>5, NextInTurned, NextInFine
<1> QED BY Zenon, <1>1, <1>2, <1>6, ProceedNumbers

LEMMA PrintNextNumbers ==
  ASSUME Inv, NumbersOK, PrintNext
  PROVE  NumbersOK'
<1>1. At("printed") /\ Proceed(NextOut(My), cpu)
  BY Zenon DEF PrintNext
<1>2. My \in Task /\ My.pc = "printed" /\ Me \in Process
  BY <1>1, AtFacts
<1>3. My.pc \in Out /\ My.pc # "lockOut"
  BY <1>2 DEF Out
<1>4. CallOK(My)
  BY Zenon, <1>2, InvFacts DEF My, Me
<1>5. numberBuffer \in Buffers
  BY Zenon DEF Inv, TypeOK, Buffers
<1>6. My.call.op # "ReadNum" /\ NumberOK(My, numberBuffer)
  BY Zenon, <1>2, <1>3, NumberPlaces DEF My, Me
<1>7. Said(My) = My.put
  BY Zenon, <1>3 DEF Said
<1>8. My.call.op = "PrintNum" => Printing(My, My.put, numberBuffer)
  BY Zenon, <1>6, <1>7 DEF NumberOK, PrintsOK
<1>9. Turned(NextOut(My), "lockOut") /\ Fine(NextOut(My))
  BY Zenon, <1>2, <1>4, <1>5, <1>6, <1>8, NextOutTurned, NextOutFine
<1> QED BY Zenon, <1>1, <1>2, <1>9, ProceedNumbers

LEMMA PrintCallNumbers ==
  ASSUME Inv, NumbersOK, PrintCall
  PROVE  NumbersOK'
<1> DEFINE t == Start(Call)
<1>1. Calls(Prints) /\ Called /\ Proceed(NextOut(t), cpu)
  BY Zenon DEF PrintCall, Start, Prints, PrintOwn
<1>2. Call \in Command /\ Call.op \in Prints /\ Me \in Process
  BY Zenon, <1>1, CallFacts
<1>3. /\ t \in Task /\ CallOK(t) /\ t.put = << >> /\ t.shares = FALSE /\ t.disturbed = FALSE
      /\ \/ t.call = PrintOwn
         \/ t.call = Call /\ Call.op = "PrintNum" /\ Call.n \in Range32 /\ t.chars = Sign(Call.n)
  BY Zenon, <1>2, StartFacts
<1>4. numberBuffer \in Buffers
  BY Zenon DEF Inv, TypeOK, Buffers
<1> HIDE DEF t
<1>5. PrintOwn.op # "PrintNum" /\ PrintOwn.op # "ReadNum" /\ "PrintNum" # "ReadNum"
  BY DEF PrintOwn
<1>6. t.call.op # "ReadNum"
  BY Zenon, <1>3, <1>5
<1>7. ASSUME t.call.op = "PrintNum" PROVE Printing(t, t.put, numberBuffer)
  <2>1. Call.n \in Range32 /\ t.chars = Sign(t.call.n) /\ t.call = Call
    BY Zenon, <1>3, <1>5, <1>7
  <2>2. Sign(t.call.n) \in Seq(Int)
    BY Zenon, <2>1, NumberRange, NumeralFacts DEF Text
  <2>3. t.put \o t.chars = Sign(t.call.n)
    BY <1>3, <2>1, <2>2, ConcatEmptySeq
  <2>4. ~t.shares /\ ~t.disturbed
    BY Zenon, <1>3
  <2> QED BY Zenon, <2>3, <2>4 DEF Printing
<1>8. Turned(NextOut(t), "lockOut") /\ Fine(NextOut(t))
  BY Zenon, <1>3, <1>4, <1>6, <1>7, NextOutTurned, NextOutFine
<1> QED BY Zenon, <1>1, <1>2, <1>8, ProceedNumbers

LEMMA ReadCallNumbers ==
  ASSUME Inv, NumbersOK, ReadCall
  PROVE  NumbersOK'
<1>1. Calls(Reads) /\ Called /\ Proceed(Listens(Call), cpu)
  BY Zenon DEF ReadCall, Listens, Listen, Reads
<1>2. Call \in Command /\ Call.op \in Reads /\ Me \in Process
  BY Zenon, <1>1, CallFacts
<1>3. numberBuffer \in Buffers
  BY Zenon DEF Inv, TypeOK, Buffers
<1>4. Turned(Listens(Call), "lockIn") /\ Fine(Listens(Call))
  BY Zenon, <1>2, <1>3, ListensFacts, ListensFine
<1> QED BY Zenon, <1>1, <1>2, <1>4, ProceedNumbers

\* The steps outside the console.
LEMMA ResultKept ==
  ASSUME HistoryOK, NEW a, history' = [history EXCEPT !.result[Me] = a]
  PROVE  history'.answer = history.answer
BY Zenon, HistoryResult

LEMMA OffNumbers ==
  ASSUME Inv, NumbersOK, NEW p \in Process, task[p].pc \in {"none", "done", "user"},
         NEW to, task' = [task EXCEPT ![p] = [task[p] EXCEPT !.pc = to]],
         numberBuffer' = numberBuffer, history' = history
  PROVE  NumbersOK'
<1> DEFINE r == [task[p] EXCEPT !.pc = to]
<1>1. task[p].pc \notin Ins \cup Out
  BY DEF Ins, Out
<1>2. task[p].call.op \notin {"PrintNum", "ReadNum"} /\ task \in [Process -> Task]
  BY Zenon, <1>1, NumberPlaces, InvFacts
<1>3. r = [task[p] EXCEPT !.pc = to] /\ task[p] \in Task
  BY Zenon, <1>2
<1> HIDE DEF r
<1>4. r.call = task[p].call
  BY <1>3 DEF Task
<1>5. NumberOK(r, numberBuffer)
  BY Zenon, <1>2, <1>4 DEF NumberOK
<1> QED BY Zenon, <1>2, <1>3, <1>5, OneTaskNumbers

LEMMA OutsideNumbers ==
  ASSUME Inv, NumbersOK,
         FileCall \/ Exec \/ CreateSemaphore \/ Wait \/ WaitP \/ Signal \/ Enter \/ Finish
  PROVE  NumbersOK'
<1>0. HistoryOK /\ task \in [Process -> Task]
  BY Zenon, InvFacts DEF Inv
<1>1. CASE FileCall
  BY Zenon, <1>0, <1>1, ResultKept, SameNumbers DEF FileCall
<1>2. ASSUME SemFails PROVE NumbersOK'
  BY Zenon, <1>0, <1>2, ResultKept, SameNumbers DEF SemFails
<1>3. CASE CreateSemaphore
  BY Zenon, <1>0, <1>2, <1>3, ResultKept, SameNumbers DEF CreateSemaphore
<1>4. CASE Signal
  BY Zenon, <1>0, <1>2, <1>4, ResultKept, SameNumbers DEF Signal
<1>5. CASE Wait
  <2> DEFINE r == [Idling EXCEPT !.pc = "wait", !.call = Call, !.k = Slot(Call.name)]
  <2>1. \/ SemFails
        \/ task' = [task EXCEPT ![Me] = r] /\ UNCHANGED <<numberBuffer, history>>
    BY Zenon, <1>5 DEF Wait
  <2>2. Call.op \in {"Wait"}
    BY Zenon, <1>5 DEF Wait, Calls
  <2>3. Call.op # "PrintNum" /\ Call.op # "ReadNum"
    BY <2>2
  <2>4. r.call = Call
    BY DEF Idling
  <2> HIDE DEF r
  <2>5. NumberOK(r, numberBuffer)
    BY Zenon, <2>3, <2>4 DEF NumberOK
  <2> QED BY Zenon, <1>0, <1>2, <2>1, <2>5, OneTaskNumbers
<1>6. CASE WaitP
  <2>1. /\ numberBuffer' = numberBuffer
        /\ \/ /\ task' = [task EXCEPT ![Me] = Idling]
              /\ history' = [history EXCEPT !.result[Me] = 0]
           \/ task' = task /\ history' = history
    BY Zenon, <1>6 DEF WaitP
  <2>2. history'.answer = history.answer
    BY Zenon, <1>0, <2>1, ResultKept
  <2> QED BY Zenon, <1>0, <2>1, <2>2, IdlingFine, OneTaskNumbers, SameNumbers
<1>7. CASE Enter
  BY Zenon, <1>0, <1>7, IdlingFine, OneTaskNumbers DEF Enter
<1>8. CASE Finish
  <2>1. At("user") /\ "user" \notin {"none", "done"}
    BY <1>8 DEF Finish
  <2>2. Me \in Process /\ task[Me].pc = "user"
    BY Zenon, <2>1, AtFacts DEF My, Me
  <2>3. task[Me].pc \in {"none", "done", "user"}
    BY Zenon, <2>2
  <2>4. /\ task' = [task EXCEPT ![Me] = [task[Me] EXCEPT !.pc = "done"]]
        /\ numberBuffer' = numberBuffer /\ history' = history
    BY Zenon, <1>8 DEF Finish
  <2> QED BY Zenon, <2>2, <2>3, <2>4, OffNumbers
<1>9. CASE Exec
  <2> DEFINE p == Call.child
  <2>1. Calls({"Exec"}) /\ Called /\ task[p].pc \in {"none", "done"}
    BY Zenon, <1>9 DEF Exec
  <2>2. Call \in Command /\ Call.op \in {"Exec"}
    BY Zenon, <2>1, CallFacts
  <2>3. Call.op = "Exec"
    BY <2>2
  <2>4. p \in Process
    BY Zenon, <2>2, <2>3, CommandFacts
  <2>5. /\ task' = [task EXCEPT ![p] = [task[p] EXCEPT !.pc = "new"]]
        /\ numberBuffer' = numberBuffer /\ history' = history
    BY Zenon, <1>9 DEF Exec
  <2>6. task[p].pc \in {"none", "done", "user"}
    BY Zenon, <2>1
  <2> HIDE DEF p
  <2> QED BY Zenon, <2>4, <2>5, <2>6, OffNumbers
<1> QED BY Zenon, <1>1, <1>3, <1>4, <1>5, <1>6, <1>7, <1>8, <1>9

LEMMA StepNumbers ==
  ASSUME Inv, NumbersOK, [Next]_vars
  PROVE  NumbersOK'
<1>1. CASE OneTick \/ Idle
  BY Zenon, <1>1, SameNumbers DEF OneTick, Idle
<1>2. CASE \E pc, sem : Waits(pc, sem)
  BY Zenon, <1>2, SameNumbers DEF Waits
<1>3. CASE UNCHANGED vars
  BY Zenon, <1>3, SameNumbers DEF vars
<1> QED BY Zenon, <1>1, <1>2, <1>3, ConsoleNumbers, GotCharNumbers, PrintNextNumbers,
           PrintCallNumbers, ReadCallNumbers, OutsideNumbers DEF Next, Code

LEMMA InitNumbers ==
  ASSUME Init
  PROVE  NumbersOK
<1>1. PICK s \in Scenarios :
        /\ task = [p \in Process |-> [Idling EXCEPT !.pc = IF p \in Range(s.ready) THEN "new" ELSE "none"]]
        /\ history = [typed |-> s.typed, taken |-> << >>,
                      answer |-> [p \in Process |-> [wanted |-> << >>, got |-> << >>, disturbed |-> FALSE]],
                      result |-> [p \in Process |-> 0]]
  BY Zenon DEF Init
<1>2. NumbersIntact
  BY <1>1 DEF NumbersIntact
<1>3. ASSUME NEW p \in Process PROVE NumberOK(task[p], numberBuffer)
  <2> DEFINE pc == IF p \in Range(s.ready) THEN "new" ELSE "none"
             r == [Idling EXCEPT !.pc = pc]
  <2>1. task[p] = r
    BY Zenon, <1>1
  <2> HIDE DEF pc
  <2>2. r.call = NoCall
    BY DEF Idling
  <2>3. NoCall.op # "PrintNum" /\ NoCall.op # "ReadNum"
    BY DEF NoCall
  <2> QED BY Zenon, <2>1, <2>2, <2>3 DEF NumberOK
<1> QED BY Zenon, <1>2, <1>3 DEF NumbersOK

\* Numbers pass the system calls: what PrintNum prints is the decimal numeral of its
\* argument, and ReadNum returns the number its conversion gives for the characters it
\* read, whatever other processes do, unless one of them writes into _numberBuffer between
\* the steps of the call.
THEOREM NumbersAlwaysIntact == Spec => []NumbersIntact
<1>1. Init => Inv /\ NumbersOK
  BY InitInv, InitNumbers
<1>2. Inv /\ NumbersOK /\ [Next]_vars => (Inv /\ NumbersOK)'
  BY StepInv, StepNumbers
<1>3. NumbersOK => NumbersIntact
  BY DEF NumbersOK
<1> QED BY <1>1, <1>2, <1>3, PTL DEF Spec
=============================================================================
