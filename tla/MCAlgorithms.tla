---------------------------- MODULE MCAlgorithms ----------------------------
(***************************************************************************)
(* The parts of the system that one thread at a time uses, against what    *)
(* they are for: a state is an input of an algorithm, or a data structure, *)
(* the disk or its file system after a sequence of calls.  subject says    *)
(* which part a behaviour is about; the variables of the others keep their *)
(* first values.                                                           *)
(***************************************************************************)
EXTENDS Fragmentation, Containers, DiskTiming, Numbers, FileSystem

CONSTANTS MaxMessage,   \* bound: the longest message
          Characters    \* the characters numerals are made of
ASSUME MessageAssumption == MaxMessage \in Nat

\* Words of four bits: every pair of operands is an input.
P == INSTANCE Processor WITH ByteBits <- 1, PageSize <- 4, NumPhysPages <- 2,
                             Fields <- << >>

MCItems == {[key |-> k, tag |-> 0] : k \in 0..3} \union {[key |-> 1, tag |-> 1]}
MCBytes == {<<1, 1>>}
MCHashOf == [k \in 0..3 |-> <<5, 2, 9, 4>>[k + 1]]

VARIABLES subject,
          message,      \* the length of a message
          operands,     \* two words
          text          \* the characters SysReadNum has in its buffer

inputs == <<subject, message, operands, text>>
vars == <<inputs, containers, disk, fileSystem>>

Init == /\ subject \in {"containers", "disk", "files", "message", "operands", "text"}
        /\ ContainersInit /\ (subject # "containers" => structure = "bitmap")
        /\ DiskInit /\ FileSystemInit
        /\ message = 0
        /\ text = << >>
        /\ operands \in IF subject = "operands" THEN (0..15) \X (0..15) ELSE {<<0, 0>>}

Longer == /\ subject = "message" /\ message < MaxMessage
          /\ message' = message + 1
          /\ UNCHANGED <<subject, operands, text, containers, disk, fileSystem>>

Typed == /\ subject = "text" /\ Len(text) <= MaxNumLength
         /\ \E c \in Characters : text' = Append(text, c)
         /\ UNCHANGED <<subject, message, operands, containers, disk, fileSystem>>

Next == \/ Longer
        \/ Typed
        \/ subject = "containers" /\ ContainersNext /\ UNCHANGED <<inputs, disk, fileSystem>>
        \/ subject = "disk" /\ DiskNext /\ UNCHANGED <<inputs, containers, fileSystem>>
        \/ subject = "files" /\ FileSystemNext /\ UNCHANGED <<inputs, containers, disk>>

Spec == Init /\ [][Next]_vars

-----------------------------------------------------------------------------
Size == message + UdpHeaderSize
Sent == [i \in 1 .. NumFragments(Size) |-> FragmentOf(Size, i - 1)]
Received(fragments) == FoldLeft(insertToMap, <<>>, fragments)

\* The fragments of a message of any length a user program can send cover its
\* datagram, each at its offset and none empty; insertToMap and check put them
\* together in the order they were sent once the last is there and not before, and
\* in reverse order too; the receiver's length is the sender's and fits the buffer.
Reassembled ==
  LET n == Len(Sent)
  IN subject = "message" =>
     /\ \A i \in DOMAIN Sent : /\ Sent[i].bytes \in 1 .. PayloadSize
                               /\ Sent[i].fragmentOffset * 8 = (i - 1) * PayloadSize
     /\ FoldLeft(LAMBDA sum, f : sum + f.bytes, 0, Sent) = Size
     /\ \A i \in 1 .. n : check(Received(SubSeq(Sent, 1, i))) <=> i = n
     /\ Received(Reverse(Sent)) = Sent
     /\ UdpLength(message) - UdpHeaderSize = message
     /\ UdpLength(message) <= n * PayloadSize
     /\ \A d, s, t \in 0 .. 9 :
          s # t => computeHash(ippool[s], ippool[d], message) #
                   computeHash(ippool[t], ippool[d], message)

-----------------------------------------------------------------------------
A == operands[1]
B == operands[2]
\* A machine with the operands in registers 1 and 2 and in its memory.
M == [registers |-> [P!NewMachine.registers EXCEPT ![1] = A, ![2] = B],
      memory |-> [a \in 0..7 |-> P!ByteOf(IF a < 4 THEN A ELSE B, a % 4)],
      pageTable |-> <<1, 0>>]
\* The machine after an instruction, and its exception.
Do(m, op, rs, rt, extra) ==
    LET o == P!Execute(m, [opCode |-> op, rs |-> rs, rt |-> rt, rd |-> 3, extra |-> extra])
    IN [m EXCEPT !.registers = P!Complete(o), !.memory = o.memory] @@ [exc |-> o.exc]
\* The four bytes from a on, as the program sees them.
WordAt(m, a) == P!Assemble([k \in 0..3 |-> m.memory[P!Translate(m, a + k, 1).phys]], 0, 4)

\* MULT, MULTU, ADD, SUB and DIV give the numbers they stand for, and ADD and
\* SUB the overflow exception exactly when the result is no word; LWR with LWL
\* and SWR with SWL move the four bytes at any address, over a page boundary too.
ArithmeticExact ==
    LET a == P!Signed(A)
        b == P!Signed(B)
        product == P!Mult(A, B, TRUE)
        natural == P!Mult(A, B, FALSE)
        Checked(n, after) == IF n \in -8..7 THEN /\ after.exc = "NoException"
                                                /\ P!Signed(after.registers[3]) = n
                             ELSE after.exc = "OverflowException"
    IN subject = "operands" =>
       /\ product.hi * 16 + product.lo = (a * b) % 256
       /\ natural.hi * 16 + natural.lo = A * B
       /\ \A m \in {M} :
            /\ \A after \in {Do(m, "ADD", 1, 2, 0)} : Checked(a + b, after)
            /\ \A after \in {Do(m, "SUB", 1, 2, 0)} : Checked(a - b, after)
            /\ \A after \in {Do(m, "DIV", 1, 2, 0)} :
                  LET q == P!Signed(after.registers[P!LoReg])
                      r == P!Signed(after.registers[P!HiReg])
                  IN b # 0 /\ after.exc = "NoException" =>
                         q * b + r = a /\ r * r < b * b /\ r * a >= 0
            /\ \A k \in 0..4 :
                 /\ \A right \in {Do(m, "LWR", 0, 3, k)} :
                       \A both \in {Do(right, "LWL", 0, 3, k + 3)} :
                           P!DelayedLoad(both.registers, 0, 0)[3] = WordAt(m, k)
                 /\ \A right \in {Do(m, "SWR", 0, 2, k)} :
                       \A both \in {Do(right, "SWL", 0, 2, k + 3)} :
                           /\ WordAt(both, k) = B
                           /\ \A i \in (0..7) \ (k..k + 3) :
                                 LET at == P!Translate(m, i, 1).phys
                                 IN both.memory[at] = m.memory[at]

-----------------------------------------------------------------------------
\* SysReadNum returns the number of a numeral of an int, and 0 for anything
\* else: numbers too large, zeros or signs too many, other characters.  So
\* what SysPrintNum writes is read back as the same number.
NumeralsExact ==
    LET n == ParseNum(text)
        Ints == MinInt..-MinInt - 1
    IN subject = "text" => IF n # 0 THEN n \in Ints /\ text = Numeral(n)
                           ELSE \A k \in Ints \ {0} : text # Numeral(k)
=============================================================================
