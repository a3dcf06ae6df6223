--------------------------- MODULE MCUserPrograms ---------------------------
(***************************************************************************)
(* Three processes on nine page frames: Adder, then Caller or one of the   *)
(* programs that fault, then Large, whose five pages fit only when Adder   *)
(* has exited and are then not consecutive.                                *)
(***************************************************************************)
EXTENDS UserPrograms

Form(op, rs, rt, rd, funct, imm, target) ==
    [op |-> op, rs |-> rs, rt |-> rt, rd |-> rd, shamt |-> 0, funct |-> funct,
     imm |-> imm, target |-> target]
I(op, rs, rt, imm) == Form(op, rs, rt, 0, 0, imm, 0)
R(funct, rs, rt, rd) == Form(0, rs, rt, rd, funct, 0, 0)
ADDIU(rt, imm) == I(9, 0, rt, imm)
LW(rt, imm) == I(35, 0, rt, imm)
SW(rt, imm) == I(43, 0, rt, imm)
JAL(target) == Form(3, 0, 0, 0, 0, 0, target)
JR(rs) == R(8, rs, 0, 0)
SYSCALL == R(12, 0, 0, 0)

\* Loads its data, asks the kernel to add, stores the sum.
Adder == <<LW(4, 24), ADDIU(2, 42), SYSCALL, SW(2, 24), ADDIU(2, 1), SYSCALL>>
\* A call whose delay slot starts a load that is used in another delay slot.
Caller == <<ADDIU(2, 1), JAL(4), LW(6, 24), SYSCALL, JR(31), SW(6, 28)>>
\* A system call in the delay slot of a jump, and a load that keeps a part of
\* its register.
Large == <<ADDIU(2, 54), JAL(4), SYSCALL, ADDIU(5, 7), I(38, 0, 5, 14),
           SW(2, 32), ADDIU(2, 1), SYSCALL>>
\* A load of a word from an odd address; a call that is not implemented and
\* one that does not exist.
Faulty == <<LW(4, 6), ADDIU(2, 7)>>
Stray == <<ADDIU(2, 11), SYSCALL, ADDIU(2, 99), SYSCALL>>

Texts == <<Adder, Caller, Large, Faulty, Stray>>
Word(p, k) == 16 * p + k
MCFields == [w \in UNION {{Word(p, k) : k \in DOMAIN Texts[p]} : p \in DOMAIN Texts} |->
                Texts[w \div 16][w % 16]]

Bytes(w) == [k \in 1..4 |-> ByteOf(w, k - 1)]
Section(name, paddr, bytes) ==
    [name |-> name, paddr |-> paddr, size |-> Len(bytes), bytes |-> bytes]
Text(p) == Section(".text", 0, [n \in 1..4 * Len(Texts[p]) |->
                                   Bytes(Word(p, (n - 1) \div 4 + 1))[((n - 1) % 4) + 1]])
Rdata(paddr, w) == Section(".rdata", paddr, Bytes(w))
Data(paddr, w) == Section(".data", paddr, Bytes(w))
Bss(paddr) == [Section(".bss", paddr, << >>) EXCEPT !.size = 4]

MCExecutables ==
    <<{<<Text(1), Data(24, 3)>>},
      {<<Text(2), Rdata(24, 4660), Bss(28)>>, <<Text(4)>>, <<Text(5), Bss(16), Bss(24)>>},
      {<<Text(3), Data(32, 9)>>, <<Text(3), Bss(32), Bss(36)>>,
       <<Text(4), Section(".comment", 0, <<1>>)>>}>>
=============================================================================
