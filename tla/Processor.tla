----------------------------- MODULE Processor -----------------------------
(***************************************************************************)
(* The simulated MIPS processor (machine/mipssim.cc) and its address       *)
(* translation (machine/translate.cc), as functions from one state of the  *)
(* machine to the next.  A machine is a record of registers, main memory   *)
(* and the page table it currently uses.  The build is the repository's:   *)
(* little endian host, no TLB, SIM_FIX.                                    *)
(*                                                                         *)
(* A byte has ByteBits bits (8 in the code) and everything else scales     *)
(* with it, so that small instances cover every carry, sign and            *)
(* alignment.  An instruction word is a number in memory like any other;   *)
(* Fields says which fields it has, so that encodings need not fit the     *)
(* scaled word.  The use and dirty bits of a page table entry are never    *)
(* read by the kernel and are left out.                                    *)
(***************************************************************************)
EXTENDS Integers, Sequences, Bitwise

CONSTANTS ByteBits,      \* bits in a byte
          PageSize,      \* bytes in a page
          NumPhysPages,  \* page frames of main memory
          Fields         \* the fields of each word that is an instruction

ASSUME SizesAssumption == /\ ByteBits \in Nat \ {0}
                          /\ PageSize \in Nat \ {0} /\ PageSize % 4 = 0
                          /\ NumPhysPages \in Nat \ {0}

W == 4 * ByteBits
Wrap(n) == n % 2^W
Negative(w) == w >= 2^(W - 1)
Signed(w) == IF Negative(w) THEN w - 2^W ELSE w
SignExtend(v, bits) == IF v >= 2^(bits - 1) THEN Wrap(v - 2^bits) ELSE v
Low(w, bits) == w % 2^bits
ShiftLeft(w, n) == Wrap(w * 2^n)
ShiftRight(w, n) == Wrap(Signed(w) \div 2^n)     \* ">>" of an int keeps the sign
ByteOf(w, k) == (w \div 2^(ByteBits * k)) % 2^ByteBits

HiReg == 32
LoReg == 33
PCReg == 34
NextPCReg == 35
PrevPCReg == 36
LoadReg == 37
LoadValueReg == 38
BadVAddrReg == 39
NumTotalRegs == 40

MemorySize == NumPhysPages * PageSize

\* Machine::Machine: all registers and all of memory are zero.
NewMachine == [registers |-> [n \in 0..NumTotalRegs - 1 |-> 0],
               memory    |-> [a \in 0..MemorySize - 1 |-> 0],
               pageTable |-> << >>]

-----------------------------------------------------------------------------
(* Decoding *)

Repeat(op, n) == [k \in 1..n |-> op]

\* Bits 31:26 select a row; every row is in IFMT except SPECIAL, J and JAL.
opTable ==
    <<"SPECIAL", "BCOND", "J", "JAL", "BEQ", "BNE", "BLEZ", "BGTZ",
      "ADDI", "ADDIU", "SLTI", "SLTIU", "ANDI", "ORI", "XORI", "LUI">>
    \o Repeat("UNIMP", 4) \o Repeat("RES", 12)
    \o <<"LB", "LH", "LWL", "LW", "LBU", "LHU", "LWR", "RES",
         "SB", "SH", "SWL", "SW", "RES", "RES", "SWR", "RES">>
    \o Repeat("UNIMP", 4) \o Repeat("RES", 4)
    \o Repeat("UNIMP", 4) \o Repeat("RES", 4)

\* The "funct" field of a SPECIAL instruction.
specialTable ==
    <<"SLL", "RES", "SRL", "SRA", "SLLV", "RES", "SRLV", "SRAV",
      "JR", "JALR", "RES", "RES", "SYSCALL", "UNIMP", "RES", "RES",
      "MFHI", "MTHI", "MFLO", "MTLO">> \o Repeat("RES", 4)
    \o <<"MULT", "MULTU", "DIV", "DIVU">> \o Repeat("RES", 4)
    \o <<"ADD", "ADDU", "SUB", "SUBU", "AND", "OR", "XOR", "NOR",
         "RES", "RES", "SLT", "SLTU">> \o Repeat("RES", 20)

\* Instruction::Decode.  A word that is no instruction of the program has a
\* reserved operation code.
Decode(value) ==
    LET f == IF value \in DOMAIN Fields THEN Fields[value]
             ELSE [op |-> 63, rs |-> 0, rt |-> 0, rd |-> 0, shamt |-> 0,
                   funct |-> 0, imm |-> 0, target |-> 0]
        op == opTable[f.op + 1]
    IN [rs |-> f.rs, rt |-> f.rt, rd |-> f.rd,
        extra |-> CASE op = "SPECIAL" -> f.shamt
                    [] op \in {"J", "JAL"} -> f.target
                    [] OTHER -> SignExtend(f.imm, 2 * ByteBits),
        opCode |-> CASE op = "SPECIAL" -> specialTable[f.funct + 1]
                     [] op = "BCOND" /\ f.rt = 0 -> "BLTZ"
                     [] op = "BCOND" /\ f.rt = 1 -> "BGEZ"
                     [] op = "BCOND" /\ f.rt = 16 -> "BLTZAL"
                     [] op = "BCOND" /\ f.rt = 17 -> "BGEZAL"
                     [] op = "BCOND" -> "UNIMP"
                     [] OTHER -> op]

-----------------------------------------------------------------------------
(* Memory *)

\* Machine::Translate through the page table, a sequence of page frames
\* (every entry the kernel makes is valid and writable).
Translate(m, addr, size) ==
    LET vpn == addr \div PageSize
    IN CASE addr % size # 0 -> [exc |-> "AddressErrorException", phys |-> 0]
         [] addr % size = 0 /\ vpn >= Len(m.pageTable) ->
                [exc |-> "AddressErrorException", phys |-> 0]
         [] addr % size = 0 /\ vpn < Len(m.pageTable)
            /\ m.pageTable[vpn + 1] >= NumPhysPages ->
                [exc |-> "BusErrorException", phys |-> 0]
         [] OTHER -> [exc |-> "NoException",
                      phys |-> m.pageTable[vpn + 1] * PageSize + (addr % PageSize)]

\* The bytes that ReadMem assembles, lowest address first.
Assemble(memory, phys, size) ==
    LET sum[k \in 0..size] ==
            IF k = 0 THEN 0
            ELSE sum[k - 1] + memory[phys + k - 1] * 2^(ByteBits * (k - 1))
    IN sum[size]

\* Machine::ReadMem: the exception, or the value (the callers mask it).
ReadMem(m, addr, size) ==
    LET t == Translate(m, addr, size)
    IN [exc |-> t.exc,
        value |-> IF t.exc = "NoException" THEN Assemble(m.memory, t.phys, size) ELSE 0]

\* Machine::WriteMem: the exception, or the memory after the write.
WriteMem(m, addr, size, value) ==
    LET t == Translate(m, addr, size)
    IN [exc |-> t.exc,
        memory |-> IF t.exc # "NoException" THEN m.memory
                   ELSE [a \in DOMAIN m.memory |->
                            IF a \in t.phys..t.phys + size - 1
                            THEN ByteOf(value, a - t.phys) ELSE m.memory[a]]]

-----------------------------------------------------------------------------
(* Executing.  An outcome of an instruction is an exception, or the         *)
(* registers and memory it leaves, the load it starts and the program       *)
(* counter after the next one.                                              *)

Done(m) == [exc |-> "NoException", badVAddr |-> 0,
            registers |-> m.registers, memory |-> m.memory,
            loadReg |-> 0, loadValue |-> 0,
            pcAfter |-> Wrap(m.registers[NextPCReg] + 4)]
Raise(m, exc, addr) == [Done(m) EXCEPT !.exc = exc, !.badVAddr = addr]
Set(m, n, value) == [Done(m) EXCEPT !.registers[n] = value]
Load(m, n, value) == [Done(m) EXCEPT !.loadReg = n, !.loadValue = value]

RS(m, i) == m.registers[i.rs]
RT(m, i) == m.registers[i.rt]
Immediate(i) == Low(i.extra, 2 * ByteBits)
Address(m, i) == Wrap(RS(m, i) + i.extra)
\* Mutant: SIGN_BIT is one bit too low.
SameSignLow(v, w) == (v >= 2^(W - 2)) = (w >= 2^(W - 2))
SameSign(v, w) == Negative(v) = Negative(w)
Flag(b) == IF b THEN 1 ELSE 0

AddAnd(m, i) ==
    LET sum == Wrap(RS(m, i) + RT(m, i))
        sumI == Wrap(RS(m, i) + i.extra)
    IN CASE i.opCode = "ADD" ->
                IF SameSign(RS(m, i), RT(m, i)) /\ ~SameSign(RS(m, i), sum)
                THEN Raise(m, "OverflowException", 0) ELSE Set(m, i.rd, sum)
         [] i.opCode = "ADDI" ->
                IF SameSign(RS(m, i), i.extra) /\ ~SameSign(i.extra, sumI)
                THEN Raise(m, "OverflowException", 0) ELSE Set(m, i.rt, sumI)
         [] i.opCode = "ADDIU" -> Set(m, i.rt, sumI)
         [] i.opCode = "ADDU" -> Set(m, i.rd, sum)
         [] i.opCode = "AND" -> Set(m, i.rd, RS(m, i) & RT(m, i))
         [] i.opCode = "ANDI" -> Set(m, i.rt, RS(m, i) & Immediate(i))

\* The linking forms write R31 before the condition reads its register.
Branch(m, i) ==
    LET next == m.registers[NextPCReg]
        linked == i.opCode \in {"BGEZAL", "BLTZAL"}
        regs == IF linked THEN [m.registers EXCEPT ![31] = Wrap(next + 4)]
                ELSE m.registers
        rs == regs[i.rs]
        taken == CASE i.opCode = "BEQ" -> rs = regs[i.rt]
                   [] i.opCode = "BNE" -> rs # regs[i.rt]
                   [] i.opCode \in {"BGEZ", "BGEZAL"} -> ~Negative(rs)
                   [] i.opCode \in {"BLTZ", "BLTZAL"} -> Negative(rs)
                   [] i.opCode = "BGTZ" -> Signed(rs) > 0
                   [] i.opCode = "BLEZ" -> Signed(rs) <= 0
    IN [Done(m) EXCEPT !.registers = regs,
                       !.pcAfter = IF taken THEN Wrap(next + ShiftLeft(i.extra, 2)) ELSE @]

\* Division of ints truncates.  The one quotient that is no int stops the
\* simulator with a host trap.
Divide(m, i) ==
    LET a == IF i.opCode = "DIV" THEN Signed(RS(m, i)) ELSE RS(m, i)
        b == IF i.opCode = "DIV" THEN Signed(RT(m, i)) ELSE RT(m, i)
        Abs(x) == IF x < 0 THEN -x ELSE x
        q == IF (a < 0) = (b < 0) THEN Abs(a) \div Abs(b) ELSE -(Abs(a) \div Abs(b))
    IN CASE b = 0 -> [Done(m) EXCEPT !.registers[LoReg] = 0, !.registers[HiReg] = 0]
         [] b # 0 /\ q = 2^(W - 1) /\ i.opCode = "DIV" -> Raise(m, "HostTrap", 0)
         [] OTHER -> [Done(m) EXCEPT !.registers[LoReg] = Wrap(q),
                                     !.registers[HiReg] = Wrap(a - q * b)]

\* JALR writes rd before JR's part reads rs.
Jump(m, i) ==
    LET link == Wrap(m.registers[NextPCReg] + 4)
        regs == CASE i.opCode = "JAL" -> [m.registers EXCEPT ![31] = link]
                  [] i.opCode = "JALR" -> [m.registers EXCEPT ![i.rd] = link]
                  [] OTHER -> m.registers
        segment == 2^(W - 4)
    IN [Done(m) EXCEPT !.registers = regs,
            !.pcAfter = IF i.opCode \in {"JALR", "JR"} THEN regs[i.rs]
                        ELSE (@ \div segment) * segment + Low(4 * i.extra, W - 4)]

LoadAligned(m, i) ==
    LET size == CASE i.opCode \in {"LB", "LBU"} -> 1
                  [] i.opCode \in {"LH", "LHU"} -> 2
                  [] OTHER -> 4
        r == ReadMem(m, Address(m, i), size)
    IN CASE i.opCode = "LUI" -> Set(m, i.rt, ShiftLeft(i.extra, 2 * ByteBits))
         [] i.opCode # "LUI" /\ r.exc # "NoException" -> Raise(m, r.exc, Address(m, i))
         [] OTHER -> Load(m, i.rt, IF i.opCode \in {"LB", "LH"}
                                   THEN SignExtend(r.value, size * ByteBits)
                                   ELSE r.value)

\* LWL and LWR merge the addressed part of the aligned word into the
\* register, or into the value already on its way to that register.
LoadUnaligned(m, i) ==
    LET byte == Address(m, i) % 4
        r == ReadMem(m, Address(m, i) - byte, 4)
        old == IF m.registers[LoadReg] = i.rt THEN m.registers[LoadValueReg]
               ELSE RT(m, i)
        kept == ByteBits * (3 - byte)       \* LWL keeps these low bits
        taken == ByteBits * (4 - byte)      \* LWR replaces these low bits
    IN CASE r.exc # "NoException" -> Raise(m, r.exc, Address(m, i) - byte)
         [] r.exc = "NoException" /\ i.opCode = "LWL" ->
                Load(m, i.rt, Low(old, kept) + ShiftLeft(r.value, kept))
         [] OTHER ->
                Load(m, i.rt, (old - Low(old, taken)) + r.value \div 2^(ByteBits * byte))

\* The shift-and-add loop of Mult: one pass per bit of a, left early when no
\* bit of a remains.
Mult(a, b, signedArith) ==
    LET Magnitude(w) == IF signedArith /\ Negative(w) THEN Wrap(-Signed(w)) ELSE w
        start == [a |-> Magnitude(a), bLo |-> Magnitude(b), bHi |-> 0,
                  lo |-> 0, hi |-> 0, left |-> FALSE]
        Add(s) == LET lo == Wrap(s.lo + s.bLo)
                  IN [s EXCEPT !.lo = lo, !.left = (s.a \div 2 = 0),
                               !.hi = Wrap(@ + Flag(lo < s.bLo) + s.bHi)]
        Shift(s) == [s EXCEPT !.bHi = ShiftLeft(@, 1) + Flag(Negative(s.bLo)),
                              !.bLo = ShiftLeft(@, 1),
                              !.a = ShiftRight(@, 1)]
        Pass(s) == LET t == IF s.a % 2 = 1 THEN Add(s) ELSE s
                   IN IF t.left THEN t ELSE Shift(t)
        loop[n \in 0..W] == IF n = 0 THEN start
                            ELSE IF loop[n - 1].left THEN loop[n - 1]
                            ELSE Pass(loop[n - 1])
        hi == loop[W].hi
        lo == loop[W].lo
        negative == signedArith /\ ~SameSign(a, b)
    IN CASE a = 0 \/ b = 0 -> [hi |-> 0, lo |-> 0]
         [] a # 0 /\ b # 0 /\ negative -> [hi |-> Wrap(-hi - Flag(lo # 0)), lo |-> Wrap(-lo)]
         [] OTHER -> [hi |-> hi, lo |-> lo]

HiLo(m, i) ==
    LET product == Mult(RS(m, i), RT(m, i), i.opCode = "MULT")
    IN CASE i.opCode = "MFHI" -> Set(m, i.rd, m.registers[HiReg])
         [] i.opCode = "MFLO" -> Set(m, i.rd, m.registers[LoReg])
         [] i.opCode = "MTHI" -> Set(m, HiReg, RS(m, i))
         [] i.opCode = "MTLO" -> Set(m, LoReg, RS(m, i))
         [] OTHER -> [Done(m) EXCEPT !.registers[HiReg] = product.hi,
                                     !.registers[LoReg] = product.lo]

OrNor(m, i) ==
    CASE i.opCode = "NOR" -> Set(m, i.rd, 2^W - 1 - (RS(m, i) | RT(m, i)))
      [] i.opCode = "OR" -> Set(m, i.rd, RS(m, i) | RT(m, i))
      [] i.opCode = "ORI" -> Set(m, i.rt, RS(m, i) | Immediate(i))

\* SRL and SRLV go through an int and shift like SRA and SRAV.
ShiftCompare(m, i) ==
    LET variable == RS(m, i) % W
    IN CASE i.opCode = "SLL" -> Set(m, i.rd, ShiftLeft(RT(m, i), i.extra))
         [] i.opCode = "SLLV" -> Set(m, i.rd, ShiftLeft(RT(m, i), variable))
         [] i.opCode \in {"SRA", "SRL"} -> Set(m, i.rd, ShiftRight(RT(m, i), i.extra))
         [] i.opCode \in {"SRAV", "SRLV"} -> Set(m, i.rd, ShiftRight(RT(m, i), variable))
         [] i.opCode = "SLT" -> Set(m, i.rd, Flag(Signed(RS(m, i)) < Signed(RT(m, i))))
         [] i.opCode = "SLTI" -> Set(m, i.rt, Flag(Signed(RS(m, i)) < Signed(i.extra)))
         [] i.opCode = "SLTU" -> Set(m, i.rd, Flag(RS(m, i) < RT(m, i)))
         [] i.opCode = "SLTIU" -> Set(m, i.rt, Flag(RS(m, i) < i.extra))

Subtract(m, i) ==
    LET diff == Wrap(RS(m, i) - RT(m, i))
    IN IF i.opCode = "SUB" /\ ~SameSign(RS(m, i), RT(m, i)) /\ ~SameSign(RS(m, i), diff)
       THEN Raise(m, "OverflowException", 0) ELSE Set(m, i.rd, diff)

Stored(m, addr, size, value) ==
    LET w == WriteMem(m, addr, size, value)
    IN IF w.exc # "NoException" THEN Raise(m, w.exc, addr)
       ELSE [Done(m) EXCEPT !.memory = w.memory]

Store(m, i) ==
    Stored(m, Address(m, i), CASE i.opCode = "SB" -> 1
                               [] i.opCode = "SH" -> 2
                               [] i.opCode = "SW" -> 4, RT(m, i))

\* SWL and SWR read the aligned word, replace a part of it and write it back.
StoreUnaligned(m, i) ==
    LET byte == Address(m, i) % 4
        addr == Address(m, i) - byte
        r == ReadMem(m, addr, 4)
        taken == ByteBits * (byte + 1)      \* SWL replaces these low bits
        kept == ByteBits * byte             \* SWR keeps these low bits
    IN CASE r.exc # "NoException" -> Raise(m, r.exc, addr)
         [] r.exc = "NoException" /\ i.opCode = "SWL" ->
                Stored(m, addr, 4, (r.value - Low(r.value, taken))
                                   + RT(m, i) \div 2^(ByteBits * (3 - byte)))
         [] OTHER -> Stored(m, addr, 4, Low(r.value, kept) + ShiftLeft(RT(m, i), kept))

Exclusive(m, i) ==
    CASE i.opCode = "XOR" -> Set(m, i.rd, RS(m, i) ^^ RT(m, i))
      [] i.opCode = "XORI" -> Set(m, i.rt, RS(m, i) ^^ Immediate(i))

Execute(m, i) ==
    CASE i.opCode \in {"ADD", "ADDI", "ADDIU", "ADDU", "AND", "ANDI"} -> AddAnd(m, i)
      [] i.opCode \in {"BEQ", "BNE", "BGEZ", "BGEZAL", "BLTZ", "BLTZAL", "BGTZ", "BLEZ"} ->
             Branch(m, i)
      [] i.opCode \in {"DIV", "DIVU"} -> Divide(m, i)
      [] i.opCode \in {"J", "JAL", "JR", "JALR"} -> Jump(m, i)
      [] i.opCode \in {"LB", "LBU", "LH", "LHU", "LUI", "LW"} -> LoadAligned(m, i)
      [] i.opCode \in {"LWL", "LWR"} -> LoadUnaligned(m, i)
      [] i.opCode \in {"MFHI", "MFLO", "MTHI", "MTLO", "MULT", "MULTU"} -> HiLo(m, i)
      [] i.opCode \in {"NOR", "OR", "ORI"} -> OrNor(m, i)
      [] i.opCode \in {"SLL", "SLLV", "SRA", "SRAV", "SRL", "SRLV",
                       "SLT", "SLTI", "SLTU", "SLTIU"} -> ShiftCompare(m, i)
      [] i.opCode \in {"SUB", "SUBU"} -> Subtract(m, i)
      [] i.opCode \in {"SB", "SH", "SW"} -> Store(m, i)
      [] i.opCode \in {"SWL", "SWR"} -> StoreUnaligned(m, i)
      [] i.opCode \in {"XOR", "XORI"} -> Exclusive(m, i)
      [] i.opCode = "SYSCALL" -> Raise(m, "SyscallException", 0)
      [] i.opCode \in {"RES", "UNIMP"} -> Raise(m, "IllegalInstrException", 0)

-----------------------------------------------------------------------------
(* Delayed loads and the step of the machine *)

\* Machine::DelayedLoad: the load in progress lands after the instruction's
\* own writes, and R0 stays zero.
DelayedLoad(r, nextReg, nextValue) ==
    [r EXCEPT ![r[LoadReg]] = r[LoadValueReg], ![LoadReg] = nextReg,
              ![LoadValueReg] = nextValue, ![0] = 0]

\* Machine::RaiseException up to the call of the handler.
RaiseException(r, badVAddr) == DelayedLoad([r EXCEPT ![BadVAddrReg] = badVAddr], 0, 0)

Complete(o) ==
    LET r == DelayedLoad(o.registers, o.loadReg, o.loadValue)
    IN [r EXCEPT ![PrevPCReg] = r[PCReg], ![PCReg] = r[NextPCReg], ![NextPCReg] = o.pcAfter]

\* Machine::OneInstruction: fetch, decode, execute; an exception leaves
\* everything but the load in progress as it was.
OneInstruction(m) ==
    LET pc == m.registers[PCReg]
        raw == ReadMem(m, pc, 4)
        o == IF raw.exc # "NoException" THEN Raise(m, raw.exc, pc)
             ELSE Execute(m, Decode(raw.value))
    IN [exc |-> o.exc,
        m |-> IF o.exc = "NoException"
              THEN [m EXCEPT !.registers = Complete(o), !.memory = o.memory]
              ELSE [m EXCEPT !.registers = RaiseException(m.registers, o.badVAddr)]]
=============================================================================
