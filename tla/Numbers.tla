------------------------------- MODULE Numbers -------------------------------
(***************************************************************************)
(* The numbers of the console: what SysPrintNum writes and what SysReadNum *)
(* makes of the characters it read (userprog/ksyscall.h, ksyscallhelper.h).*)
(* An int has IntBits bits (32 in the code) and MaxNumLength is the length *)
(* of its longest numeral; characters are their codes.                     *)
(***************************************************************************)
EXTENDS Integers, Sequences

CONSTANTS IntBits, MaxNumLength

ASSUME NumbersAssumption == IntBits \in Nat \ {0} /\ MaxNumLength \in Nat \ {0}

EOF == -1
Zero == 48
Minus == 45
IsDigit(c) == c \in Zero..Zero + 9
isBlank(c) == c \in {9, 10, 13, 32}

MinInt == -(2^(IntBits - 1))
ToInt(n) == ((n - MinInt) % 2^IntBits) + MinInt      \* arithmetic wraps

\* The digits of num > 0, least significant first, as SysPrintNum computes them.
Digits(num) ==
    LET d[n \in 0..num] == IF n = 0 THEN << >> ELSE <<n % 10>> \o d[n \div 10]
    IN d[num]

\* The characters of a numeral.
Numeral(num) ==
    LET m == IF num < 0 THEN -num ELSE num
        d == Digits(m)
    IN IF num = 0 THEN <<Zero>>
       ELSE (IF num < 0 THEN <<Minus>> ELSE << >>)
            \o [i \in 1..Len(d) |-> Zero + d[Len(d) + 1 - i]]

\* The buffer of SysReadNum and SysPrintNum is long enough for every number.
ASSUME LongestNumeral == \A n \in MinInt..-MinInt - 1 : Len(Numeral(n)) <= MaxNumLength

\* Mutant: every numeral passes.
compareAlways(integer, s) == TRUE

\* compareNumAndString: digit by digit from the right, then nothing may be left.
compareNumAndString(integer, s) ==
    LET negative == integer < 0
        t == IF negative /\ s # << >> THEN Tail(s) ELSE s
        d == IF negative THEN (IF integer = MinInt THEN << >> ELSE Digits(-integer))
             ELSE Digits(integer)
    IN IF integer = 0 THEN s = <<Zero>>
       ELSE /\ negative => s # << >> /\ s[1] = Minus
            /\ Len(d) = Len(t)
            /\ \A i \in DOMAIN d : t[Len(t) + 1 - i] - Zero = d[i]

\* SysReadNum after readUntilBlank, on the characters in the buffer.
ParseNum(s) ==
    LET negative == s # << >> /\ s[1] = Minus
        digits == IF negative THEN Tail(s) ELSE s
        value[i \in 0..Len(digits)] ==
            IF i = 0 THEN 0 ELSE ToInt(value[i - 1] * 10 + digits[i] - Zero)
        leading == {i \in DOMAIN digits : \A j \in 1..i : digits[j] = Zero}
        num == value[Len(digits)]
        signed == IF negative THEN ToInt(-num) ELSE num
        wrong == \/ \E i \in DOMAIN digits : ~IsDigit(digits[i])
                 \/ \E i, j \in leading : i # j
                 \/ leading # {} /\ (num # 0 \/ negative)
    IN CASE s = << >> -> 0
         [] s = Numeral(MinInt) -> MinInt
         [] OTHER -> IF wrong THEN 0
                     ELSE IF Len(s) <= MaxNumLength - 2 \/ compareNumAndString(signed, s)
                     THEN signed ELSE 0
==============================================================================
