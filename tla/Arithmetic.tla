----------------------------- MODULE Arithmetic -----------------------------
(***************************************************************************)
(* The condition codes across a sequence of arithmetic instructions of     *)
(* op_arithmetic.go and op_bit_logical.go.  Where an operand comes from    *)
(* makes no difference here: each instruction takes any operands of its    *)
(* size, and what links it to the ones before it is the CCR.               *)
(***************************************************************************)
EXTENDS Alu

CONSTANTS
  Operands,  \* the operands of a size that instructions meet
  Counts,    \* shift counts
  Decimals   \* bytes of two decimal digits

ASSUME OperandsAssumption ==
  /\ \A s \in Sizes : Operands[s] \subseteq Values(s)
  /\ Counts \subseteq Nat
  /\ \A d \in Decimals : d \in 0 .. 255 /\ d % 16 <= 9 /\ d \div 16 <= 9

VARIABLES
  ccr,
  last,   \* ghost: the instruction just executed, forgotten when the next one is fetched
  number  \* ghost: the number of several words being computed, and its last digit

vars == <<ccr, last, number>>

(* number: a digit of the exact result and the one the instruction wrote; what is  *)
(* carried into the next digit; whether the digits so far are all zero,    *)
(* "lost" when other instructions have used Z; and whether the carry came  *)
(* out of a long with extend.                                              *)
Instruction(op, s, src, dst, res) == [op |-> op, size |-> s, src |-> src, dst |-> dst, res |-> res, x |-> ccr.x]
NoInstruction == [op |-> "none"]

-----------------------------------------------------------------------------
\* What instructions do to the number.

YesNo(b) == IF b THEN "yes" ELSE "no"

\* The first digit, or one after the first, of an exact total in a base.
FirstDigit(total, base, res) ==
  number' = [digit |-> total % base, res |-> res, owed |-> IF total \in 0 .. base - 1 THEN 0 ELSE 1,
             zero |-> YesNo(total % base = 0), long |-> FALSE]

NextDigit(total, base, res, s) ==
  number' = [digit |-> total % base, res |-> res, owed |-> IF total \in 0 .. base - 1 THEN 0 ELSE 1,
             zero |-> IF total % base # 0 THEN "no" ELSE number.zero,
             long |-> number.long \/ s = "long"]

\* X is kept and Z is not; or X is set otherwise.
KeepsCarry == number' = [number EXCEPT !.digit = 0, !.res = 0, !.zero = "lost"]
SetsCarry(x) ==
  number' = [digit |-> 0, res |-> 0, owed |-> BitOf(x), zero |-> "lost", long |-> FALSE]

Executes(op, s, src, dst, outcome) ==
  /\ last = NoInstruction
  /\ last' = Instruction(op, s, src, dst, outcome.value)
  /\ ccr' = outcome.flags

-----------------------------------------------------------------------------
\* The instructions.

\* ADD, ADDI and ADDQ.
Add(s, src, dst) ==
  LET outcome == AddWithFlags(src, dst, s)
  IN /\ Executes("add", s, src, dst, outcome)
     /\ FirstDigit(dst + src, Modulus(s), outcome.value)

Sub(s, src, dst) ==
  LET outcome == SubWithFlags(src, dst, s)
  IN /\ Executes("sub", s, src, dst, outcome)
     /\ FirstDigit(dst - src, Modulus(s), outcome.value)

Neg(s, value) ==
  LET outcome == SubWithFlags(value, 0, s)
  IN /\ Executes("sub", s, value, 0, outcome)
     /\ FirstDigit(0 - value, Modulus(s), outcome.value)

Cmp(s, src, dst) ==
  /\ Executes("cmp", s, src, dst,
              Outcome(dst, [SubWithFlags(src, dst, s).flags EXCEPT !.x = ccr.x]))
  /\ KeepsCarry

Addx(s, src, dst) ==
  LET outcome == AddWithExtend(src, dst, s, ccr)
  IN /\ Executes("addx", s, src, dst, outcome)
     /\ NextDigit(dst + src + number.owed, Modulus(s), outcome.value, s)

Subx(s, src, dst) ==
  LET outcome == SubWithExtend(src, dst, s, ccr)
  IN /\ Executes("subx", s, src, dst, outcome)
     /\ NextDigit(dst - src - number.owed, Modulus(s), outcome.value, s)

Negx(s, value) ==
  LET outcome == SubWithExtend(value, 0, s, ccr)
  IN /\ Executes("subx", s, value, 0, outcome)
     /\ NextDigit(0 - value - number.owed, Modulus(s), outcome.value, s)

Digits(d) == 10 * (d \div 16) + (d % 16)
FromDigits(n) == 16 * (n \div 10) + (n % 10)

\* The digits of a number in base 100, as the instructions write them.
NextDecimal(total, res) ==
  number' = [number EXCEPT !.digit = FromDigits(total % 100), !.res = res,
                           !.owed = IF total \in 0 .. 99 THEN 0 ELSE 1,
                           !.zero = IF total % 100 # 0 THEN "no" ELSE number.zero]

Abcd(src, dst) ==
  LET result == BcdAdd(src, dst, ccr.x)
      outcome == UpdateBCDFlags(result, result.value = 0 /\ ccr.z)
  IN /\ Executes("abcd", "byte", src, dst, outcome)
     /\ NextDecimal(Digits(dst) + Digits(src) + number.owed, outcome.value)

Sbcd(src, dst) ==
  LET result == BcdSub(src, dst, ccr.x)
      outcome == UpdateBCDFlags(result, result.value = 0 /\ ccr.z)
  IN /\ Executes("sbcd", "byte", src, dst, outcome)
     /\ NextDecimal(Digits(dst) - Digits(src) - number.owed, outcome.value)

\* Z speaks of this digit alone.
Nbcd(value) ==
  LET result == BcdSub(value, 0, ccr.x)
      outcome == UpdateBCDFlags(result, result.value = 0)
      total == 0 - Digits(value) - number.owed
  IN /\ Executes("sbcd", "byte", value, 0, outcome)
     /\ number' = [number EXCEPT !.digit = FromDigits(total % 100), !.res = outcome.value,
                                 !.owed = IF total = 0 THEN 0 ELSE 1,
                                 !.zero = YesNo(total % 100 = 0)]

\* TST, MOVE, CLR, SWAP, EXT and the logical instructions, by their result.
Tst(s, value) ==
  /\ Executes("tst", s, 0, value, Outcome(value, UpdateNZClearVC(value, s, ccr)))
  /\ KeepsCarry

Multiply(src, dst) ==
  /\ \/ Executes("mulu", "long", src, dst, Mulu(src, dst, ccr))
     \/ Executes("muls", "long", src, dst, Muls(src, dst, ccr))
  /\ KeepsCarry

\* A divisor of zero is an exception and leaves the flags.
Divide(src, dst) ==
  /\ src # 0
  /\ \/ Executes("divu", "long", src, dst, Divu(src, dst, ccr))
     \/ Executes("divs", "long", src, dst, Divs(src, dst, ccr))
  /\ KeepsCarry

ShiftRotate(op, s, count, value) ==
  LET outcome == DoShiftRotate(op, value, count, s, ccr.x)
  IN /\ Executes(op, s, count, value, outcome)
     /\ IF op \in {"rol", "ror"} \/ count = 0 THEN KeepsCarry ELSE SetsCarry(outcome.flags.x)

\* MOVE to CCR, and the immediate logical instructions to it.
SetCcr(flags) ==
  /\ last = NoInstruction
  /\ ccr' = flags
  /\ number' = [digit |-> 0, res |-> 0, owed |-> BitOf(flags.x), zero |-> YesNo(flags.z), long |-> FALSE]
  /\ UNCHANGED last

Fetch ==
  /\ last # NoInstruction
  /\ last' = NoInstruction
  /\ UNCHANGED <<ccr, number>>

Init ==
  /\ ccr \in CCR
  /\ last = NoInstruction
  /\ number = [digit |-> 0, res |-> 0, owed |-> BitOf(ccr.x), zero |-> YesNo(ccr.z), long |-> FALSE]

Next ==
  \/ \E s \in Sizes : \E src, dst \in Operands[s] :
       Add(s, src, dst) \/ Sub(s, src, dst) \/ Cmp(s, src, dst) \/ Addx(s, src, dst) \/ Subx(s, src, dst)
  \/ \E s \in Sizes : \E value \in Operands[s] : Neg(s, value) \/ Negx(s, value) \/ Tst(s, value)
  \/ \E src, dst \in Decimals : Abcd(src, dst) \/ Sbcd(src, dst)
  \/ \E value \in Decimals : Nbcd(value)
  \/ \E src \in Operands["word"], dst \in Operands["long"] : Multiply(src, dst) \/ Divide(src, dst)
  \/ \E op \in Shifts, s \in Sizes : \E count \in Counts, value \in Operands[s] :
       ShiftRotate(op, s, count, value)
  \/ \E flags \in CCR : SetCcr(flags)
  \/ Fetch

Spec == Init /\ [][Next]_vars

-----------------------------------------------------------------------------
\* Properties.

(* What a condition says after a comparison of dst with src.               *)
Compares(cond, src, dst, s) ==
  LET difference == Signed(dst, s) - Signed(src, s)
      fits == 0 - SignBit[s] <= difference /\ difference < SignBit[s]
  IN CASE cond = "hi" -> dst > src
       [] cond = "ls" -> dst <= src
       [] cond = "cc" -> dst >= src
       [] cond = "cs" -> dst < src
       [] cond = "ne" -> dst # src
       [] cond = "eq" -> dst = src
       [] cond = "vc" -> fits
       [] cond = "vs" -> ~fits
       [] cond = "pl" -> (difference >= 0) = fits
       [] cond = "mi" -> (difference < 0) = fits
       [] cond = "ge" -> Signed(dst, s) >= Signed(src, s)
       [] cond = "lt" -> Signed(dst, s) < Signed(src, s)
       [] cond = "gt" -> Signed(dst, s) > Signed(src, s)
       [] cond = "le" -> Signed(dst, s) <= Signed(src, s)

(* After SUB, NEG, CMP and a test of a result, each condition of Bcc, DBcc *)
(* and Scc compares the operands as it is named for, signed and unsigned,  *)
(* at every size and also where the difference overflows.                  *)
ComparisonsDecide ==
  last.op \in {"sub", "cmp", "tst"} =>
    \A cond \in Conditions : ConditionTrue(cond, ccr) <=> Compares(cond, last.src, last.dst, last.size)

(* A number of several words, bytes or pairs of decimal digits is computed *)
(* exactly: every digit and the carry behind it, though comparisons, tests,*)
(* rotates and divisions come between the digits, and Z says that all of   *)
(* them are zero.  The carry out of ADDX, SUBX and NEGX on longs is left   *)
(* out, with all that follows from it.                                     *)
NumbersExact ==
  ~number.long =>
    /\ number.res = number.digit
    /\ ccr.x <=> number.owed = 1
    /\ number.zero # "lost" => (ccr.z <=> number.zero = "yes")

\* A rotate bit by bit.
RotateOnce(op, r, s) ==
  CASE op = "rol" -> [r EXCEPT !.value = Low(2 * r.value, s) + BitOf(Negative(r.value, s))]
    [] op = "ror" -> [r EXCEPT !.value = r.value \div 2 + BitOf(Odd(r.value)) * SignBit[s]]
    [] op = "roxl" -> [value |-> Low(2 * r.value, s) + BitOf(r.x), x |-> Negative(r.value, s)]
    [] op = "roxr" -> [value |-> r.value \div 2 + BitOf(r.x) * SignBit[s], x |-> Odd(r.value)]

Rotated(op, value, count, s, x) ==
  LET Step(r) == RotateOnce(op, r, s) IN Repeat(Step, [value |-> value, x |-> x], count)

(* The value and the last bit shifted out are those of multiplying or      *)
(* dividing by a power of two, rounding down; ASL reports a product that   *)
(* does not fit; a rotate is as many rotations by one.                     *)
ShiftsExact ==
  last.op \in Shifts =>
    LET n == last.src
        s == last.size
        value == last.dst
        signed == IF last.op = "asr" THEN Signed(value, s) ELSE value
        product == Signed(value, s) * 2 ^ n
        rotated == Rotated(last.op, value, n, s, last.x)
    IN /\ ccr.z = (last.res = 0) /\ ccr.n = (last.res >= SignBit[s])
       /\ ccr.v <=> last.op = "asl" /\ ~(0 - SignBit[s] <= product /\ product < SignBit[s])
       /\ last.op \in {"asl", "lsl"} =>
            /\ last.res = Low(value * 2 ^ n, s)
            /\ ccr.c <=> Odd((value * 2 ^ n) \div Modulus(s))
       /\ last.op \in {"asr", "lsr"} =>
            /\ last.res = Low(signed \div 2 ^ n, s)
            /\ ccr.c <=> n > 0 /\ Odd(signed \div 2 ^ (n - 1))
       /\ last.op \in {"rol", "ror"} =>
            /\ last.res = rotated.value
            /\ ccr.c <=> n > 0 /\ (IF last.op = "rol" THEN Odd(last.res) ELSE Negative(last.res, s))
       /\ last.op \in {"roxl", "roxr"} =>
            last.res = rotated.value /\ ccr.x = rotated.x /\ ccr.c = ccr.x

(* A product is exact.  A quotient is exact and rounded towards zero: the  *)
(* remainder is smaller than the divisor and has the sign of the dividend; *)
(* a quotient that does not fit leaves the register and sets V.            *)
DivisionsExact ==
  /\ last.op = "mulu" => last.res = last.src * Low(last.dst, "word")
  /\ last.op = "muls" => Signed(last.res, "long") = Signed(last.src, "word") * Signed(last.dst, "word")
  /\ last.op \in {"divu", "divs"} =>
       LET Read(v, s) == IF last.op = "divs" THEN Signed(v, s) ELSE Low(v, s)
           dividend == Read(last.dst, "long")
           divisor == Read(last.src, "word")
           q == Read(last.res, "word")
           r == Read(last.res \div Modulus("word"), "word")
           size == IF divisor < 0 THEN 0 - divisor ELSE divisor
       IN IF ccr.v
          THEN /\ last.res = last.dst
               /\ \A any \in Values("word") :
                    dividend - Read(any, "word") * divisor \notin
                      (IF dividend < 0 THEN 1 - size .. 0 ELSE 0 .. size - 1)
          ELSE /\ dividend = q * divisor + r
               /\ r \in (IF dividend < 0 THEN 1 - size .. 0 ELSE 0 .. size - 1)
=============================================================================
