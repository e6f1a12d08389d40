-------------------------------- MODULE Alu --------------------------------
(***************************************************************************)
(* The arithmetic of op_arithmetic.go, the shifts of op_bit_logical.go and *)
(* the conditions of op_control_flow.go, on words of any width.  A word is *)
(* a number below its modulus; a test of a bit mask is a comparison.       *)
(***************************************************************************)
EXTENDS Integers

CONSTANTS
  Bits,     \* the width of a size
  SignBit   \* its sign bit, size.signBit()

Sizes == {"byte", "word", "long"}

ASSUME WidthAssumption ==
  /\ Bits \in [Sizes -> Nat \ {0}] /\ SignBit \in [Sizes -> Nat \ {0}]
  /\ \A s \in Sizes : SignBit[s] = 2 ^ (Bits[s] - 1)
  /\ 2 * SignBit["byte"] <= SignBit["word"] /\ 2 * SignBit["word"] <= SignBit["long"]

Modulus(s) == 2 * SignBit[s]
Values(s) == 0 .. Modulus(s) - 1
Low(v, s) == v % Modulus(s)
Negative(v, s) == Low(v, s) >= SignBit[s]
Signed(v, s) == IF Negative(v, s) THEN Low(v, s) - Modulus(s) ELSE Low(v, s)

CCR == [x : BOOLEAN, n : BOOLEAN, z : BOOLEAN, v : BOOLEAN, c : BOOLEAN]

\* What an operation computes: the value it writes back, and the flags.
Outcome(value, flags) == [value |-> value, flags |-> flags]

UpdateNZClearVC(value, s, ccr) ==
  [ccr EXCEPT !.n = Negative(value, s), !.z = Low(value, s) = 0, !.v = FALSE, !.c = FALSE]

-----------------------------------------------------------------------------
\* Addition and subtraction.

AddWithFlags(src, dst, s) ==
  LET res == Low(src + dst, s)
      carry == \/ Negative(src, s) /\ Negative(dst, s)
               \/ (Negative(src, s) \/ Negative(dst, s)) /\ ~Negative(res, s)
  IN Outcome(res, [x |-> carry, c |-> carry, n |-> Negative(res, s), z |-> res = 0,
                   v |-> /\ Negative(dst, s) = Negative(src, s)
                         /\ Negative(res, s) # Negative(dst, s)])

\* A mutant of SubWithFlags: overflow is decided as in an addition.
SubWithFlagsOfAdd(src, dst, s) ==
  LET res == Low(dst - src, s)
  IN Outcome(res, [x |-> src > dst, c |-> src > dst, n |-> Negative(res, s), z |-> res = 0,
                   v |-> /\ Negative(dst, s) = Negative(src, s)
                         /\ Negative(res, s) # Negative(dst, s)])

SubWithFlags(src, dst, s) ==
  LET res == Low(dst - src, s)
  IN Outcome(res, [x |-> src > dst, c |-> src > dst, n |-> Negative(res, s), z |-> res = 0,
                   v |-> /\ Negative(dst, s) # Negative(src, s)
                         /\ Negative(res, s) # Negative(dst, s)])

(* The operand and the extend bit are added first, in a long: at the       *)
(* largest operand of that size their sum is 0.                            *)
Operand2(src, x) == Low(src + (IF x THEN 1 ELSE 0), "long")

\* A mutant of UpdateExtendZeroFlag: Z of this digit alone.
UpdateExtendZeroFlagAlone(res, prevZero) == res = 0

\* Z is only ever cleared: it speaks of all digits of a number.
UpdateExtendZeroFlag(res, prevZero) == res = 0 /\ prevZero

(* The carry is looked for above the mask, where a long has no bit left.   *)
AddWithExtend(src, dst, s, ccr) ==
  LET operand2 == Operand2(src, ccr.x)
      sum == Low(dst + operand2, "long")
      res == Low(sum, s)
      carry == sum >= Modulus(s)
  IN Outcome(res, [x |-> carry, c |-> carry, n |-> Negative(res, s),
                   z |-> UpdateExtendZeroFlag(res, ccr.z),
                   v |-> /\ Negative(dst, s) = Negative(operand2, s)
                         /\ Negative(res, s) # Negative(dst, s)])

SubWithExtend(src, dst, s, ccr) ==
  LET operand2 == Operand2(src, ccr.x)
      res == Low(dst - operand2, s)
      borrow == dst < operand2
  IN Outcome(res, [x |-> borrow, c |-> borrow, n |-> Negative(res, s),
                   z |-> UpdateExtendZeroFlag(res, ccr.z),
                   v |-> /\ Negative(dst, s) # Negative(operand2, s)
                         /\ Negative(res, s) # Negative(dst, s)])

-----------------------------------------------------------------------------
\* Binary coded decimals: two digits in the nibbles of a byte, of eight bits.

BcdAdd(src, dst, x) ==
  LET e == IF x THEN 1 ELSE 0
      low == (src % 16) + (dst % 16) + e
      sum == src + dst + e + (IF low > 9 THEN 6 ELSE 0)
  IN [value |-> (IF sum > 153 THEN sum + 96 ELSE sum) % 256, carry |-> sum > 153]

BcdSub(src, dst, x) ==
  LET e == IF x THEN 1 ELSE 0
      low == (dst % 16) - (src % 16) - e
      diff == dst - src - e - (IF low < 0 THEN 6 ELSE 0)
  IN [value |-> (IF diff < 0 THEN diff - 96 ELSE diff) % 256, carry |-> diff < 0]

UpdateBCDFlags(result, zero) ==
  Outcome(result.value, [x |-> result.carry, c |-> result.carry, n |-> FALSE, v |-> FALSE,
                         z |-> zero])

-----------------------------------------------------------------------------
\* Shifts and rotates.

\* The loops "for range count".
Repeat(Step(_), start, count) ==
  LET after[i \in 0 .. count] == IF i = 0 THEN start ELSE Step(after[i - 1]) IN after[count]

BitOf(b) == IF b THEN 1 ELSE 0
Odd(v) == v % 2 = 1

\* A value, the bit shifted out of it, and whether its sign has changed on the way.
Shifting(value) == [value |-> value, out |-> FALSE, changed |-> FALSE]

ShiftLeft(value, count, s) ==
  LET Step(r) ==
        LET next == Low(2 * r.value, s)
        IN [value |-> next, out |-> Negative(r.value, s),
            changed |-> r.changed \/ Negative(r.value, s) # Negative(next, s)]
  IN Repeat(Step, Shifting(value), count)

ShiftRight(value, count, s, arithmetic) ==
  LET fill == IF arithmetic /\ Negative(value, s) THEN SignBit[s] ELSE 0
      Step(r) == [value |-> r.value \div 2 + fill, out |-> Odd(r.value), changed |-> FALSE]
  IN Repeat(Step, Shifting(value), count)

\* A mutant of RotationLength: the extend bit does not count.
RotationLengthOfValue(s) == Bits[s]

\* ROXL and ROXR rotate the value and the extend bit.
RotationLength(s) == Bits[s] + 1

Roxl(value, count, s, x) ==
  LET Step(r) == [value |-> Low(2 * r.value + BitOf(r.out), s), out |-> Negative(r.value, s),
                  changed |-> FALSE]
  IN Repeat(Step, [Shifting(value) EXCEPT !.out = x], count % RotationLength(s))

Roxr(value, count, s, x) ==
  LET Step(r) == [value |-> r.value \div 2 + BitOf(r.out) * SignBit[s], out |-> Odd(r.value),
                  changed |-> FALSE]
  IN Repeat(Step, [Shifting(value) EXCEPT !.out = x], count % RotationLength(s))

\* The halves of the value change places.
Rol(value, count, s) ==
  LET shift == count % Bits[s]
      res == Low(value * 2 ^ shift, s) + value \div 2 ^ (Bits[s] - shift)
  IN [value |-> res, out |-> IF shift = 0 THEN Odd(value)
                             ELSE Odd(value \div 2 ^ (Bits[s] - shift))]

Ror(value, count, s) ==
  LET shift == count % Bits[s]
      res == value \div 2 ^ shift + Low(value * 2 ^ (Bits[s] - shift), s)
  IN [value |-> res, out |-> IF shift = 0 THEN Negative(value, s)
                             ELSE Odd(value \div 2 ^ (shift - 1))]

Shifts == {"asl", "asr", "lsl", "lsr", "roxl", "roxr", "rol", "ror"}

ShiftFlags(value, s, c, x, v) ==
  Outcome(value, [x |-> x, c |-> c, n |-> Negative(value, s), z |-> value = 0, v |-> v])

DoShiftRotate(op, value, count, s, x) ==
  LET left == ShiftLeft(value, count, s)
      right == ShiftRight(value, count, s, op = "asr")
      around == IF op = "roxl" THEN Roxl(value, count, s, x) ELSE Roxr(value, count, s, x)
      rotated == IF op = "rol" THEN Rol(value, count, s) ELSE Ror(value, count, s)
  IN CASE count = 0 -> ShiftFlags(value, s, op \in {"roxl", "roxr"} /\ x, x, FALSE)
       [] count > 0 /\ op = "asl" -> ShiftFlags(left.value, s, left.out, left.out, left.changed)
       [] count > 0 /\ op = "lsl" -> ShiftFlags(left.value, s, left.out, left.out, FALSE)
       [] count > 0 /\ op \in {"asr", "lsr"} -> ShiftFlags(right.value, s, right.out, right.out, FALSE)
       [] count > 0 /\ op \in {"roxl", "roxr"} -> ShiftFlags(around.value, s, around.out, around.out, FALSE)
       [] OTHER -> ShiftFlags(rotated.value, s, rotated.out, x, FALSE)

-----------------------------------------------------------------------------
\* Multiplication and division.

MulFlags(product, ccr) ==
  Outcome(Low(product, "long"), UpdateNZClearVC(product, "long", ccr))
Mulu(src, dst, ccr) == MulFlags(Low(src, "word") * Low(dst, "word"), ccr)
Muls(src, dst, ccr) == MulFlags(Signed(src, "word") * Signed(dst, "word"), ccr)

\* A mutant of Quotient: division rounds down.
QuotientDown(a, b) == IF b > 0 THEN a \div b ELSE (0 - a) \div (0 - b)

\* Division rounds towards zero.
Quotient(a, b) ==
  LET Magnitude(n) == IF n < 0 THEN 0 - n ELSE n
      q == Magnitude(a) \div Magnitude(b)
  IN IF (a < 0) = (b < 0) THEN q ELSE 0 - q

\* The quotient and the remainder share the register, unless the quotient is too long.
DivisionFlags(q, r, fits, dst, ccr) ==
  IF fits
  THEN Outcome(Modulus("word") * Low(r, "word") + Low(q, "word"), UpdateNZClearVC(q, "word", ccr))
  ELSE Outcome(dst, [ccr EXCEPT !.n = FALSE, !.z = FALSE, !.v = TRUE, !.c = FALSE])

Divu(src, dst, ccr) ==
  LET q == dst \div src
  IN DivisionFlags(q, dst - q * src, q < Modulus("word"), dst, ccr)

Divs(src, dst, ccr) ==
  LET divisor == Signed(src, "word")
      dividend == Signed(dst, "long")
      q == Quotient(dividend, divisor)
  IN DivisionFlags(q, dividend - q * divisor,
                   0 - SignBit["word"] <= q /\ q < SignBit["word"], dst, ccr)

-----------------------------------------------------------------------------
\* Conditions.

Conditions == {"hi", "ls", "cc", "cs", "ne", "eq", "vc", "vs", "pl", "mi", "ge", "lt", "gt", "le"}

ConditionTrue(cond, ccr) ==
  CASE cond = "hi" -> ~ccr.c /\ ~ccr.z
    [] cond = "ls" -> ccr.c \/ ccr.z
    [] cond = "cc" -> ~ccr.c
    [] cond = "cs" -> ccr.c
    [] cond = "ne" -> ~ccr.z
    [] cond = "eq" -> ccr.z
    [] cond = "vc" -> ~ccr.v
    [] cond = "vs" -> ccr.v
    [] cond = "pl" -> ~ccr.n
    [] cond = "mi" -> ccr.n
    [] cond = "ge" -> ccr.n = ccr.v
    [] cond = "lt" -> ccr.n # ccr.v
    [] cond = "gt" -> ~ccr.z /\ ccr.n = ccr.v
    [] cond = "le" -> ccr.z \/ ccr.n # ccr.v
=============================================================================
