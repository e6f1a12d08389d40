-------------------------- MODULE Arithmetic_proofs --------------------------
(***************************************************************************)
(* Proofs about the condition codes, for words of every width, all of      *)
(* their values, and every sequence of instructions.                       *)
(***************************************************************************)
EXTENDS Arithmetic, FiniteSetTheorems, TLAPS

-----------------------------------------------------------------------------
\* Words.

LEMMA Widths ==
  /\ \A s \in Sizes : SignBit[s] \in Nat \ {0} /\ Modulus(s) = 2 * SignBit[s]
  /\ \A s \in Sizes \ {"long"} : 2 * Modulus(s) <= Modulus("long")
BY WidthAssumption DEF Modulus, Sizes

LEMMA Remainders ==
  ASSUME NEW m \in Nat \ {0}, NEW a \in Int
  PROVE  /\ a % m \in 0 .. (m - 1)
         /\ a \in 0 .. (m - 1) => a % m = a
         /\ a + m \in 0 .. (m - 1) => a % m = a + m
         /\ a - m \in 0 .. (m - 1) => a % m = a - m
<1>1. a % m \in 0 .. (m - 1)
  OBVIOUS
<1>2. a \in 0 .. (m - 1) => a % m = a
  OBVIOUS
<1>3. a + m \in 0 .. (m - 1) => a % m = a + m
  OBVIOUS
<1>4. a - m \in 0 .. (m - 1) => a % m = a - m
  OBVIOUS
<1> QED
  BY <1>1, <1>2, <1>3, <1>4

\* The words that instructions meet, their sums and differences.
LEMMA LowIs ==
  ASSUME NEW s \in Sizes, NEW a \in Int
  PROVE  /\ Low(a, s) \in Values(s)
         /\ a \in Values(s) => Low(a, s) = a
         /\ a + Modulus(s) \in Values(s) => Low(a, s) = a + Modulus(s)
         /\ a - Modulus(s) \in Values(s) => Low(a, s) = a - Modulus(s)
<1>1. Modulus(s) \in Nat \ {0}
  BY Widths
<1> QED
  BY <1>1, Remainders DEF Low, Values

LEMMA ValuesAre ==
  ASSUME NEW s \in Sizes, NEW v \in Values(s)
  PROVE  /\ v \in Int /\ 0 <= v /\ v < 2 * SignBit[s] /\ SignBit[s] \in Nat \ {0}
         /\ Low(v, s) = v
         /\ Negative(v, s) <=> v >= SignBit[s]
         /\ Signed(v, s) = IF v >= SignBit[s] THEN v - 2 * SignBit[s] ELSE v
<1>1. SignBit[s] \in Nat \ {0} /\ Modulus(s) = 2 * SignBit[s]
  BY Widths
<1>2. v \in Int /\ 0 <= v /\ v < 2 * SignBit[s]
  BY <1>1 DEF Values
<1>3. Low(v, s) = v
  BY <1>2, LowIs
<1> QED
  BY <1>1, <1>2, <1>3 DEF Negative, Signed

\* What the flags of a subtraction say, in terms of the operands and the sign bit.
LEMMA DifferenceIs ==
  ASSUME NEW s \in Sizes, NEW src \in Values(s), NEW dst \in Values(s)
  PROVE  LET res == Low(dst - src, s)
         IN  /\ res \in Values(s)
             /\ res = IF dst >= src THEN dst - src ELSE dst - src + 2 * SignBit[s]
<1>1. /\ src \in Int /\ 0 <= src /\ src < 2 * SignBit[s] /\ SignBit[s] \in Nat \ {0}
      /\ dst \in Int /\ 0 <= dst /\ dst < 2 * SignBit[s] /\ Modulus(s) = 2 * SignBit[s]
  BY ValuesAre, Widths
<1>2. dst - src \in Int
  BY <1>1
<1>3. CASE dst >= src
  <2>1. dst - src \in Values(s)
    BY <1>1, <1>3 DEF Values
  <2> QED
    BY <1>2, <1>3, <2>1, LowIs
<1>4. CASE ~(dst >= src)
  <2>1. dst - src + Modulus(s) \in Values(s)
    BY <1>1, <1>4 DEF Values
  <2>2. Low(dst - src, s) = dst - src + Modulus(s)
    BY <1>2, <2>1, LowIs
  <2> QED
    BY <1>1, <1>4, <2>1, <2>2
<1> QED
  BY <1>3, <1>4

LEMMA SumIs ==
  ASSUME NEW s \in Sizes, NEW a \in Int, 0 <= a, a < 2 * Modulus(s)
  PROVE  /\ Low(a, s) \in Values(s)
         /\ Low(a, s) = IF a < Modulus(s) THEN a ELSE a - Modulus(s)
<1>1. Modulus(s) \in Nat \ {0}
  BY Widths
<1>2. CASE a < Modulus(s)
  <2>1. a \in Values(s)
    BY <1>1, <1>2 DEF Values
  <2> QED
    BY <1>2, <2>1, LowIs
<1>3. CASE ~(a < Modulus(s))
  <2>1. a - Modulus(s) \in Values(s)
    BY <1>1, <1>3 DEF Values
  <2> QED
    BY <1>3, <2>1, LowIs
<1> QED
  BY <1>2, <1>3

-----------------------------------------------------------------------------
\* Comparisons.

\* The flags of dst - src, by the operands alone.
Subtracted(flags, src, dst, s) ==
  LET res == IF dst >= src THEN dst - src ELSE dst - src + 2 * SignBit[s]
  IN  /\ flags.c \in BOOLEAN /\ flags.z \in BOOLEAN /\ flags.n \in BOOLEAN /\ flags.v \in BOOLEAN
      /\ flags.c <=> dst < src
      /\ flags.z <=> dst = src
      /\ flags.n <=> res >= SignBit[s]
      /\ flags.v <=> /\ (dst >= SignBit[s]) # (src >= SignBit[s])
                     /\ (res >= SignBit[s]) # (dst >= SignBit[s])

LEMMA SubtractionFlags ==
  ASSUME NEW s \in Sizes, NEW src \in Values(s), NEW dst \in Values(s)
  PROVE  /\ Subtracted(SubWithFlags(src, dst, s).flags, src, dst, s)
         /\ SubWithFlags(src, dst, s).value = Low(dst - src, s)
         /\ SubWithFlags(src, dst, s).flags \in CCR
         /\ SubWithFlags(src, dst, s).flags.x <=> dst < src
<1> DEFINE res == Low(dst - src, s)
           f   == SubWithFlags(src, dst, s).flags
<1>1. res \in Values(s) /\ res = IF dst >= src THEN dst - src ELSE dst - src + 2 * SignBit[s]
  BY DifferenceIs
<1>2. /\ src \in Int /\ 0 <= src /\ src < 2 * SignBit[s] /\ SignBit[s] \in Nat \ {0}
      /\ dst \in Int /\ 0 <= dst /\ dst < 2 * SignBit[s]
      /\ Negative(src, s) <=> src >= SignBit[s]
      /\ Negative(dst, s) <=> dst >= SignBit[s]
  BY ValuesAre
<1>3. Negative(res, s) <=> res >= SignBit[s]
  BY <1>1, ValuesAre
<1> DEFINE n == Negative(res, s)
           v == Negative(dst, s) # Negative(src, s) /\ Negative(res, s) # Negative(dst, s)
<1>4. SubWithFlags(src, dst, s) =
        [value |-> res, flags |-> [x |-> src > dst, c |-> src > dst, n |-> n, z |-> res = 0, v |-> v]]
  BY DEF SubWithFlags, Outcome
<1>5. n \in BOOLEAN /\ v \in BOOLEAN /\ (src > dst) \in BOOLEAN /\ (res = 0) \in BOOLEAN
  BY DEF Negative
<1>6. v <=> /\ (dst >= SignBit[s]) # (src >= SignBit[s])
            /\ (res >= SignBit[s]) # (dst >= SignBit[s])
  <2>1. Negative(src, s) = (src >= SignBit[s])
    BY <1>2 DEF Negative
  <2>2. Negative(dst, s) = (dst >= SignBit[s])
    BY <1>2 DEF Negative
  <2>3. Negative(res, s) = (res >= SignBit[s])
    BY <1>3 DEF Negative
  <2> HIDE DEF res
  <2> QED
    BY <2>1, <2>2, <2>3
<1>7. (src > dst <=> dst < src) /\ (res = 0 <=> dst = src)
  BY <1>1, <1>2
<1> HIDE DEF res, n, v
<1>8. /\ SubWithFlags(src, dst, s).value = res
      /\ f.x = (src > dst) /\ f.c = (src > dst) /\ f.n = n /\ f.z = (res = 0) /\ f.v = v
      /\ f \in CCR
  BY <1>4, <1>5 DEF CCR
<1> HIDE DEF f
<1>9. f.n <=> res >= SignBit[s]
  BY <1>3, <1>8 DEF n
<1> QED
  BY <1>1, <1>5, <1>6, <1>7, <1>8, <1>9 DEF Subtracted, f, res

(* Each condition of Bcc, DBcc and Scc is the comparison it is named for.  *)
LEMMA ConditionsCompare ==
  ASSUME NEW s \in Sizes, NEW src \in Values(s), NEW dst \in Values(s), NEW flags,
         Subtracted(flags, src, dst, s), NEW cond \in Conditions
  PROVE  ConditionTrue(cond, flags) <=> Compares(cond, src, dst, s)
<1> DEFINE B == SignBit[s]
           res == IF dst >= src THEN dst - src ELSE dst - src + 2 * B
           difference == Signed(dst, s) - Signed(src, s)
           fits == 0 - B <= difference /\ difference < B
<1>1. /\ src \in Int /\ 0 <= src /\ src < 2 * B /\ B \in Nat \ {0}
      /\ dst \in Int /\ 0 <= dst /\ dst < 2 * B
      /\ Signed(src, s) = IF src >= B THEN src - 2 * B ELSE src
      /\ Signed(dst, s) = IF dst >= B THEN dst - 2 * B ELSE dst
  BY ValuesAre
<1>2. /\ flags.c \in BOOLEAN /\ flags.z \in BOOLEAN /\ flags.n \in BOOLEAN /\ flags.v \in BOOLEAN
      /\ flags.c <=> dst < src
      /\ flags.z <=> dst = src
      /\ flags.n <=> res >= B
      /\ flags.v <=> (dst >= B) # (src >= B) /\ (res >= B) # (dst >= B)
  BY DEF Subtracted
<1> HIDE DEF B
<1>3. flags.v <=> ~fits
  BY <1>1, <1>2
<1> DEFINE less == difference < 0
<1>4. flags.n <=> (less = fits)
  BY <1>1, <1>2
<1>5. /\ Signed(dst, s) \in Int /\ Signed(src, s) \in Int
      /\ Signed(dst, s) = Signed(src, s) <=> dst = src
  BY <1>1
<1>6. less <=> Signed(dst, s) < Signed(src, s)
  BY <1>5
<1>7. fits \in BOOLEAN /\ less \in BOOLEAN
  OBVIOUS
<1> HIDE DEF fits, less
<1>8. (flags.n = flags.v) <=> Signed(dst, s) >= Signed(src, s)
  <2>1. (flags.n = flags.v) <=> ~less
    BY <1>2, <1>3, <1>4, <1>7
  <2> QED
    BY <1>5, <1>6, <2>1
<1> HIDE DEF res
<1>9. CASE cond \in {"hi", "ls", "cc", "cs", "ne", "eq"}
  BY <1>1, <1>2, <1>9 DEF ConditionTrue, Compares
<1>10. CASE cond \in {"vc", "vs"}
  BY <1>2, <1>3, <1>10 DEF ConditionTrue, Compares, fits, B
<1>11. CASE cond \in {"pl", "mi"}
  BY <1>2, <1>4, <1>5, <1>11 DEF ConditionTrue, Compares, fits, less, B
<1>12. CASE cond \in {"ge", "lt", "gt", "le"}
  BY <1>2, <1>5, <1>8, <1>12 DEF ConditionTrue, Compares
<1> QED
  BY <1>9, <1>10, <1>11, <1>12 DEF Conditions

-----------------------------------------------------------------------------
\* The flags are a record, and the number in progress is one too.

FlagNames == {"x", "n", "z", "v", "c"}
Flags(f) == f = [k \in FlagNames |-> f[k]]

NumberIs(k) ==
  /\ k = [digit |-> k.digit, res |-> k.res, owed |-> k.owed, zero |-> k.zero, long |-> k.long]
  /\ k.owed \in {0, 1} /\ k.zero \in {"yes", "no", "lost"} /\ k.long \in BOOLEAN

\* NumbersExact is inductive together with the shape of its variables.
NumberInv == Flags(ccr) /\ NumberIs(number) /\ NumbersExact

LEMMA CCRFlags == \A f \in CCR : Flags(f)
BY DEF CCR, Flags, FlagNames

FlagsBecome(g, x, n, z, v, c) == Flags(g) /\ g.x = x /\ g.n = n /\ g.z = z /\ g.v = v /\ g.c = c

LEMMA FlagsUpdated ==
  ASSUME NEW f, Flags(f), NEW n, NEW z, NEW v, NEW c
  PROVE  FlagsBecome([f EXCEPT !.n = n, !.z = z, !.v = v, !.c = c], f.x, n, z, v, c)
BY DEF Flags, FlagNames, FlagsBecome

LEMMA TestFlags ==
  ASSUME Flags(ccr), NEW value, NEW s
  PROVE  LET f == UpdateNZClearVC(value, s, ccr)
         IN  /\ Flags(f) /\ f.x = ccr.x
             /\ f.n = Negative(value, s) /\ f.z = (Low(value, s) = 0) /\ f.v = FALSE /\ f.c = FALSE
<1> DEFINE n == Negative(value, s)
           z == Low(value, s) = 0
<1>1. UpdateNZClearVC(value, s, ccr) = [ccr EXCEPT !.n = n, !.z = z, !.v = FALSE, !.c = FALSE]
  BY DEF UpdateNZClearVC
<1> HIDE DEF n, z
<1>2. FlagsBecome(UpdateNZClearVC(value, s, ccr), ccr.x, n, z, FALSE, FALSE)
  <2>1. FlagsBecome([ccr EXCEPT !.n = n, !.z = z, !.v = FALSE, !.c = FALSE], ccr.x, n, z, FALSE, FALSE)
    BY FlagsUpdated, Zenon
  <2> QED
    BY <1>1, <2>1
<1> QED
  BY <1>2 DEF n, z, FlagsBecome

LEMMA ProductFlags ==
  ASSUME Flags(ccr), NEW product
  PROVE  Flags(MulFlags(product, ccr).flags) /\ MulFlags(product, ccr).flags.x = ccr.x
<1>1. MulFlags(product, ccr).flags = UpdateNZClearVC(product, "long", ccr)
  BY DEF MulFlags, Outcome
<1> QED
  BY <1>1, TestFlags

LEMMA QuotientFlags ==
  ASSUME Flags(ccr), NEW q, NEW r, NEW fits, NEW dst
  PROVE  /\ Flags(DivisionFlags(q, r, fits, dst, ccr).flags)
         /\ DivisionFlags(q, r, fits, dst, ccr).flags.x = ccr.x
<1> DEFINE f == DivisionFlags(q, r, fits, dst, ccr).flags
           g == [ccr EXCEPT !.n = FALSE, !.z = FALSE, !.v = TRUE, !.c = FALSE]
<1>1. f = UpdateNZClearVC(q, "word", ccr) \/ f = g
  BY DEF DivisionFlags, Outcome
<1>2. Flags(g) /\ g.x = ccr.x
  <2>1. FlagsBecome(g, ccr.x, FALSE, FALSE, TRUE, FALSE)
    BY FlagsUpdated, Zenon
  <2> QED
    BY <2>1 DEF FlagsBecome
<1>3. /\ Flags(UpdateNZClearVC(q, "word", ccr))
      /\ UpdateNZClearVC(q, "word", ccr).x = ccr.x
  BY TestFlags
<1> HIDE DEF f, g
<1> QED
  BY <1>1, <1>2, <1>3 DEF f

LEMMA ShiftedFlags ==
  ASSUME NEW op \in Shifts, NEW value, NEW count \in Nat, NEW s, NEW x
  PROVE  /\ Flags(DoShiftRotate(op, value, count, s, x).flags)
         /\ op \in {"rol", "ror"} \/ count = 0 =>
              DoShiftRotate(op, value, count, s, x).flags.x = x
<1>1. \A a, c, x2, v : /\ Flags(ShiftFlags(a, s, c, x2, v).flags)
                       /\ ShiftFlags(a, s, c, x2, v).flags.x = x2
  BY DEF ShiftFlags, Outcome, Flags, FlagNames
<1>2. \E a, c, x2, v :
        /\ DoShiftRotate(op, value, count, s, x) = ShiftFlags(a, s, c, x2, v)
        /\ op \in {"rol", "ror"} \/ count = 0 => x2 = x
  <2>1. CASE count = 0
    <3>1. ~(count > 0)
      BY <2>1
    <3> QED
      BY <2>1, <3>1 DEF DoShiftRotate
  <2>2. CASE count # 0 /\ op \in {"rol", "ror"}
    <3>1. count > 0
      BY <2>2
    <3> QED
      BY <2>2, <3>1 DEF DoShiftRotate
  <2>3. CASE count # 0 /\ op \notin {"rol", "ror"}
    <3>1. count > 0
      BY <2>3
    <3> QED
      BY <2>3, <3>1 DEF DoShiftRotate, Shifts
  <2> QED
    BY <2>1, <2>2, <2>3
<1> QED
  BY <1>1, <1>2

-----------------------------------------------------------------------------
\* Instructions that do not go on with a number.

LEMMA CarryKept ==
  ASSUME NumberInv, Flags(ccr'), ccr'.x = ccr.x, KeepsCarry
  PROVE  NumberInv'
<1>1. /\ number' = [digit |-> 0, res |-> 0, owed |-> number.owed, zero |-> "lost", long |-> number.long]
  BY DEF NumberInv, NumberIs, KeepsCarry
<1>2. NumberIs(number')
  BY <1>1 DEF NumberInv, NumberIs
<1>3. NumbersExact'
  BY <1>1 DEF NumberInv, NumbersExact
<1> QED
  BY <1>2, <1>3 DEF NumberInv

LEMMA CarrySet ==
  ASSUME Flags(ccr'), SetsCarry(ccr'.x)
  PROVE  NumberInv'
<1>1. number' = [digit |-> 0, res |-> 0, owed |-> BitOf(ccr'.x), zero |-> "lost", long |-> FALSE]
  BY DEF SetsCarry
<1>2. BitOf(ccr'.x) \in {0, 1} /\ (ccr'.x <=> BitOf(ccr'.x) = 1)
  BY DEF BitOf
<1>3. NumberIs(number')
  BY <1>1, <1>2 DEF NumberIs
<1>4. NumbersExact'
  BY <1>1, <1>2 DEF NumbersExact
<1> QED
  BY <1>3, <1>4 DEF NumberInv

LEMMA FirstDigitExact ==
  ASSUME NEW total \in Int, NEW base \in Nat \ {0}, NEW res, FirstDigit(total, base, res),
         Flags(ccr'), res = total % base,
         ccr'.x <=> total \notin 0 .. base - 1, ccr'.z <=> total % base = 0
  PROVE  NumberInv'
<1> DEFINE owed == IF total \in 0 .. base - 1 THEN 0 ELSE 1
           zero == YesNo(total % base = 0)
<1>1. number' = [digit |-> total % base, res |-> res, owed |-> owed, zero |-> zero, long |-> FALSE]
  BY DEF FirstDigit
<1>2. owed \in {0, 1} /\ (ccr'.x <=> owed = 1)
  OBVIOUS
<1>3. zero \in {"yes", "no"} /\ (ccr'.z <=> zero = "yes")
  BY DEF YesNo
<1> HIDE DEF owed, zero
<1>4. NumberIs(number')
  BY <1>1, <1>2, <1>3 DEF NumberIs
<1>5. NumbersExact'
  BY <1>1, <1>2, <1>3 DEF NumbersExact
<1> QED
  BY <1>4, <1>5 DEF NumberInv

\* Z is cleared by a digit that is not zero and kept by one that is.
LEMMA NextDigitExact ==
  ASSUME NumberInv, NEW total \in Int, NEW base \in Nat \ {0}, NEW res, NEW s,
         NextDigit(total, base, res, s), Flags(ccr'),
         ~number.long /\ s # "long" =>
            /\ res = total % base
            /\ ccr'.x <=> total \notin 0 .. base - 1
            /\ ccr'.z <=> total % base = 0 /\ ccr.z
  PROVE  NumberInv'
<1> DEFINE owed == IF total \in 0 .. base - 1 THEN 0 ELSE 1
           zero == IF total % base # 0 THEN "no" ELSE number.zero
           long == number.long \/ s = "long"
<1>1. number' = [digit |-> total % base, res |-> res, owed |-> owed, zero |-> zero, long |-> long]
  BY DEF NextDigit
<1>2. owed \in {0, 1} /\ (owed = 1 <=> total \notin 0 .. base - 1)
  OBVIOUS
<1>3. /\ zero \in {"yes", "no", "lost"}
      /\ zero # "lost" /\ ~number.long => (zero = "yes" <=> total % base = 0 /\ ccr.z)
  BY DEF NumberInv, NumberIs, NumbersExact
<1>4. long \in BOOLEAN /\ (~long => ~number.long /\ s # "long")
  BY DEF NumberInv, NumberIs
<1> HIDE DEF owed, zero, long
<1>5. NumberIs(number')
  BY <1>1, <1>2, <1>3, <1>4 DEF NumberIs
<1>6. NumbersExact'
  <2>1. SUFFICES ASSUME ~long
                 PROVE  /\ res = total % base
                        /\ ccr'.x <=> owed = 1
                        /\ zero # "lost" => (ccr'.z <=> zero = "yes")
    BY <1>1 DEF NumbersExact
  <2> QED
    BY <1>2, <1>3, <1>4, <2>1
<1> QED
  BY <1>5, <1>6 DEF NumberInv

-----------------------------------------------------------------------------
\* Sums and differences.

LEMMA OperandsAre ==
  /\ \A s \in Sizes : \A v \in Operands[s] : v \in Values(s) /\ v \in Int
  /\ \A d \in Decimals : d \in 0 .. 255 /\ d % 16 <= 9 /\ d \div 16 <= 9
  /\ Counts \subseteq Nat /\ "byte" \in Sizes /\ "word" \in Sizes /\ "long" \in Sizes
BY OperandsAssumption, ValuesAre DEF Sizes

LEMMA RecordFlags ==
  \A x, n, z, v, c :
    LET f == [x |-> x, n |-> n, z |-> z, v |-> v, c |-> c]
    IN  Flags(f) /\ f.x = x /\ f.n = n /\ f.z = z /\ f.v = v /\ f.c = c
BY DEF Flags, FlagNames

LEMMA AdditionFlags ==
  ASSUME NEW s \in Sizes, NEW src \in Values(s), NEW dst \in Values(s)
  PROVE  LET o == AddWithFlags(src, dst, s)
         IN  /\ Flags(o.flags) /\ o.value = Low(dst + src, s)
             /\ o.flags.x <=> dst + src >= Modulus(s)
             /\ o.flags.z <=> o.value = 0
<1> DEFINE o   == AddWithFlags(src, dst, s)
           res == Low(src + dst, s)
           carry == \/ Negative(src, s) /\ Negative(dst, s)
                    \/ (Negative(src, s) \/ Negative(dst, s)) /\ ~Negative(res, s)
           n == Negative(res, s)
           v == /\ Negative(dst, s) = Negative(src, s)
                /\ Negative(res, s) # Negative(dst, s)
<1>1. o = [value |-> res, flags |-> [x |-> carry, c |-> carry, n |-> n, z |-> res = 0, v |-> v]]
  BY DEF AddWithFlags, Outcome
<1>2. /\ src \in Int /\ 0 <= src /\ src < 2 * SignBit[s] /\ SignBit[s] \in Nat \ {0}
      /\ dst \in Int /\ 0 <= dst /\ dst < 2 * SignBit[s] /\ Modulus(s) = 2 * SignBit[s]
      /\ Negative(src, s) <=> src >= SignBit[s]
      /\ Negative(dst, s) <=> dst >= SignBit[s]
  BY ValuesAre, Widths
<1>3. src + dst = dst + src /\ src + dst \in Int /\ 0 <= src + dst /\ src + dst < 2 * Modulus(s)
  BY <1>2
<1> DEFINE sum == src + dst
<1>4. res \in Values(s) /\ res = IF sum < Modulus(s) THEN sum ELSE sum - Modulus(s)
  <2>1. sum \in Int /\ 0 <= sum /\ sum < 2 * Modulus(s) /\ res = Low(sum, s)
    BY <1>3
  <2> HIDE DEF sum, res
  <2> QED
    BY <2>1, SumIs
<1>5. Negative(res, s) <=> res >= SignBit[s]
  BY <1>4, ValuesAre
<1>6. carry <=> src + dst >= Modulus(s)
  BY <1>2, <1>4, <1>5
<1> HIDE DEF o, res, carry, n, v
<1>7. o.value = res /\ o.flags = [x |-> carry, n |-> n, z |-> res = 0, v |-> v, c |-> carry]
  BY <1>1
<1>8. Flags(o.flags) /\ o.flags.x = carry /\ o.flags.z = (res = 0)
  BY <1>7, RecordFlags
<1> QED
  BY <1>3, <1>6, <1>7, <1>8 DEF o, res

LEMMA ExtendedOperand ==
  ASSUME NEW s \in Sizes \ {"long"}, NEW src \in Values(s), NEW x
  PROVE  Operand2(src, x) = src + BitOf(x) /\ BitOf(x) \in {0, 1}
<1>1. src \in Int /\ 0 <= src /\ src < Modulus(s) /\ 2 * Modulus(s) <= Modulus("long")
      /\ Modulus(s) \in Nat \ {0} /\ Modulus("long") \in Nat \ {0}
  BY ValuesAre, Widths DEF Sizes
<1>2. BitOf(x) \in {0, 1} /\ BitOf(x) = IF x THEN 1 ELSE 0
  BY DEF BitOf
<1>3. src + BitOf(x) \in Values("long")
  BY <1>1, <1>2 DEF Values
<1>4. Low(src + BitOf(x), "long") = src + BitOf(x)
  BY <1>1, <1>2, <1>3, LowIs DEF Sizes
<1> QED
  BY <1>2, <1>4 DEF Operand2

LEMMA ExtendedSum ==
  ASSUME NEW s \in Sizes, NEW src \in Values(s), NEW dst \in Values(s), NEW flags
  PROVE  LET o == AddWithExtend(src, dst, s, flags)
             total == dst + src + BitOf(flags.x)
         IN  /\ Flags(o.flags)
             /\ s # "long" => /\ o.value = total % Modulus(s)
                              /\ o.flags.x <=> total \notin 0 .. Modulus(s) - 1
                              /\ o.flags.z <=> total % Modulus(s) = 0 /\ flags.z
<1> DEFINE o == AddWithExtend(src, dst, s, flags)
           operand2 == Operand2(src, flags.x)
           sum == Low(dst + operand2, "long")
           res == Low(sum, s)
           carry == sum >= Modulus(s)
           n == Negative(res, s)
           z == UpdateExtendZeroFlag(res, flags.z)
           v == /\ Negative(dst, s) = Negative(operand2, s)
                /\ Negative(res, s) # Negative(dst, s)
           total == dst + src + BitOf(flags.x)
<1>1. o = [value |-> res, flags |-> [x |-> carry, c |-> carry, n |-> n, z |-> z, v |-> v]]
  BY DEF AddWithExtend, Outcome
<1> HIDE DEF o, res, carry, n, z, v
<1>2. o.value = res /\ o.flags = [x |-> carry, n |-> n, z |-> z, v |-> v, c |-> carry]
  BY <1>1
<1>3. Flags(o.flags) /\ o.flags.x = carry /\ o.flags.z = z
  BY <1>2, RecordFlags
<1>4. ASSUME s # "long"
      PROVE  /\ res = total % Modulus(s)
             /\ carry <=> total \notin 0 .. Modulus(s) - 1
             /\ z <=> total % Modulus(s) = 0 /\ flags.z
  <2>1. operand2 = src + BitOf(flags.x) /\ BitOf(flags.x) \in {0, 1}
    BY <1>4, ExtendedOperand
  <2>2. /\ src \in Int /\ 0 <= src /\ src < Modulus(s)
        /\ dst \in Int /\ 0 <= dst /\ dst < Modulus(s)
        /\ Modulus(s) \in Nat \ {0} /\ 2 * Modulus(s) <= Modulus("long") /\ Modulus("long") \in Nat
    BY <1>4, ValuesAre, Widths DEF Sizes
  <2> HIDE DEF operand2
  <2>3. total \in Int /\ 0 <= total /\ total < 2 * Modulus(s) /\ dst + operand2 = total
    BY <2>1, <2>2
  <2> HIDE DEF total
  <2>4. sum = total
    <3>1. total \in Values("long")
      BY <2>2, <2>3 DEF Values
    <3> QED
      BY <2>3, <3>1, LowIs DEF Sizes
  <2>5. carry <=> total \notin 0 .. Modulus(s) - 1
    BY <2>2, <2>3, <2>4 DEF carry
  <2>6. res = total % Modulus(s)
    BY <2>4 DEF res, Low
  <2>7. z <=> total % Modulus(s) = 0 /\ flags.z
    BY <2>6 DEF z, UpdateExtendZeroFlag
  <2> QED
    BY <2>5, <2>6, <2>7
<1> HIDE DEF total
<1> QED
  BY <1>2, <1>3, <1>4 DEF o, total

LEMMA ExtendedDifference ==
  ASSUME NEW s \in Sizes, NEW src \in Values(s), NEW dst \in Values(s), NEW flags
  PROVE  LET o == SubWithExtend(src, dst, s, flags)
             total == dst - src - BitOf(flags.x)
         IN  /\ Flags(o.flags)
             /\ s # "long" => /\ o.value = total % Modulus(s)
                              /\ o.flags.x <=> total \notin 0 .. Modulus(s) - 1
                              /\ o.flags.z <=> total % Modulus(s) = 0 /\ flags.z
<1> DEFINE o == SubWithExtend(src, dst, s, flags)
           operand2 == Operand2(src, flags.x)
           res == Low(dst - operand2, s)
           borrow == dst < operand2
           n == Negative(res, s)
           z == UpdateExtendZeroFlag(res, flags.z)
           v == /\ Negative(dst, s) # Negative(operand2, s)
                /\ Negative(res, s) # Negative(dst, s)
           total == dst - src - BitOf(flags.x)
<1>1. o = [value |-> res, flags |-> [x |-> borrow, c |-> borrow, n |-> n, z |-> z, v |-> v]]
  BY DEF SubWithExtend, Outcome
<1> HIDE DEF o, res, borrow, n, z, v
<1>2. o.value = res /\ o.flags = [x |-> borrow, n |-> n, z |-> z, v |-> v, c |-> borrow]
  BY <1>1
<1>3. Flags(o.flags) /\ o.flags.x = borrow /\ o.flags.z = z
  BY <1>2, RecordFlags
<1>4. ASSUME s # "long"
      PROVE  /\ res = total % Modulus(s)
             /\ borrow <=> total \notin 0 .. Modulus(s) - 1
             /\ z <=> total % Modulus(s) = 0 /\ flags.z
  <2>1. operand2 = src + BitOf(flags.x) /\ BitOf(flags.x) \in {0, 1}
    BY <1>4, ExtendedOperand
  <2>2. /\ src \in Int /\ 0 <= src /\ src < Modulus(s)
        /\ dst \in Int /\ 0 <= dst /\ dst < Modulus(s) /\ Modulus(s) \in Nat \ {0}
    BY ValuesAre, Widths
  <2> HIDE DEF operand2
  <2>3. total \in Int /\ total < Modulus(s) /\ dst - operand2 = total /\ (borrow <=> total < 0)
    BY <2>1, <2>2 DEF borrow
  <2> HIDE DEF total
  <2>4. borrow <=> total \notin 0 .. Modulus(s) - 1
    BY <2>2, <2>3
  <2>5. res = total % Modulus(s)
    BY <2>3 DEF res, Low
  <2>6. z <=> total % Modulus(s) = 0 /\ flags.z
    BY <2>5 DEF z, UpdateExtendZeroFlag
  <2> QED
    BY <2>4, <2>5, <2>6
<1> HIDE DEF total
<1> QED
  BY <1>2, <1>3, <1>4 DEF o, total

-----------------------------------------------------------------------------
\* Decimals.

Decimal(d) == d \in 0 .. 255 /\ d % 16 <= 9 /\ d \div 16 <= 9

LEMMA DecimalIs ==
  ASSUME NEW d, Decimal(d)
  PROVE  /\ d % 16 \in 0 .. 9 /\ d \div 16 \in 0 .. 9 /\ d = 16 * (d \div 16) + (d % 16)
         /\ Digits(d) = 10 * (d \div 16) + (d % 16)
BY DEF Decimal, Digits

LEMMA TwoDigits ==
  \A t \in 0 .. 9, u \in 0 .. 9 : FromDigits(10 * t + u) = 16 * t + u /\ (10 * t + u) % 100 = 10 * t + u
<1> SUFFICES ASSUME NEW t \in 0 .. 9, NEW u \in 0 .. 9
             PROVE  FromDigits(10 * t + u) = 16 * t + u /\ (10 * t + u) % 100 = 10 * t + u
  OBVIOUS
<1>1. (10 * t + u) \div 10 = t /\ (10 * t + u) % 10 = u
  OBVIOUS
<1> QED
  BY <1>1 DEF FromDigits

LEMMA DecimalSum ==
  ASSUME NEW src, NEW dst, Decimal(src), Decimal(dst), NEW x
  PROVE  LET total == Digits(dst) + Digits(src) + BitOf(x)
         IN  /\ BcdAdd(src, dst, x).value = FromDigits(total % 100)
             /\ BcdAdd(src, dst, x).carry <=> total \notin 0 .. 99
             /\ total \in Int
<1> DEFINE a == src % 16
           b == src \div 16
           c == dst % 16
           d == dst \div 16
           e == BitOf(x)
           total == Digits(dst) + Digits(src) + e
           result == BcdAdd(src, dst, x)
           sum == src + dst + e + (IF a + c + e > 9 THEN 6 ELSE 0)
           value == (IF sum > 153 THEN sum + 96 ELSE sum) % 256
           carry == sum > 153
<1>1. /\ a \in 0 .. 9 /\ b \in 0 .. 9 /\ c \in 0 .. 9 /\ d \in 0 .. 9
      /\ src = 16 * b + a /\ dst = 16 * d + c
      /\ Digits(src) = 10 * b + a /\ Digits(dst) = 10 * d + c
  BY DecimalIs
<1>2. e \in {0, 1} /\ e = IF x THEN 1 ELSE 0
  BY DEF BitOf
<1>3. result.value = value /\ result.carry = carry
  <2>1. result = [value |-> value, carry |-> carry]
    BY <1>2 DEF BcdAdd
  <2> HIDE DEF result, value, carry
  <2> QED
    BY <2>1
<1> HIDE DEF a, b, c, d, e
<1>4. total = 10 * (b + d) + (a + c + e)
  BY <1>1, <1>2
<1>5. sum = IF a + c + e > 9 THEN 16 * (b + d + 1) + (a + c + e - 10) ELSE 16 * (b + d) + (a + c + e)
  BY <1>1, <1>2
<1>6. PICK t \in 0 .. 19, u \in 0 .. 9 : total = 10 * t + u /\ sum = 16 * t + u
  <2>1. CASE a + c + e > 9
    <3>1. b + d + 1 \in 0 .. 19 /\ a + c + e - 10 \in 0 .. 9
      BY <1>1, <1>2, <2>1
    <3>2. total = 10 * (b + d + 1) + (a + c + e - 10)
      BY <1>1, <1>2, <1>4
    <3> QED
      BY <1>5, <2>1, <3>1, <3>2
  <2>2. CASE ~(a + c + e > 9)
    <3>1. b + d \in 0 .. 19 /\ a + c + e \in 0 .. 9
      BY <1>1, <1>2, <2>2
    <3> QED
      BY <1>4, <1>5, <2>2, <3>1
  <2> QED
    BY <2>1, <2>2
<1> HIDE DEF total, sum, result
<1>7. CASE t <= 9
  <2>1. total % 100 = 10 * t + u /\ FromDigits(total % 100) = 16 * t + u
    BY <1>6, <1>7, TwoDigits
  <2>2. ~(sum > 153) /\ total \in 0 .. 99 /\ total \in Int /\ sum % 256 = 16 * t + u
    BY <1>6, <1>7
  <2>3. result.value = FromDigits(total % 100) /\ (result.carry <=> total \notin 0 .. 99)
    BY <1>3, <2>1, <2>2
  <2> QED
    BY <2>2, <2>3 DEF total, result, e
<1>8. CASE ~(t <= 9)
  <2>1. t - 10 \in 0 .. 9 /\ total = 100 + (10 * (t - 10) + u)
    BY <1>6, <1>8
  <2>2. total % 100 = 10 * (t - 10) + u
    BY <1>6, <2>1
  <2>3. FromDigits(total % 100) = 16 * (t - 10) + u
    BY <1>6, <2>1, <2>2, TwoDigits
  <2>4. sum > 153 /\ total \notin 0 .. 99 /\ total \in Int /\ (sum + 96) % 256 = 16 * (t - 10) + u
    BY <1>6, <1>8
  <2>5. result.value = FromDigits(total % 100) /\ (result.carry <=> total \notin 0 .. 99)
    BY <1>3, <2>3, <2>4
  <2> QED
    BY <2>4, <2>5 DEF total, result, e
<1> QED
  BY <1>6, <1>7, <1>8 DEF total, result, e

LEMMA DecimalDifference ==
  ASSUME NEW src, NEW dst, Decimal(src), Decimal(dst), NEW x
  PROVE  LET total == Digits(dst) - Digits(src) - BitOf(x)
         IN  /\ BcdSub(src, dst, x).value = FromDigits(total % 100)
             /\ BcdSub(src, dst, x).carry <=> total \notin 0 .. 99
             /\ total \in Int
<1> DEFINE a == src % 16
           b == src \div 16
           c == dst % 16
           d == dst \div 16
           e == BitOf(x)
           total == Digits(dst) - Digits(src) - e
           result == BcdSub(src, dst, x)
           diff == dst - src - e - (IF c - a - e < 0 THEN 6 ELSE 0)
           value == (IF diff < 0 THEN diff - 96 ELSE diff) % 256
           carry == diff < 0
<1>1. /\ a \in 0 .. 9 /\ b \in 0 .. 9 /\ c \in 0 .. 9 /\ d \in 0 .. 9
      /\ src = 16 * b + a /\ dst = 16 * d + c
      /\ Digits(src) = 10 * b + a /\ Digits(dst) = 10 * d + c
  BY DecimalIs
<1>2. e \in {0, 1} /\ e = IF x THEN 1 ELSE 0
  BY DEF BitOf
<1>3. result.value = value /\ result.carry = carry
  <2>1. result = [value |-> value, carry |-> carry]
    BY <1>2 DEF BcdSub
  <2> HIDE DEF result, value, carry
  <2> QED
    BY <2>1
<1> HIDE DEF a, b, c, d, e
<1>4. total = 10 * (d - b) + (c - a - e)
  BY <1>1, <1>2
<1>5. diff = IF c - a - e < 0 THEN 16 * (d - b - 1) + (c - a - e + 10) ELSE 16 * (d - b) + (c - a - e)
  BY <1>1, <1>2
<1>6. PICK t \in (0 - 10) .. 9, u \in 0 .. 9 : total = 10 * t + u /\ diff = 16 * t + u
  <2>1. CASE c - a - e < 0
    <3>1. d - b - 1 \in (0 - 10) .. 9 /\ c - a - e + 10 \in 0 .. 9
      BY <1>1, <1>2, <2>1
    <3>2. total = 10 * (d - b - 1) + (c - a - e + 10)
      BY <1>1, <1>2, <1>4
    <3> QED
      BY <1>5, <2>1, <3>1, <3>2
  <2>2. CASE ~(c - a - e < 0)
    <3>1. d - b \in (0 - 10) .. 9 /\ c - a - e \in 0 .. 9
      BY <1>1, <1>2, <2>2
    <3> QED
      BY <1>4, <1>5, <2>2, <3>1
  <2> QED
    BY <2>1, <2>2
<1> HIDE DEF total, diff, result
<1>7. CASE t >= 0
  <2>1. total % 100 = 10 * t + u /\ FromDigits(total % 100) = 16 * t + u
    BY <1>6, <1>7, TwoDigits
  <2>2. ~(diff < 0) /\ total \in 0 .. 99 /\ total \in Int /\ diff % 256 = 16 * t + u
    BY <1>6, <1>7
  <2>3. result.value = FromDigits(total % 100) /\ (result.carry <=> total \notin 0 .. 99)
    BY <1>3, <2>1, <2>2
  <2> QED
    BY <2>2, <2>3 DEF total, result, e
<1>8. CASE ~(t >= 0)
  <2>1. t + 10 \in 0 .. 9 /\ total = (10 * (t + 10) + u) - 100
    BY <1>6, <1>8
  <2>2. total % 100 = 10 * (t + 10) + u
    BY <1>6, <2>1
  <2>3. FromDigits(total % 100) = 16 * (t + 10) + u
    BY <1>6, <2>1, <2>2, TwoDigits
  <2>4. diff < 0 /\ total \notin 0 .. 99 /\ total \in Int /\ (diff - 96) % 256 = 16 * (t + 10) + u
    BY <1>6, <1>8
  <2>5. result.value = FromDigits(total % 100) /\ (result.carry <=> total \notin 0 .. 99)
    BY <1>3, <2>3, <2>4
  <2> QED
    BY <2>4, <2>5 DEF total, result, e
<1> QED
  BY <1>6, <1>7, <1>8 DEF total, result, e

-----------------------------------------------------------------------------
\* The numbers, instruction by instruction.

LEMMA Executed ==
  ASSUME NEW op, NEW s, NEW src, NEW dst, NEW outcome, Executes(op, s, src, dst, outcome)
  PROVE  /\ last'.op = op /\ last'.size = s /\ last'.src = src /\ last'.dst = dst
         /\ last'.res = outcome.value /\ ccr' = outcome.flags
BY DEF Executes, Instruction

LEMMA Sums ==
  ASSUME NEW s \in Sizes, NEW src \in Values(s), NEW dst \in Values(s), Add(s, src, dst)
  PROVE  NumberInv'
<1> DEFINE o     == AddWithFlags(src, dst, s)
           total == dst + src
           base  == Modulus(s)
<1>1. ccr' = o.flags /\ FirstDigit(total, base, o.value)
  BY DEF Add, Executes
<1>2. total \in Int /\ 0 <= total /\ base \in Nat \ {0}
  BY ValuesAre, Widths
<1> HIDE DEF o, total, base
<1>3. /\ Flags(o.flags) /\ o.value = Low(total, s)
      /\ o.flags.x <=> total >= base
      /\ o.flags.z <=> o.value = 0
  BY AdditionFlags DEF o, total, base
<1>4. o.value = total % base
  BY <1>3 DEF Low, base
<1>5. o.flags.x <=> total \notin 0 .. base - 1
  BY <1>2, <1>3
<1> QED
  BY <1>1, <1>2, <1>3, <1>4, <1>5, FirstDigitExact

\* SUB, and NEG with the minuend 0.
LEMMA Differences ==
  ASSUME NEW s \in Sizes, NEW src \in Values(s), NEW dst \in Values(s),
         ccr' = SubWithFlags(src, dst, s).flags,
         FirstDigit(dst - src, Modulus(s), SubWithFlags(src, dst, s).value)
  PROVE  NumberInv'
<1> DEFINE o     == SubWithFlags(src, dst, s)
           total == dst - src
           base  == Modulus(s)
<1>1. ccr' = o.flags /\ FirstDigit(total, base, o.value)
  OBVIOUS
<1>2. total \in Int /\ total < base /\ base \in Nat \ {0} /\ (dst < src <=> total < 0) /\ (dst = src <=> total = 0)
  BY ValuesAre, Widths
<1>3. o.value = Low(total, s) /\ o.flags \in CCR /\ (o.flags.x <=> dst < src) /\ (o.flags.z <=> dst = src)
  BY SubtractionFlags DEF Subtracted
<1> HIDE DEF o, total, base
<1>4. Flags(o.flags)
  BY <1>3, CCRFlags
<1>5. o.value = total % base
  BY <1>3 DEF Low, base
<1>6. o.flags.x <=> total \notin 0 .. base - 1
  BY <1>2, <1>3
<1>7. o.flags.z <=> total % base = 0
  <2>1. total + base > 0
    BY ValuesAre, Widths DEF total, base
  <2>2. total \in 0 .. (base - 1) => total % base = total
    BY <1>2, Remainders
  <2>3. total + base \in 0 .. (base - 1) => total % base = total + base
    BY <1>2, Remainders
  <2>4. total \in 0 .. (base - 1) \/ total + base \in 0 .. (base - 1)
    BY <1>2, <2>1
  <2> QED
    BY <1>2, <1>3, <2>1, <2>2, <2>3, <2>4
<1> QED
  BY <1>1, <1>2, <1>4, <1>5, <1>6, <1>7, FirstDigitExact

LEMMA Owed == NumberInv /\ ~number.long => number.owed = BitOf(ccr.x)
BY DEF NumberInv, NumberIs, NumbersExact, BitOf

LEMMA SumsExtended ==
  ASSUME NumberInv, NEW s \in Sizes, NEW src \in Values(s), NEW dst \in Values(s), Addx(s, src, dst)
  PROVE  NumberInv'
<1> DEFINE o     == AddWithExtend(src, dst, s, ccr)
           total == dst + src + number.owed
           exact == dst + src + BitOf(ccr.x)
           base  == Modulus(s)
<1>1. ccr' = o.flags /\ NextDigit(total, base, o.value, s)
  BY DEF Addx, Executes
<1>2. total \in Int /\ base \in Nat \ {0}
  BY ValuesAre, Widths DEF NumberInv, NumberIs
<1>3. /\ Flags(o.flags)
      /\ s # "long" => /\ o.value = exact % base
                       /\ o.flags.x <=> exact \notin 0 .. base - 1
                       /\ o.flags.z <=> exact % base = 0 /\ ccr.z
  BY ExtendedSum
<1>4. ~number.long => total = exact
  BY Owed
<1> HIDE DEF o, total, exact, base
<1> QED
  BY <1>1, <1>2, <1>3, <1>4, NextDigitExact

\* SUBX, and NEGX with the minuend 0.
LEMMA DifferencesExtended ==
  ASSUME NumberInv, NEW s \in Sizes, NEW src \in Values(s), NEW dst \in Values(s),
         ccr' = SubWithExtend(src, dst, s, ccr).flags,
         NextDigit(dst - src - number.owed, Modulus(s), SubWithExtend(src, dst, s, ccr).value, s)
  PROVE  NumberInv'
<1> DEFINE o     == SubWithExtend(src, dst, s, ccr)
           total == dst - src - number.owed
           exact == dst - src - BitOf(ccr.x)
           base  == Modulus(s)
<1>1. ccr' = o.flags /\ NextDigit(total, base, o.value, s)
  OBVIOUS
<1>2. total \in Int /\ base \in Nat \ {0}
  BY ValuesAre, Widths DEF NumberInv, NumberIs
<1>3. /\ Flags(o.flags)
      /\ s # "long" => /\ o.value = exact % base
                       /\ o.flags.x <=> exact \notin 0 .. base - 1
                       /\ o.flags.z <=> exact % base = 0 /\ ccr.z
  BY ExtendedDifference
<1>4. ~number.long => total = exact
  BY Owed
<1> HIDE DEF o, total, exact, base
<1> QED
  BY <1>1, <1>2, <1>3, <1>4, NextDigitExact

\* Pairs of decimal digits.
BecomesDecimal(total, res, owed, zero) ==
  number' = [number EXCEPT !.digit = FromDigits(total % 100), !.res = res,
                           !.owed = owed, !.zero = zero]

LEMMA NextDecimalExact ==
  ASSUME NumberInv, NEW total \in Int, NEW res, NEW zero, NEW owed \in {0, 1},
         BecomesDecimal(total, res, owed, zero),
         zero \in {"yes", "no", "lost"},
         Flags(ccr'),
         ~number.long => /\ res = FromDigits(total % 100)
                         /\ ccr'.x <=> owed = 1
                         /\ zero # "lost" => (ccr'.z <=> zero = "yes")
  PROVE  NumberInv'
<1> DEFINE digit == FromDigits(total % 100)
<1> HIDE DEF digit
<1>1. number' = [digit |-> digit, res |-> res, owed |-> owed, zero |-> zero, long |-> number.long]
  BY DEF NumberInv, NumberIs, BecomesDecimal, digit
<1>2. number.long \in BOOLEAN
  BY DEF NumberInv, NumberIs
<1>3. NumberIs(number')
  BY <1>1, <1>2 DEF NumberIs
<1>4. NumbersExact'
  BY <1>1 DEF NumbersExact, digit
<1> QED
  BY <1>3, <1>4 DEF NumberInv

\* A pair of digits is 00 where its byte is 0.
LEMMA DecimalZero == \A n \in 0 .. 99 : FromDigits(n) = 0 <=> n = 0
<1> SUFFICES ASSUME NEW n \in 0 .. 99 PROVE FromDigits(n) = 0 <=> n = 0
  OBVIOUS
<1>1. n = 10 * (n \div 10) + (n % 10) /\ n \div 10 \in Nat /\ n % 10 \in Nat
  OBVIOUS
<1> QED
  BY <1>1 DEF FromDigits

LEMMA BcdFlags ==
  ASSUME NEW result, NEW zero
  PROVE  LET o == UpdateBCDFlags(result, zero)
         IN  o.value = result.value /\ Flags(o.flags) /\ o.flags.x = result.carry /\ o.flags.z = zero
BY RecordFlags DEF UpdateBCDFlags, Outcome

\* What the three instructions have in common: the digits and the carry are those of the total.
LEMMA DecimalExact ==
  ASSUME NumberInv, NEW total \in Int, NEW exact \in Int, ~number.long => total = exact,
         NEW result, result.value = FromDigits(exact % 100), result.carry <=> exact \notin 0 .. 99,
         ccr' = UpdateBCDFlags(result, result.value = 0 /\ ccr.z).flags,
         NextDecimal(total, UpdateBCDFlags(result, result.value = 0 /\ ccr.z).value)
  PROVE  NumberInv'
<1> DEFINE z    == result.value = 0 /\ ccr.z
           o    == UpdateBCDFlags(result, z)
           owed == IF total \in 0 .. 99 THEN 0 ELSE 1
           zero == IF total % 100 # 0 THEN "no" ELSE number.zero
<1>1. BecomesDecimal(total, o.value, owed, zero) /\ ccr' = o.flags
  BY DEF NextDecimal, BecomesDecimal
<1>2. owed \in {0, 1} /\ (owed = 1 <=> total \notin 0 .. 99)
  OBVIOUS
<1>3. zero \in {"yes", "no", "lost"}
  BY DEF NumberInv, NumberIs
<1>4. result.value = 0 <=> exact % 100 = 0
  <2>1. exact % 100 \in 0 .. 99
    OBVIOUS
  <2> QED
    BY <2>1, DecimalZero
<1>5. ~number.long /\ zero # "lost" => (z <=> zero = "yes")
  BY <1>4 DEF NumberInv, NumberIs, NumbersExact
<1> HIDE DEF z
<1>6. o.value = result.value /\ Flags(o.flags) /\ o.flags.x = result.carry /\ o.flags.z = z
  BY BcdFlags
<1> HIDE DEF o, owed, zero
<1>7. ~number.long => /\ o.value = FromDigits(total % 100)
                      /\ ccr'.x <=> owed = 1
                      /\ zero # "lost" => (ccr'.z <=> zero = "yes")
  BY <1>1, <1>2, <1>5, <1>6
<1>8. Flags(ccr')
  BY <1>1, <1>6
<1>9. owed \in {0, 1}
  BY <1>2
<1> QED
  BY <1>1, <1>3, <1>7, <1>8, <1>9, NextDecimalExact

LEMMA DecimalSums ==
  ASSUME NumberInv, NEW src, NEW dst, Decimal(src), Decimal(dst), Abcd(src, dst)
  PROVE  NumberInv'
<1> DEFINE result == BcdAdd(src, dst, ccr.x)
           total == Digits(dst) + Digits(src) + number.owed
           exact == Digits(dst) + Digits(src) + BitOf(ccr.x)
<1>1. /\ ccr' = UpdateBCDFlags(result, result.value = 0 /\ ccr.z).flags
      /\ NextDecimal(total, UpdateBCDFlags(result, result.value = 0 /\ ccr.z).value)
  BY DEF Abcd, Executes
<1>2. total \in Int
  BY DecimalIs, SMTT(40) DEF NumberInv, NumberIs
<1>3. result.value = FromDigits(exact % 100) /\ (result.carry <=> exact \notin 0 .. 99) /\ exact \in Int
  BY DecimalSum
<1>4. ~number.long => total = exact
  BY Owed
<1> HIDE DEF result, total, exact
<1> QED
  BY <1>1, <1>2, <1>3, <1>4, DecimalExact

LEMMA DecimalDifferences ==
  ASSUME NumberInv, NEW src, NEW dst, Decimal(src), Decimal(dst), Sbcd(src, dst)
  PROVE  NumberInv'
<1> DEFINE result == BcdSub(src, dst, ccr.x)
           total == Digits(dst) - Digits(src) - number.owed
           exact == Digits(dst) - Digits(src) - BitOf(ccr.x)
<1>1. /\ ccr' = UpdateBCDFlags(result, result.value = 0 /\ ccr.z).flags
      /\ NextDecimal(total, UpdateBCDFlags(result, result.value = 0 /\ ccr.z).value)
  BY DEF Sbcd, Executes
<1>2. total \in Int
  BY DecimalIs, SMTT(40) DEF NumberInv, NumberIs
<1>3. result.value = FromDigits(exact % 100) /\ (result.carry <=> exact \notin 0 .. 99) /\ exact \in Int
  BY DecimalDifference
<1>4. ~number.long => total = exact
  BY Owed
<1> HIDE DEF result, total, exact
<1> QED
  BY <1>1, <1>2, <1>3, <1>4, DecimalExact

LEMMA DecimalNegations ==
  ASSUME NumberInv, NEW value, Decimal(value), Nbcd(value)
  PROVE  NumberInv'
<1> DEFINE result == BcdSub(value, 0, ccr.x)
           z == result.value = 0
           o == UpdateBCDFlags(result, z)
           total == 0 - Digits(value) - number.owed
           exact == Digits(0) - Digits(value) - BitOf(ccr.x)
           owed == IF total = 0 THEN 0 ELSE 1
           zero == YesNo(total % 100 = 0)
<1>1. BecomesDecimal(total, o.value, owed, zero) /\ ccr' = o.flags
  BY DEF Nbcd, Executes, BecomesDecimal
<1>2. Digits(value) \in Nat /\ Digits(0) = 0
  BY DecimalIs DEF Digits
<1>3. number.owed \in {0, 1}
  BY DEF NumberInv, NumberIs
<1>4. total \in Int /\ total <= 0
  BY <1>2, <1>3
<1>5. result.value = FromDigits(exact % 100) /\ (result.carry <=> exact \notin 0 .. 99) /\ exact \in Int
  <2>1. Decimal(0)
    BY DEF Decimal
  <2> QED
    BY <2>1, DecimalDifference
<1>6. ~number.long => total = exact
  BY <1>2, <1>3, <1>5, Owed
<1>7. z <=> exact % 100 = 0
  <2> HIDE DEF result, exact
  <2>1. exact % 100 \in 0 .. 99
    BY <1>5
  <2> QED
    BY <1>5, <2>1, DecimalZero
<1> HIDE DEF z
<1>8. o.value = result.value /\ Flags(o.flags) /\ o.flags.x = result.carry /\ o.flags.z = z
  BY BcdFlags
<1> HIDE DEF o, result, total, exact
<1>9. zero \in {"yes", "no", "lost"} /\ (zero = "yes" <=> total % 100 = 0) /\ owed \in {0, 1}
  BY DEF YesNo
<1>10. owed = 1 <=> total \notin 0 .. 99
  BY <1>4
<1> HIDE DEF owed, zero
<1>11. ~number.long => /\ o.value = FromDigits(total % 100)
                       /\ ccr'.x <=> owed = 1
                       /\ zero # "lost" => (ccr'.z <=> zero = "yes")
  BY <1>1, <1>5, <1>6, <1>7, <1>8, <1>9, <1>10
<1>12. Flags(ccr')
  BY <1>1, <1>8
<1> QED
  BY <1>1, <1>4, <1>9, <1>11, <1>12, NextDecimalExact

LEMMA Comparisons ==
  ASSUME NumberInv, NEW s \in Sizes, NEW src \in Values(s), NEW dst \in Values(s), Cmp(s, src, dst)
  PROVE  NumberInv'
<1> DEFINE f == SubWithFlags(src, dst, s).flags
<1>1. ccr' = [f EXCEPT !.x = ccr.x] /\ KeepsCarry
  BY DEF Cmp, Executes, Outcome
<1>2. Flags(f)
  BY SubtractionFlags, CCRFlags
<1> HIDE DEF f
<1>3. Flags(ccr') /\ ccr'.x = ccr.x
  BY <1>1, <1>2 DEF Flags, FlagNames
<1> QED
  BY <1>1, <1>3, CarryKept

LEMMA Tests ==
  ASSUME NumberInv, NEW s, NEW value, Tst(s, value)
  PROVE  NumberInv'
<1>1. ccr' = UpdateNZClearVC(value, s, ccr) /\ KeepsCarry
  BY DEF Tst, Executes, Outcome
<1>2. Flags(ccr') /\ ccr'.x = ccr.x
  BY <1>1, TestFlags DEF NumberInv
<1> QED
  BY <1>1, <1>2, CarryKept

LEMMA Products ==
  ASSUME NumberInv, NEW src, NEW dst, Multiply(src, dst)
  PROVE  NumberInv'
<1>1. KeepsCarry /\ \E product : ccr' = MulFlags(product, ccr).flags
  BY DEF Multiply, Executes, Mulu, Muls
<1>2. Flags(ccr') /\ ccr'.x = ccr.x
  BY <1>1, ProductFlags DEF NumberInv
<1> QED
  BY <1>1, <1>2, CarryKept

LEMMA Quotients ==
  ASSUME NumberInv, NEW src, NEW dst, Divide(src, dst)
  PROVE  NumberInv'
<1>1. KeepsCarry /\ \E q, r, fits : ccr' = DivisionFlags(q, r, fits, dst, ccr).flags
  <2>1. \E q, r, fits : Divu(src, dst, ccr) = DivisionFlags(q, r, fits, dst, ccr)
    BY DEF Divu
  <2>2. \E q, r, fits : Divs(src, dst, ccr) = DivisionFlags(q, r, fits, dst, ccr)
    BY DEF Divs
  <2> QED
    BY <2>1, <2>2 DEF Divide, Executes
<1>2. Flags(ccr') /\ ccr'.x = ccr.x
  BY <1>1, QuotientFlags DEF NumberInv
<1> QED
  BY <1>1, <1>2, CarryKept

LEMMA Rotations ==
  ASSUME NumberInv, NEW op \in Shifts, NEW s, NEW count \in Nat, NEW value,
         ShiftRotate(op, s, count, value)
  PROVE  NumberInv'
<1> DEFINE f == DoShiftRotate(op, value, count, s, ccr.x).flags
<1>1. /\ ccr' = f
      /\ IF op \in {"rol", "ror"} \/ count = 0 THEN KeepsCarry ELSE SetsCarry(f.x)
  BY DEF ShiftRotate, Executes
<1>2. Flags(f) /\ (op \in {"rol", "ror"} \/ count = 0 => f.x = ccr.x)
  BY ShiftedFlags
<1> HIDE DEF f
<1>3. CASE op \in {"rol", "ror"} \/ count = 0
  BY <1>1, <1>2, <1>3, CarryKept
<1>4. CASE ~(op \in {"rol", "ror"} \/ count = 0)
  BY <1>1, <1>2, <1>4, CarrySet
<1> QED
  BY <1>3, <1>4

\* Flags that begin a number: those of the reset and those that are set by hand.
LEMMA FlagsSet ==
  ASSUME NEW f \in CCR, NEW n,
         n = [digit |-> 0, res |-> 0, owed |-> BitOf(f.x), zero |-> YesNo(f.z), long |-> FALSE]
  PROVE  /\ Flags(f) /\ NumberIs(n) /\ ~n.long /\ n.res = n.digit
         /\ f.x <=> n.owed = 1
         /\ f.z <=> n.zero = "yes"
<1>1. BitOf(f.x) \in {0, 1} /\ (f.x <=> BitOf(f.x) = 1)
  BY DEF BitOf
<1>2. YesNo(f.z) \in {"yes", "no"} /\ (f.z <=> YesNo(f.z) = "yes")
  BY DEF YesNo
<1> QED
  BY <1>1, <1>2, CCRFlags DEF NumberIs

LEMMA NumberStep == NumberInv /\ [Next]_vars => NumberInv'
<1> SUFFICES ASSUME NumberInv, [Next]_vars PROVE NumberInv'
  OBVIOUS
<1>1. ASSUME NEW s \in Sizes, NEW src \in Operands[s], NEW dst \in Operands[s],
             Add(s, src, dst) \/ Sub(s, src, dst) \/ Cmp(s, src, dst) \/ Addx(s, src, dst) \/ Subx(s, src, dst)
      PROVE  NumberInv'
  <2>1. src \in Values(s) /\ dst \in Values(s)
    BY OperandsAre
  <2>2. CASE Add(s, src, dst)
    BY <2>1, <2>2, Sums
  <2>3. CASE Sub(s, src, dst)
    <3>1. /\ ccr' = SubWithFlags(src, dst, s).flags
          /\ FirstDigit(dst - src, Modulus(s), SubWithFlags(src, dst, s).value)
      BY <2>3 DEF Sub, Executes
    <3> QED
      BY <2>1, <3>1, Differences
  <2>4. CASE Cmp(s, src, dst)
    BY <2>1, <2>4, Comparisons
  <2>5. CASE Addx(s, src, dst)
    BY <2>1, <2>5, SumsExtended
  <2>6. CASE Subx(s, src, dst)
    <3>1. /\ ccr' = SubWithExtend(src, dst, s, ccr).flags
          /\ NextDigit(dst - src - number.owed, Modulus(s), SubWithExtend(src, dst, s, ccr).value, s)
      BY <2>6 DEF Subx, Executes
    <3> QED
      BY <2>1, <3>1, DifferencesExtended
  <2> QED
    BY <1>1, <2>2, <2>3, <2>4, <2>5, <2>6
<1>2. ASSUME NEW s \in Sizes, NEW value \in Operands[s], Neg(s, value) \/ Negx(s, value) \/ Tst(s, value)
      PROVE  NumberInv'
  <2>1. value \in Values(s) /\ 0 \in Values(s)
    BY OperandsAre, Widths DEF Values
  <2>2. CASE Neg(s, value)
    <3>1. /\ ccr' = SubWithFlags(value, 0, s).flags
          /\ FirstDigit(0 - value, Modulus(s), SubWithFlags(value, 0, s).value)
      BY <2>2 DEF Neg, Executes
    <3> QED
      BY <2>1, <3>1, Differences
  <2>3. CASE Negx(s, value)
    <3>1. /\ ccr' = SubWithExtend(value, 0, s, ccr).flags
          /\ NextDigit(0 - value - number.owed, Modulus(s), SubWithExtend(value, 0, s, ccr).value, s)
      BY <2>3 DEF Negx, Executes
    <3> QED
      BY <2>1, <3>1, DifferencesExtended
  <2>4. CASE Tst(s, value)
    BY <2>4, Tests
  <2> QED
    BY <1>2, <2>2, <2>3, <2>4
<1>3. ASSUME NEW src \in Decimals, NEW dst \in Decimals, Abcd(src, dst) \/ Sbcd(src, dst)
      PROVE  NumberInv'
  BY <1>3, OperandsAre, DecimalSums, DecimalDifferences DEF Decimal
<1>4. ASSUME NEW value \in Decimals, Nbcd(value) PROVE NumberInv'
  BY <1>4, OperandsAre, DecimalNegations DEF Decimal
<1>5. ASSUME NEW src, NEW dst, Multiply(src, dst) \/ Divide(src, dst) PROVE NumberInv'
  BY <1>5, Products, Quotients
<1>6. ASSUME NEW op \in Shifts, NEW s \in Sizes, NEW count \in Counts, NEW value, ShiftRotate(op, s, count, value)
      PROVE  NumberInv'
  <2>1. count \in Nat
    BY OperandsAre
  <2> QED
    BY <1>6, <2>1, Rotations
<1>7. ASSUME NEW flags \in CCR, SetCcr(flags) PROVE NumberInv'
  BY <1>7, FlagsSet DEF SetCcr, NumberInv, NumbersExact
<1>8. CASE Fetch \/ UNCHANGED vars
  BY <1>8 DEF Fetch, vars, NumberInv, NumbersExact
<1> QED
  BY <1>1, <1>2, <1>3, <1>4, <1>5, <1>6, <1>7, <1>8 DEF Next

LEMMA NumberInit == Init => NumberInv
BY FlagsSet DEF Init, NumberInv, NumbersExact

(* Numbers of several digits are computed exactly, whatever the width of a *)
(* digit, the number of digits, and the instructions that come between.    *)
THEOREM NumbersCorrect == Spec => []NumbersExact
<1>1. NumberInv => NumbersExact
  BY DEF NumberInv
<1> QED
  BY <1>1, NumberInit, NumberStep, PTL DEF Spec

-----------------------------------------------------------------------------
\* The comparisons, instruction by instruction.

\* An instruction that subtracts or compares leaves what its operands compare to.
LEMMA Subtracts ==
  ASSUME NEW op, NEW s \in Sizes, NEW src \in Values(s), NEW dst \in Values(s), NEW outcome,
         Executes(op, s, src, dst, outcome), Subtracted(outcome.flags, src, dst, s)
  PROVE  ComparisonsDecide'
<1>1. last'.src = src /\ last'.dst = dst /\ last'.size = s /\ ccr' = outcome.flags
  BY Executed
<1>2. \A cond \in Conditions : ConditionTrue(cond, ccr') <=> Compares(cond, src, dst, s)
  BY <1>1, ConditionsCompare
<1> QED
  BY <1>1, <1>2 DEF ComparisonsDecide

LEMMA SubtractsNot ==
  ASSUME NEW op, NEW s, NEW src, NEW dst, NEW outcome, Executes(op, s, src, dst, outcome),
         op \notin {"sub", "cmp", "tst"}
  PROVE  ComparisonsDecide'
BY Executed DEF ComparisonsDecide

\* A test is a comparison with 0.
LEMMA TestSubtracts ==
  ASSUME Flags(ccr), NEW s \in Sizes, NEW value \in Values(s)
  PROVE  Subtracted(UpdateNZClearVC(value, s, ccr), 0, value, s)
<1> DEFINE f == UpdateNZClearVC(value, s, ccr)
<1>1. /\ value \in Int /\ 0 <= value /\ value < 2 * SignBit[s] /\ SignBit[s] \in Nat \ {0}
      /\ Low(value, s) = value
  BY ValuesAre
<1>2. f.n = Negative(value, s) /\ f.z = (Low(value, s) = 0) /\ f.v = FALSE /\ f.c = FALSE
  BY TestFlags
<1>3. Negative(value, s) = (value >= SignBit[s])
  BY <1>1 DEF Negative
<1> HIDE DEF f
<1>4. f.n = (value >= SignBit[s]) /\ f.z = (value = 0)
  BY <1>1, <1>2, <1>3
<1>5. f.n \in BOOLEAN /\ f.z \in BOOLEAN
  BY <1>4
<1> DEFINE res == IF value >= 0 THEN value - 0 ELSE value - 0 + 2 * SignBit[s]
<1>6. res = value /\ ~(value < 0) /\ ~(0 >= SignBit[s])
  BY <1>1
<1>7. f.c \in BOOLEAN /\ f.v \in BOOLEAN /\ ~f.c /\ ~f.v
  BY <1>2
<1> HIDE DEF res
<1>8. /\ f.c <=> value < 0
      /\ f.z <=> value = 0
      /\ f.n <=> res >= SignBit[s]
      /\ f.v <=> /\ (value >= SignBit[s]) # (0 >= SignBit[s])
                 /\ (res >= SignBit[s]) # (value >= SignBit[s])
  BY <1>4, <1>6, <1>7
<1> QED
  BY <1>5, <1>7, <1>8 DEF Subtracted, f, res

LEMMA ComparisonStep == NumberInv /\ ComparisonsDecide /\ [Next]_vars => ComparisonsDecide'
<1> SUFFICES ASSUME NumberInv, ComparisonsDecide, [Next]_vars PROVE ComparisonsDecide'
  OBVIOUS
<1>1. ASSUME NEW s \in Sizes, NEW src \in Operands[s], NEW dst \in Operands[s],
             Add(s, src, dst) \/ Sub(s, src, dst) \/ Cmp(s, src, dst) \/ Addx(s, src, dst) \/ Subx(s, src, dst)
      PROVE  ComparisonsDecide'
  <2>1. src \in Values(s) /\ dst \in Values(s)
    BY OperandsAre
  <2>2. Subtracted(SubWithFlags(src, dst, s).flags, src, dst, s)
    BY <2>1, SubtractionFlags
  <2>3. CASE Sub(s, src, dst)
    BY <2>1, <2>2, <2>3, Subtracts DEF Sub
  <2>4. CASE Cmp(s, src, dst)
    <3> DEFINE f == SubWithFlags(src, dst, s).flags
               g == [f EXCEPT !.x = ccr.x]
    <3>1. Flags(f)
      BY <2>1, SubtractionFlags, CCRFlags
    <3> HIDE DEF f
    <3>2. g.c = f.c /\ g.z = f.z /\ g.n = f.n /\ g.v = f.v
      BY <3>1 DEF Flags, FlagNames
    <3> HIDE DEF g
    <3>3. Subtracted(g, src, dst, s)
      BY <2>2, <3>2 DEF Subtracted, f
    <3>4. Executes("cmp", s, src, dst, Outcome(dst, g)) /\ Outcome(dst, g).flags = g
      BY <2>4 DEF Cmp, Outcome, g, f
    <3> QED
      BY <2>1, <3>3, <3>4, Subtracts
  <2>5. CASE Add(s, src, dst) \/ Addx(s, src, dst) \/ Subx(s, src, dst)
    BY <2>5, SubtractsNot DEF Add, Addx, Subx
  <2> QED
    BY <1>1, <2>3, <2>4, <2>5
<1>2. ASSUME NEW s \in Sizes, NEW value \in Operands[s], Neg(s, value) \/ Negx(s, value) \/ Tst(s, value)
      PROVE  ComparisonsDecide'
  <2>1. value \in Values(s) /\ 0 \in Values(s)
    BY OperandsAre, Widths DEF Values
  <2>2. CASE Neg(s, value)
    <3>1. Subtracted(SubWithFlags(value, 0, s).flags, value, 0, s)
      BY <2>1, SubtractionFlags
    <3> QED
      BY <2>1, <2>2, <3>1, Subtracts DEF Neg
  <2>3. CASE Negx(s, value)
    BY <2>3, SubtractsNot DEF Negx
  <2>4. CASE Tst(s, value)
    <3> DEFINE f == UpdateNZClearVC(value, s, ccr)
    <3>1. Subtracted(f, 0, value, s)
      BY <2>1, TestSubtracts DEF NumberInv
    <3>2. Executes("tst", s, 0, value, Outcome(value, f))
      BY <2>4 DEF Tst
    <3> HIDE DEF f
    <3>3. Outcome(value, f).flags = f
      BY DEF Outcome
    <3> QED
      BY <2>1, <3>1, <3>2, <3>3, Subtracts
  <2> QED
    BY <1>2, <2>2, <2>3, <2>4
<1>3. ASSUME NEW src, NEW dst, Abcd(src, dst) \/ Sbcd(src, dst) \/ Nbcd(src)
      PROVE  ComparisonsDecide'
  BY <1>3, SubtractsNot DEF Abcd, Sbcd, Nbcd
<1>4. ASSUME NEW src, NEW dst, Multiply(src, dst) \/ Divide(src, dst)
      PROVE  ComparisonsDecide'
  BY <1>4, SubtractsNot DEF Multiply, Divide
<1>5. ASSUME NEW op \in Shifts, NEW s, NEW count, NEW value, ShiftRotate(op, s, count, value)
      PROVE  ComparisonsDecide'
  BY <1>5, SubtractsNot DEF ShiftRotate, Shifts
<1>6. ASSUME NEW flags, SetCcr(flags) PROVE ComparisonsDecide'
  <2>1. last'.op = "none"
    BY <1>6 DEF SetCcr, NoInstruction
  <2> QED
    BY <2>1 DEF ComparisonsDecide
<1>7. CASE Fetch
  <2>1. last'.op = "none"
    BY <1>7 DEF Fetch, NoInstruction
  <2> QED
    BY <2>1 DEF ComparisonsDecide
<1>8. CASE UNCHANGED vars
  BY <1>8 DEF vars, ComparisonsDecide
<1> QED
  BY <1>1, <1>2, <1>3, <1>4, <1>5, <1>6, <1>7, <1>8 DEF Next

(* Every condition of Bcc, DBcc and Scc decides the comparison it is named *)
(* for, at every width of the words and for all of their values.           *)
THEOREM ComparisonsCorrect == Spec => []ComparisonsDecide
<1>1. Init => ComparisonsDecide
  BY DEF Init, NoInstruction, ComparisonsDecide
<1> QED
  BY <1>1, NumberInit, NumberStep, ComparisonStep, PTL DEF Spec

-----------------------------------------------------------------------------
\* Products and quotients.

\* The registers hold a product of two words, and no more.
LongIsTwoWords == Modulus("long") = Modulus("word") * Modulus("word")

LEMMA Packed ==
  ASSUME NEW m \in Nat \ {0}, NEW a \in Int, NEW b \in 0 .. m - 1
  PROVE  (m * a + b) % m = b /\ (m * a + b) \div m = a
OBVIOUS

\* A multiple of b that is closer to 0 than b is 0.
LEMMA Multiples ==
  ASSUME NEW b \in Nat \ {0}, NEW n \in Int, 0 - b < n * b, n * b < b
  PROVE  n = 0
<1>1. n >= 1 => n * b >= b
  OBVIOUS
<1>2. n <= 0 - 1 => n * b <= 0 - b
  OBVIOUS
<1> QED
  BY <1>1, <1>2

LEMMA Divided ==
  ASSUME NEW a \in Nat, NEW b \in Nat \ {0}
  PROVE  /\ a \div b \in Nat
         /\ a - (a \div b) * b \in 0 .. b - 1
<1>1. a = b * (a \div b) + (a % b) /\ a % b \in 0 .. b - 1 /\ a \div b \in Int
  OBVIOUS
<1>2. a \div b >= 0
  <2>1. a \div b <= 0 - 1 => b * (a \div b) <= 0 - b
    BY <1>1
  <2> QED
    BY <1>1, <2>1
<1>3. (a \div b) * b = b * (a \div b)
  BY <1>1
<1> QED
  BY <1>1, <1>2, <1>3

\* The remainders that a dividend may leave.
RemainderRange(a, size) == IF a < 0 THEN 1 - size .. 0 ELSE 0 .. size - 1
Size(b) == IF b < 0 THEN 0 - b ELSE b

\* At most one quotient leaves such a remainder.
LEMMA QuotientIsUnique ==
  ASSUME NEW a \in Int, NEW b \in Int \ {0}, NEW q \in Int, NEW k \in Int,
         a - q * b \in RemainderRange(a, Size(b)), a - k * b \in RemainderRange(a, Size(b))
  PROVE  q = k
<1> DEFINE n == q - k
           size == Size(b)
<1>1. n \in Int /\ size \in Nat \ {0} /\ (b = size \/ b = 0 - size)
  BY DEF Size
<1>2. q * b \in Int /\ k * b \in Int
  OBVIOUS
<1>3. 0 - size < k * b - q * b /\ k * b - q * b < size
  <2> DEFINE qb == q * b
             kb == k * b
  <2>1. qb \in Int /\ kb \in Int
    BY <1>2
  <2>2. a - qb \in RemainderRange(a, size) /\ a - kb \in RemainderRange(a, size)
    OBVIOUS
  <2> HIDE DEF qb, kb, size
  <2>3. 0 - size < kb - qb /\ kb - qb < size
    BY <1>1, <2>1, <2>2 DEF RemainderRange
  <2> QED
    BY <2>3 DEF qb, kb
<1>4. n * b = q * b - k * b
  OBVIOUS
<1>5. n * size = n * b \/ n * size = 0 - n * b
  BY <1>1
<1>6. n * b \in Int
  BY <1>1
<1> HIDE DEF n, size
<1>7. 0 - size < n * size /\ n * size < size
  BY <1>1, <1>2, <1>3, <1>4, <1>5, <1>6
<1>8. n = 0
  BY <1>1, <1>7, Multiples
<1> QED
  BY <1>8 DEF n

\* A division rounds towards zero.
LEMMA QuotientIs ==
  ASSUME NEW a \in Int, NEW b \in Int \ {0}
  PROVE  Quotient(a, b) \in Int /\ a - Quotient(a, b) * b \in RemainderRange(a, Size(b))
<1> DEFINE p == Size(a) \div Size(b)
<1>1. Size(a) \in Nat /\ Size(b) \in Nat \ {0}
  BY DEF Size
<1>2. p \in Nat /\ Size(a) - p * Size(b) \in 0 .. Size(b) - 1
  BY <1>1, Divided
<1>3. Quotient(a, b) = IF (a < 0) = (b < 0) THEN p ELSE 0 - p
  BY DEF Quotient, Size
<1> HIDE DEF p
<1>4. p * (0 - b) = 0 - p * b /\ (0 - p) * b = 0 - p * b /\ p * b \in Int
  BY <1>2
<1>5. CASE a < 0 /\ b < 0
  <2>1. Quotient(a, b) = p /\ Size(a) = 0 - a /\ Size(b) = 0 - b
    BY <1>3, <1>5 DEF Size
  <2> QED
    BY <1>2, <1>4, <1>5, <2>1 DEF RemainderRange
<1>6. CASE a < 0 /\ ~(b < 0)
  <2>1. Quotient(a, b) = 0 - p /\ Size(a) = 0 - a /\ Size(b) = b
    BY <1>3, <1>6 DEF Size
  <2> QED
    BY <1>2, <1>4, <1>6, <2>1 DEF RemainderRange
<1>7. CASE ~(a < 0) /\ b < 0
  <2>1. Quotient(a, b) = 0 - p /\ Size(a) = a /\ Size(b) = 0 - b
    BY <1>3, <1>7 DEF Size
  <2> QED
    BY <1>2, <1>4, <1>7, <2>1 DEF RemainderRange
<1>8. CASE ~(a < 0) /\ ~(b < 0)
  <2>1. Quotient(a, b) = p /\ Size(a) = a /\ Size(b) = b
    BY <1>3, <1>8 DEF Size
  <2> QED
    BY <1>2, <1>4, <1>8, <2>1 DEF RemainderRange
<1> QED
  BY <1>5, <1>6, <1>7, <1>8

LEMMA SignedRange ==
  ASSUME NEW s \in Sizes, NEW v \in Int
  PROVE  /\ Signed(v, s) \in (0 - SignBit[s]) .. (SignBit[s] - 1)
         /\ Signed(Low(v, s), s) = Signed(v, s)
         /\ v \in (0 - SignBit[s]) .. (SignBit[s] - 1) => Signed(v, s) = v
         /\ Low(v, s) = 0 <=> Signed(v, s) = 0
<1> DEFINE w == Low(v, s)
<1>1. SignBit[s] \in Nat \ {0} /\ Modulus(s) = 2 * SignBit[s]
  BY Widths
<1>2. w \in Values(s) /\ w \in Int /\ 0 <= w /\ w < 2 * SignBit[s] /\ Low(w, s) = w
  BY LowIs, ValuesAre
<1>3. Signed(v, s) = IF w >= SignBit[s] THEN w - 2 * SignBit[s] ELSE w
  BY <1>1 DEF Signed, Negative
<1>4. Signed(w, s) = IF w >= SignBit[s] THEN w - 2 * SignBit[s] ELSE w
  BY <1>1, <1>2 DEF Signed, Negative
<1>5. v \in (0 - SignBit[s]) .. (SignBit[s] - 1) => w = IF v < 0 THEN v + 2 * SignBit[s] ELSE v
  <2>1. v \in 0 .. (SignBit[s] - 1) => v \in Values(s)
    BY <1>1 DEF Values
  <2>2. v \in (0 - SignBit[s]) .. (0 - 1) => v + Modulus(s) \in Values(s)
    BY <1>1 DEF Values
  <2> QED
    BY <1>1, <2>1, <2>2, LowIs
<1> HIDE DEF w
<1> QED
  BY <1>1, <1>2, <1>3, <1>4, <1>5 DEF w

\* The quotient is the low word of the register and the remainder its high word.
LEMMA RegisterHalves ==
  ASSUME NEW q \in Int, NEW r \in Int
  PROVE  LET res == Modulus("word") * Low(r, "word") + Low(q, "word")
         IN  /\ res \in Int
             /\ Low(res, "word") = Low(q, "word")
             /\ Signed(res, "word") = Signed(q, "word")
             /\ res \div Modulus("word") = Low(r, "word")
<1> DEFINE m == Modulus("word")
           a == Low(r, "word")
           b == Low(q, "word")
           res == m * a + b
<1>1. "word" \in Sizes /\ m \in Nat \ {0}
  BY Widths DEF Sizes
<1>2. a \in Int /\ b \in Int /\ b \in 0 .. m - 1
  BY <1>1, LowIs, ValuesAre DEF Values
<1> HIDE DEF m, a, b
<1>3. res \in Int /\ res % m = b /\ res \div m = a
  BY <1>1, <1>2, Packed
<1> HIDE DEF res
<1>4. Low(res, "word") = Low(q, "word")
  BY <1>3 DEF Low, m, b
<1>5. Signed(res, "word") = Signed(q, "word")
  BY <1>4 DEF Signed, Negative, Low
<1> QED
  BY <1>3, <1>4, <1>5 DEF res, m, a, b

\* What V says of a division.
Written(o, q, r, fits, dst) ==
  /\ fits => ~o.flags.v /\ o.value = Modulus("word") * Low(r, "word") + Low(q, "word")
  /\ ~fits => o.flags.v /\ o.value = dst

LEMMA QuotientWritten ==
  ASSUME Flags(ccr), NEW q, NEW r, NEW fits \in BOOLEAN, NEW dst
  PROVE  Written(DivisionFlags(q, r, fits, dst, ccr), q, r, fits, dst)
<1> DEFINE o == DivisionFlags(q, r, fits, dst, ccr)
           f == UpdateNZClearVC(q, "word", ccr)
           g == [ccr EXCEPT !.n = FALSE, !.z = FALSE, !.v = TRUE, !.c = FALSE]
           packed == Modulus("word") * Low(r, "word") + Low(q, "word")
<1>1. o = IF fits THEN [value |-> packed, flags |-> f] ELSE [value |-> dst, flags |-> g]
  BY DEF DivisionFlags, Outcome
<1>2. f.v = FALSE
  BY TestFlags
<1>3. g.v = TRUE
  BY DEF Flags, FlagNames
<1> HIDE DEF o, f, g, packed
<1>4. fits => ~o.flags.v /\ o.value = packed
  BY <1>1, <1>2
<1>5. ~fits => o.flags.v /\ o.value = dst
  BY <1>1, <1>3
<1> QED
  BY <1>4, <1>5 DEF Written, o, packed

LEMMA UnsignedQuotients ==
  ASSUME Flags(ccr), NEW src \in Values("word"), src # 0, NEW dst \in Values("long")
  PROVE  LET o == Divu(src, dst, ccr)
         IN  IF o.flags.v
             THEN /\ o.value = dst
                  /\ \A any \in Values("word") : dst - Low(any, "word") * src \notin 0 .. src - 1
             ELSE /\ dst = Low(o.value, "word") * src + Low(o.value \div Modulus("word"), "word")
                  /\ Low(o.value \div Modulus("word"), "word") \in 0 .. src - 1
<1> DEFINE q == dst \div src
           r == dst - q * src
           m == Modulus("word")
           o == Divu(src, dst, ccr)
           fits == q < m
<1>1. "word" \in Sizes /\ "long" \in Sizes /\ m \in Nat \ {0}
  BY Widths DEF Sizes
<1>2. src \in Nat \ {0} /\ src < m /\ dst \in Nat
  BY <1>1, ValuesAre, Widths
<1>3. q \in Nat /\ r \in 0 .. src - 1
  BY <1>2, Divided
<1>4. o = DivisionFlags(q, r, fits, dst, ccr)
  BY DEF Divu
<1>5. /\ fits => ~o.flags.v /\ o.value = m * Low(r, "word") + Low(q, "word")
      /\ ~fits => o.flags.v /\ o.value = dst
  <2>1. fits \in BOOLEAN
    OBVIOUS
  <2> HIDE DEF fits, q, r
  <2>2. Written(o, q, r, fits, dst)
    BY <1>4, <2>1, QuotientWritten
  <2> QED
    BY <2>2 DEF Written
<1>6. dst = q * src + r /\ q * src \in Nat
  BY <1>2, <1>3
<1> HIDE DEF o, q, r, m
<1>7. CASE fits
  <2>1. q \in Values("word") /\ r \in Values("word")
    BY <1>1, <1>2, <1>3, <1>7 DEF Values, m
  <2>2. Low(q, "word") = q /\ Low(r, "word") = r
    BY <1>1, <2>1, LowIs, ValuesAre
  <2>3. o.value = m * Low(r, "word") + Low(q, "word")
    BY <1>5, <1>7
  <2>4. Low(o.value, "word") = Low(q, "word") /\ o.value \div m = Low(r, "word")
    BY <1>3, <2>3, RegisterHalves DEF m
  <2>5. ~o.flags.v
    BY <1>5, <1>7
  <2> QED
    BY <1>3, <1>6, <2>2, <2>4, <2>5 DEF o, m
<1>8. CASE ~fits
  <2>1. o.flags.v /\ o.value = dst
    BY <1>5, <1>8
  <2>2. ASSUME NEW any \in Values("word") PROVE dst - Low(any, "word") * src \notin 0 .. src - 1
    <3>1. Low(any, "word") = any /\ any \in Nat /\ any < m
      BY <1>1, ValuesAre, Widths DEF m
    <3>2. any < q
      BY <1>1, <1>3, <1>8, <3>1
    <3>3. dst - any * src \notin 0 .. src - 1
      <4>1. SUFFICES ASSUME dst - any * src \in 0 .. src - 1 PROVE FALSE
        OBVIOUS
      <4>2. Size(src) = src /\ RemainderRange(dst, src) = 0 .. src - 1
        BY <1>2 DEF Size, RemainderRange
      <4>3. dst - q * src \in 0 .. src - 1
        BY <1>3 DEF r
      <4>4. any = q
        BY <1>2, <1>3, <3>1, <4>1, <4>2, <4>3, QuotientIsUnique
      <4> QED
        BY <1>3, <3>1, <3>2, <4>4
    <3> QED
      BY <3>1, <3>3
  <2> QED
    BY <2>1, <2>2 DEF o
<1> QED
  BY <1>7, <1>8

LEMMA SignedQuotients ==
  ASSUME Flags(ccr), NEW src \in Values("word"), src # 0, NEW dst \in Values("long")
  PROVE  LET o == Divs(src, dst, ccr)
             dividend == Signed(dst, "long")
             divisor == Signed(src, "word")
         IN  IF o.flags.v
             THEN /\ o.value = dst
                  /\ \A any \in Values("word") :
                       dividend - Signed(any, "word") * divisor \notin RemainderRange(dividend, Size(divisor))
             ELSE /\ dividend = Signed(o.value, "word") * divisor + Signed(o.value \div Modulus("word"), "word")
                  /\ Signed(o.value \div Modulus("word"), "word") \in RemainderRange(dividend, Size(divisor))
<1> DEFINE dividend == Signed(dst, "long")
           divisor == Signed(src, "word")
           q == Quotient(dividend, divisor)
           r == dividend - q * divisor
           m == Modulus("word")
           B == SignBit["word"]
           o == Divs(src, dst, ccr)
           fits == 0 - B <= q /\ q < B
<1>1. "word" \in Sizes /\ "long" \in Sizes /\ m \in Nat \ {0} /\ B \in Nat \ {0} /\ m = 2 * B
  BY Widths DEF Sizes
<1>2. /\ divisor \in Int /\ divisor # 0 /\ 0 - B <= divisor /\ divisor < B
      /\ dividend \in Int
  <2>1. src \in Int /\ dst \in Int /\ Low(src, "word") = src /\ SignBit["long"] \in Nat
    BY <1>1, ValuesAre
  <2> QED
    BY <1>1, <2>1, SignedRange
<1>3. q \in Int /\ r \in RemainderRange(dividend, Size(divisor))
  BY <1>2, QuotientIs
<1>4. o = DivisionFlags(q, r, fits, dst, ccr)
  BY DEF Divs
<1>5. /\ fits => ~o.flags.v /\ o.value = m * Low(r, "word") + Low(q, "word")
      /\ ~fits => o.flags.v /\ o.value = dst
  <2>1. fits \in BOOLEAN
    OBVIOUS
  <2> HIDE DEF fits, q, r
  <2>2. Written(o, q, r, fits, dst)
    BY <1>4, <2>1, QuotientWritten
  <2> QED
    BY <2>2 DEF Written
<1>6. q * divisor \in Int /\ dividend = q * divisor + r /\ r \in Int
  BY <1>2, <1>3
<1> HIDE DEF o, q, r, m, dividend, divisor
<1>7. CASE fits
  <2>1. r \in (0 - B) .. (B - 1)
    BY <1>1, <1>2, <1>3, <1>6 DEF RemainderRange, Size
  <2>2. q \in (0 - B) .. (B - 1)
    BY <1>1, <1>3, <1>7
  <2>3. Signed(q, "word") = q /\ Signed(r, "word") = r /\ Signed(Low(r, "word"), "word") = Signed(r, "word")
    BY <1>1, <1>3, <1>6, <2>1, <2>2, SignedRange
  <2>4. o.value = m * Low(r, "word") + Low(q, "word")
    BY <1>5, <1>7
  <2>5. Signed(o.value, "word") = Signed(q, "word") /\ o.value \div m = Low(r, "word")
    BY <1>3, <1>6, <2>4, RegisterHalves DEF m
  <2>6. ~o.flags.v
    BY <1>5, <1>7
  <2> QED
    BY <1>3, <1>6, <2>3, <2>5, <2>6 DEF o, m, dividend, divisor
<1>8. CASE ~fits
  <2>1. o.flags.v /\ o.value = dst
    BY <1>5, <1>8
  <2>2. ASSUME NEW any \in Values("word")
        PROVE  dividend - Signed(any, "word") * divisor \notin RemainderRange(dividend, Size(divisor))
    <3> DEFINE k == Signed(any, "word")
    <3>1. k \in (0 - B) .. (B - 1)
      BY <1>1, ValuesAre, SignedRange
    <3>2. k \in Int /\ k # q
      BY <1>1, <1>3, <1>8, <3>1
    <3> HIDE DEF k
    <3>3. dividend - k * divisor \notin RemainderRange(dividend, Size(divisor))
      BY <1>2, <1>3, <3>2, QuotientIsUnique DEF r
    <3> QED
      BY <3>3 DEF k
  <2> QED
    BY <2>1, <2>2 DEF o, dividend, divisor
<1> QED
  BY <1>7, <1>8

LEMMA ProductsAre ==
  ASSUME LongIsTwoWords, NEW src \in Values("word"), NEW dst \in Int
  PROVE  /\ Mulu(src, dst, ccr).value = src * Low(dst, "word")
         /\ Signed(Muls(src, dst, ccr).value, "long") = Signed(src, "word") * Signed(dst, "word")
<1> DEFINE B == SignBit["word"]
           L == SignBit["long"]
           a == Low(dst, "word")
           b == Signed(src, "word")
           c == Signed(dst, "word")
<1>1. /\ "word" \in Sizes /\ "long" \in Sizes /\ B \in Nat \ {0} /\ L \in Nat \ {0}
      /\ Modulus("word") = 2 * B /\ Modulus("long") = 2 * L
  BY Widths DEF Sizes
<1>2. L = 2 * (B * B)
  <2>1. 2 * L = (2 * B) * (2 * B)
    BY <1>1 DEF LongIsTwoWords
  <2> HIDE DEF B, L
  <2>2. (2 * B) * (2 * B) = 4 * (B * B) /\ B * B \in Int
    BY <1>1
  <2> QED
    BY <1>1, <2>1, <2>2
<1>3. src \in 0 .. 2 * B - 1 /\ Low(src, "word") = src /\ a \in 0 .. 2 * B - 1
  BY <1>1, ValuesAre, LowIs DEF Values
<1>4. b \in (0 - B) .. (B - 1) /\ c \in (0 - B) .. (B - 1)
  BY <1>1, <1>3, SignedRange
<1>5. Mulu(src, dst, ccr).value = Low(src * a, "long")
  BY <1>3 DEF Mulu, MulFlags, Outcome
<1>6. Muls(src, dst, ccr).value = Low(b * c, "long")
  BY DEF Muls, MulFlags, Outcome
<1> HIDE DEF B, L, a, b, c
<1>7. src * a \in 0 .. 2 * L - 1
  <2>1. src * a \in Int /\ 0 <= src * a
    BY <1>3
  <2>2. src * a <= (2 * B - 1) * (2 * B - 1)
    BY <1>1, <1>3
  <2>3. (2 * B - 1) * (2 * B - 1) < 2 * L
    BY <1>1, <1>2
  <2>4. (2 * B - 1) * (2 * B - 1) \in Int
    BY <1>1
  <2> DEFINE p == src * a
             n == (2 * B - 1) * (2 * B - 1)
  <2>5. p \in Int /\ 0 <= p /\ p <= n /\ n < 2 * L /\ n \in Int
    BY <2>1, <2>2, <2>3, <2>4
  <2> HIDE DEF p, n
  <2>6. p \in 0 .. 2 * L - 1
    BY <1>1, <2>5
  <2> QED
    BY <2>6 DEF p
<1>8. b * c \in (0 - L) .. (L - 1)
  <2>1. b * c \in Int /\ B * B \in Nat \ {0}
    BY <1>1, <1>4
  <2>2. b * c <= B * B /\ 0 - B * B <= b * c
    <3>1. Size(b) \in 0 .. B /\ Size(c) \in 0 .. B
      BY <1>1, <1>4 DEF Size
    <3>2. Size(b) * Size(c) <= B * B /\ Size(b) * Size(c) \in Nat
      BY <1>1, <3>1
    <3>3. b * c = Size(b) * Size(c) \/ b * c = 0 - Size(b) * Size(c)
      BY <1>4 DEF Size
    <3> QED
      BY <2>1, <3>2, <3>3
  <2> DEFINE p == b * c
             n == B * B
  <2>3. p \in Int /\ n \in Nat \ {0} /\ p <= n /\ 0 - n <= p /\ L = 2 * n
    BY <1>2, <2>1, <2>2
  <2> HIDE DEF p, n
  <2>4. p \in (0 - L) .. (L - 1)
    BY <2>3
  <2> QED
    BY <2>4 DEF p
<1>9. Low(src * a, "long") = src * a
  <2>1. src * a \in Values("long") /\ src * a \in Int
    BY <1>1, <1>7 DEF Values
  <2> QED
    BY <1>1, <2>1, LowIs
<1>10. Signed(Low(b * c, "long"), "long") = b * c
  <2>1. b * c \in Int
    BY <1>4
  <2> DEFINE p == b * c
  <2> HIDE DEF p
  <2>2. Signed(Low(p, "long"), "long") = p
    BY <1>1, <1>8, <2>1, SignedRange DEF L, p
  <2> QED
    BY <2>2 DEF p
<1> QED
  BY <1>5, <1>6, <1>9, <1>10 DEF a, b, c

LEMMA DivisionStep ==
  LongIsTwoWords /\ NumberInv /\ DivisionsExact /\ [Next]_vars => DivisionsExact'
<1> SUFFICES ASSUME LongIsTwoWords, NumberInv, DivisionsExact, [Next]_vars PROVE DivisionsExact'
  OBVIOUS
<1>1. ASSUME NEW op, NEW s, NEW src, NEW dst, NEW outcome, Executes(op, s, src, dst, outcome),
             op \notin {"mulu", "muls", "divu", "divs"}
      PROVE  DivisionsExact'
  <2>1. last'.op = op
    BY <1>1, Executed
  <2> QED
    BY <1>1, <2>1 DEF DivisionsExact
<1>2. ASSUME NEW s \in Sizes, NEW src, NEW dst,
             \/ Add(s, src, dst) \/ Sub(s, src, dst) \/ Cmp(s, src, dst) \/ Addx(s, src, dst)
             \/ Subx(s, src, dst) \/ Neg(s, src) \/ Negx(s, src) \/ Tst(s, src)
             \/ Abcd(src, dst) \/ Sbcd(src, dst) \/ Nbcd(src)
      PROVE  DivisionsExact'
  <2>1. CASE Add(s, src, dst) \/ Sub(s, src, dst) \/ Cmp(s, src, dst) \/ Addx(s, src, dst)
    BY <1>1, <2>1 DEF Add, Sub, Cmp, Addx
  <2>2. CASE Subx(s, src, dst) \/ Neg(s, src) \/ Negx(s, src) \/ Tst(s, src)
    BY <1>1, <2>2 DEF Subx, Neg, Negx, Tst
  <2>3. CASE Abcd(src, dst) \/ Sbcd(src, dst) \/ Nbcd(src)
    BY <1>1, <2>3 DEF Abcd, Sbcd, Nbcd
  <2> QED
    BY <1>2, <2>1, <2>2, <2>3
<1>3. ASSUME NEW op \in Shifts, NEW s, NEW count, NEW value, ShiftRotate(op, s, count, value)
      PROVE  DivisionsExact'
  BY <1>1, <1>3 DEF ShiftRotate, Shifts
<1>4. ASSUME NEW src \in Operands["word"], NEW dst \in Operands["long"], Multiply(src, dst) \/ Divide(src, dst)
      PROVE  DivisionsExact'
  <2>1. src \in Values("word") /\ dst \in Values("long") /\ dst \in Int
    BY OperandsAre
  <2>2. CASE Executes("mulu", "long", src, dst, Mulu(src, dst, ccr))
    <3>1. /\ last'.op = "mulu" /\ last'.src = src /\ last'.dst = dst
          /\ last'.res = Mulu(src, dst, ccr).value
      BY <2>2, Executed
    <3>2. last'.res = last'.src * Low(last'.dst, "word")
      BY <2>1, <3>1, ProductsAre
    <3> QED
      BY <3>1, <3>2 DEF DivisionsExact
  <2>3. CASE Executes("muls", "long", src, dst, Muls(src, dst, ccr))
    <3>1. /\ last'.op = "muls" /\ last'.src = src /\ last'.dst = dst
          /\ last'.res = Muls(src, dst, ccr).value
      BY <2>3, Executed
    <3>2. Signed(last'.res, "long") = Signed(last'.src, "word") * Signed(last'.dst, "word")
      BY <2>1, <3>1, ProductsAre
    <3> QED
      BY <3>1, <3>2 DEF DivisionsExact
  <2>4. CASE src # 0 /\ Executes("divu", "long", src, dst, Divu(src, dst, ccr))
    <3>1. /\ last'.op = "divu" /\ last'.src = src /\ last'.dst = dst
          /\ last'.res = Divu(src, dst, ccr).value /\ ccr' = Divu(src, dst, ccr).flags
      BY <2>4, Executed
    <3>2. Low(src, "word") = src /\ Low(dst, "long") = dst /\ ~(src < 0) /\ ~(dst < 0)
      BY <2>1, ValuesAre, OperandsAre
    <3> DEFINE m == Modulus("word")
               size == IF src < 0 THEN 0 - src ELSE src
               range == IF dst < 0 THEN 1 - size .. 0 ELSE 0 .. size - 1
    <3>3. range = 0 .. src - 1
      BY <3>2
    <3>4. IF ccr'.v
          THEN /\ last'.res = dst
               /\ \A any \in Values("word") : dst - Low(any, "word") * src \notin range
          ELSE /\ dst = Low(last'.res, "word") * src + Low(last'.res \div m, "word")
               /\ Low(last'.res \div m, "word") \in range
      BY <2>1, <2>4, <3>1, <3>3, UnsignedQuotients DEF NumberInv
    <3> QED
      BY <3>1, <3>2, <3>4 DEF DivisionsExact
  <2>5. CASE src # 0 /\ Executes("divs", "long", src, dst, Divs(src, dst, ccr))
    <3>1. /\ last'.op = "divs" /\ last'.src = src /\ last'.dst = dst
          /\ last'.res = Divs(src, dst, ccr).value /\ ccr' = Divs(src, dst, ccr).flags
      BY <2>5, Executed
    <3> DEFINE m == Modulus("word")
               dividend == Signed(dst, "long")
               divisor == Signed(src, "word")
               size == IF divisor < 0 THEN 0 - divisor ELSE divisor
               range == IF dividend < 0 THEN 1 - size .. 0 ELSE 0 .. size - 1
    <3>2. RemainderRange(dividend, Size(divisor)) = range
      BY DEF RemainderRange, Size
    <3>3. IF ccr'.v
          THEN /\ last'.res = dst
               /\ \A any \in Values("word") : dividend - Signed(any, "word") * divisor \notin range
          ELSE /\ dividend = Signed(last'.res, "word") * divisor + Signed(last'.res \div m, "word")
               /\ Signed(last'.res \div m, "word") \in range
      BY <2>1, <2>5, <3>1, <3>2, SignedQuotients DEF NumberInv
    <3> QED
      BY <3>1, <3>3 DEF DivisionsExact
  <2> QED
    BY <1>4, <2>2, <2>3, <2>4, <2>5 DEF Multiply, Divide
<1>5. CASE Fetch \/ \E flags \in CCR : SetCcr(flags)
  <2>1. last'.op = "none"
    BY <1>5 DEF Fetch, SetCcr, NoInstruction
  <2> QED
    BY <2>1 DEF DivisionsExact
<1>6. CASE UNCHANGED vars
  BY <1>6 DEF vars, DivisionsExact
<1> QED
  BY <1>2, <1>3, <1>4, <1>5, <1>6 DEF Next, Sizes

(* Products and quotients are exact and a quotient that does not fit is    *)
(* refused, for words of every width and longs of twice that width.        *)
THEOREM DivisionsCorrect ==
  ASSUME LongIsTwoWords
  PROVE  Spec => []DivisionsExact
<1>1. Init => DivisionsExact
  BY DEF Init, NoInstruction, DivisionsExact
<1>2. DivisionsExact /\ NumberInv /\ [Next]_vars => DivisionsExact'
  BY DivisionStep
<1> QED
  BY <1>1, <1>2, NumberInit, NumberStep, PTL DEF Spec
-----------------------------------------------------------------------------
\* Numbers and powers of two.

(* A set of numbers that is not empty has a least element.                 *)
LEMMA LeastElement ==
  ASSUME NEW S \in SUBSET Nat, S # {}
  PROVE  \E x \in S : \A y \in S : x <= y
<1> DEFINE Less == OpToRel(<, Nat)
<1>1. IsWellFoundedOn(Less, Nat)
  BY NatLessThanWellFounded
<1>2. PICK x \in S : \A y \in S : ~(<<y, x>> \in Less)
  <2> HIDE DEF Less
  <2> QED
    BY <1>1, WFMin
<1>3. \A y \in S : x <= y
  <2> SUFFICES ASSUME NEW y \in S PROVE x <= y
    OBVIOUS
  <2>1. ~(<<y, x>> \in Less)
    BY <1>2
  <2>2. x \in Nat /\ y \in Nat
    OBVIOUS
  <2>3. ~(y < x)
    BY <2>1, <2>2 DEF OpToRel
  <2> HIDE DEF Less
  <2> QED
    BY <2>2, <2>3
<1> QED
  BY <1>3

(* Induction over a set of numbers up to a bound.                          *)
LEMMA UpTo ==
  ASSUME NEW N \in Nat, NEW P, 0 \in P, \A n \in 0 .. N - 1 : n \in P => n + 1 \in P
  PROVE  \A n \in 0 .. N : n \in P
<1> DEFINE failing == {n \in 0 .. N : n \notin P}
<1> SUFFICES ASSUME failing # {} PROVE FALSE
  OBVIOUS
<1>1. failing \in SUBSET Nat
  OBVIOUS
<1>2. PICK m \in failing : \A y \in failing : m <= y
  <2> HIDE DEF failing
  <2> QED
    BY <1>1, LeastElement
<1>3. m \in 0 .. N /\ m \notin P
  OBVIOUS
<1>4. m # 0
  BY <1>3
<1>5. m - 1 \in 0 .. N - 1 /\ m - 1 + 1 = m /\ m - 1 \in 0 .. N
  BY <1>3, <1>4
<1>6. m - 1 \notin P
  BY <1>3, <1>5
<1>7. m - 1 \in failing
  BY <1>5, <1>6
<1> QED
  BY <1>2, <1>3, <1>5, <1>7

(* The subsets of one more element: those without it and those with it.    *)
LEMMA Powers ==
  ASSUME NEW n \in Nat
  PROVE  2 ^ n \in Nat \ {0} /\ 2 ^ (n + 1) = 2 * 2 ^ n
<1> DEFINE S == 1 .. n
           T == 1 .. n + 1
           A == SUBSET S
           B == {X \cup {n + 1} : X \in A}
           f == [X \in A |-> X \cup {n + 1}]
<1>1. IsFiniteSet(S) /\ Cardinality(S) = n
  BY FS_Interval
<1>2. IsFiniteSet(T) /\ Cardinality(T) = n + 1
  BY FS_Interval
<1>3. IsFiniteSet(A) /\ Cardinality(A) = 2 ^ n
  BY <1>1, FS_SUBSET
<1>4. Cardinality(SUBSET T) = 2 ^ (n + 1)
  BY <1>2, FS_SUBSET
<1>5. n + 1 \notin S /\ T = S \cup {n + 1}
  OBVIOUS
<1> HIDE DEF S, T
<1>6. f \in Bijection(A, B)
  <2>1. \A X \in A, Y \in A : f[X] = f[Y] => X = Y
    BY <1>5
  <2>2. f \in [A -> B]
    OBVIOUS
  <2>3. \A Y \in B : \E X \in A : f[X] = Y
    OBVIOUS
  <2> HIDE DEF f, A, B
  <2> QED
    BY <2>1, <2>2, <2>3 DEF Bijection, Injection, Surjection, IsInjective
<1>7. IsFiniteSet(B) /\ Cardinality(B) = Cardinality(A)
  <2>1. ExistsBijection(A, B)
    BY <1>6 DEF ExistsBijection
  <2> HIDE DEF A, B
  <2> QED
    BY <1>3, <2>1, FS_Bijection
<1>8. SUBSET T = A \cup B
  <2>1. ASSUME NEW Z \in SUBSET T, n + 1 \in Z PROVE Z \in B
    <3>1. Z \ {n + 1} \in A /\ Z = (Z \ {n + 1}) \cup {n + 1}
      BY <1>5, <2>1
    <3> QED
      BY <3>1
  <2>2. ASSUME NEW Z \in SUBSET T, n + 1 \notin Z PROVE Z \in A
    BY <1>5, <2>2
  <2>3. A \subseteq SUBSET T /\ B \subseteq SUBSET T
    BY <1>5
  <2> HIDE DEF A, B
  <2> QED
    BY <2>1, <2>2, <2>3
<1>9. A \cap B = {}
  BY <1>5
<1>10. Cardinality(A \cup B) = Cardinality(A) + Cardinality(B) - Cardinality(A \cap B)
  <2> HIDE DEF A, B
  <2> QED
    BY <1>3, <1>7, FS_Union
<1>11. Cardinality(A \cap B) = 0
  BY <1>9, FS_EmptySet
<1>12. Cardinality(A) \in Nat /\ Cardinality(A) # 0
  <2>1. {} \in A
    OBVIOUS
  <2> HIDE DEF A
  <2> QED
    BY <1>3, <2>1, FS_CardinalityType, FS_EmptySet
<1> HIDE DEF A, B
<1>13. Cardinality(SUBSET T) = Cardinality(A) + Cardinality(B)
  <2>1. Cardinality(SUBSET T) = Cardinality(A \cup B)
    BY <1>8, Zenon
  <2> QED
    BY <1>7, <1>10, <1>11, <1>12, <2>1
<1>14. 2 ^ n \in Nat /\ 2 ^ n # 0
  BY <1>3, <1>12
<1>15. 2 ^ (n + 1) = 2 ^ n + 2 ^ n
  BY <1>3, <1>4, <1>7, <1>13
<1> QED
  BY <1>14, <1>15

LEMMA PowerZero == 2 ^ 0 = 1
<1>1. Cardinality(SUBSET {}) = 2 ^ Cardinality({})
  BY FS_EmptySet, FS_SUBSET
<1>2. Cardinality({{}}) = 1
  BY FS_Singleton
<1>3. SUBSET {} = {{}}
  OBVIOUS
<1> QED
  BY <1>1, <1>2, <1>3, FS_EmptySet

LEMMA PowerOfSum ==
  ASSUME NEW i \in Nat, NEW j \in Nat
  PROVE  2 ^ (i + j) = 2 ^ i * 2 ^ j
<1> DEFINE P == {n \in 0 .. j : 2 ^ (i + n) = 2 ^ i * 2 ^ n}
<1>1. 0 \in P
  BY Powers, PowerZero
<1>2. ASSUME NEW n \in 0 .. j - 1, n \in P PROVE n + 1 \in P
  <2> DEFINE a == 2 ^ i
             b == 2 ^ n
  <2>1. n \in Nat /\ i + n \in Nat /\ n + 1 \in 0 .. j /\ i + (n + 1) = (i + n) + 1
    OBVIOUS
  <2>2. a \in Nat /\ b \in Nat /\ 2 ^ (i + n) = a * b
    BY <1>2, <2>1, Powers
  <2>3. 2 ^ ((i + n) + 1) = 2 * 2 ^ (i + n) /\ 2 ^ (n + 1) = 2 * b
    BY <2>1, Powers
  <2> HIDE DEF a, b
  <2>4. 2 * (a * b) = a * (2 * b)
    BY <2>2
  <2>5. 2 ^ (i + (n + 1)) = a * 2 ^ (n + 1)
    BY <2>1, <2>2, <2>3, <2>4
  <2> QED
    BY <2>1, <2>5 DEF a
<1>3. \A n \in 0 .. j : n \in P
  <2> HIDE DEF P
  <2> QED
    BY <1>1, <1>2, UpTo
<1> QED
  BY <1>3

\* A size is as wide as its modulus says.
LEMMA ModulusIs ==
  ASSUME NEW s \in Sizes
  PROVE  /\ Bits[s] \in Nat \ {0} /\ 2 ^ Bits[s] = Modulus(s) /\ 2 ^ (Bits[s] + 1) = 2 * Modulus(s)
         /\ SignBit[s] \in Nat \ {0} /\ Modulus(s) = 2 * SignBit[s]
<1>1. Bits[s] \in Nat \ {0} /\ SignBit[s] = 2 ^ (Bits[s] - 1) /\ SignBit[s] \in Nat \ {0}
  BY WidthAssumption
<1> DEFINE b == Bits[s]
<1>2. b - 1 \in Nat /\ (b - 1) + 1 = b /\ b \in Nat
  BY <1>1
<1> HIDE DEF b
<1>3. 2 ^ b = 2 * 2 ^ (b - 1) /\ 2 ^ (b + 1) = 2 * 2 ^ b
  BY <1>2, Powers
<1> QED
  BY <1>1, <1>3 DEF b, Modulus

-----------------------------------------------------------------------------
\* Multiplying and dividing by a power of two, one round at a time.

LEMMA DivMod ==
  ASSUME NEW m \in Nat \ {0}, NEW v \in Int
  PROVE  v = m * (v \div m) + (v % m) /\ v \div m \in Int /\ v % m \in 0 .. m - 1
OBVIOUS

LEMMA Halved ==
  ASSUME NEW v \in Int, NEW k \in Nat \ {0}
  PROVE  (v \div k) \div 2 = v \div (2 * k)
<1> DEFINE a == v \div k
           r == v % k
           c == a \div 2
           d == a % 2
<1>1. v = k * a + r /\ a \in Int /\ r \in 0 .. k - 1
  BY DivMod
<1> HIDE DEF a, r
<1>2. a = 2 * c + d /\ c \in Int /\ d \in {0, 1}
  BY <1>1
<1> HIDE DEF c, d
<1>3. k * a = (2 * k) * c + k * d
  BY <1>2
<1>4. k * d \in {0, k}
  BY <1>2
<1>5. v = (2 * k) * c + (k * d + r) /\ k * d + r \in 0 .. 2 * k - 1
  <2> DEFINE e == k * d
             f == (2 * k) * c
             g == k * a
  <2>1. e \in Int /\ f \in Int /\ g = f + e /\ v = g + r /\ e \in {0, k}
    BY <1>1, <1>2, <1>3, <1>4
  <2> HIDE DEF e, f, g
  <2>2. v = f + (e + r) /\ e + r \in 0 .. 2 * k - 1
    BY <1>1, <2>1
  <2> QED
    BY <2>2 DEF e, f
<1>6. 2 * k \in Nat \ {0}
  OBVIOUS
<1>7. v \div (2 * k) = c
  <2> DEFINE m == 2 * k
             b == k * d + r
  <2>1. m \in Nat \ {0} /\ c \in Int /\ b \in 0 .. m - 1 /\ v = m * c + b
    BY <1>2, <1>5, <1>6
  <2> HIDE DEF m, b
  <2>2. v \div m = c
    BY <2>1, Packed
  <2> QED
    BY <2>2 DEF m
<1> QED
  BY <1>7 DEF a, c

\* Words a multiple of the modulus apart.
LEMMA LowOfMultiple ==
  ASSUME NEW s \in Sizes, NEW a \in Int, NEW t \in Int
  PROVE  Low(a + Modulus(s) * t, s) = Low(a, s)
<1> DEFINE m == Modulus(s)
           q == a \div m
           r == a % m
<1>1. m \in Nat \ {0}
  BY ModulusIs
<1> HIDE DEF m
<1>2. a = m * q + r /\ q \in Int /\ r \in 0 .. m - 1
  BY <1>1, DivMod
<1> HIDE DEF q, r
<1>3. a + m * t = m * (q + t) + r /\ q + t \in Int
  BY <1>1, <1>2
<1>4. (m * (q + t) + r) % m = r
  BY <1>1, <1>2, <1>3, Packed
<1> QED
  BY <1>3, <1>4 DEF Low, m, r

\* A word twice as large, and the bit that leaves it.
LEMMA Doubled ==
  ASSUME NEW s \in Sizes, NEW a \in Int
  PROVE  /\ Low(a, s) \in Values(s) /\ Low(a, s) \in Int
         /\ Low(2 * a, s) = IF Low(a, s) < SignBit[s] THEN 2 * Low(a, s) ELSE 2 * Low(a, s) - Modulus(s)
         /\ Low(2 * Low(a, s), s) = Low(2 * a, s)
         /\ Odd((2 * a) \div Modulus(s)) <=> Low(a, s) >= SignBit[s]
         /\ Negative(Low(a, s), s) <=> Low(a, s) >= SignBit[s]
<1> DEFINE m == Modulus(s)
           h == SignBit[s]
           q == a \div m
           r == a % m
<1>1. m \in Nat \ {0} /\ h \in Nat \ {0} /\ m = 2 * h
  BY ModulusIs
<1> HIDE DEF m, h
<1>2. a = m * q + r /\ q \in Int /\ r \in 0 .. m - 1
  BY <1>1, DivMod
<1>3. Low(a, s) = r
  BY DEF Low, r, m
<1> HIDE DEF q, r
<1>4. r \in Values(s)
  BY <1>2 DEF Values, m
<1>5. Negative(r, s) <=> r >= h
  BY <1>4, ValuesAre DEF h
<1>6. CASE r < h
  <2>1. 2 * a = m * (2 * q) + 2 * r /\ 2 * q \in Int /\ 2 * r \in 0 .. m - 1
    BY <1>1, <1>2, <1>6
  <2>2. (2 * a) % m = 2 * r /\ (2 * a) \div m = 2 * q
    <3> DEFINE b == 2 * r
               c == 2 * q
               d == 2 * a
    <3>1. d = m * c + b /\ c \in Int /\ b \in 0 .. m - 1
      BY <2>1
    <3> HIDE DEF b, c, d
    <3>2. d % m = b /\ d \div m = c
      BY <1>1, <3>1, Packed
    <3> QED
      BY <3>2 DEF b, c, d
  <2>3. (2 * r) % m = 2 * r
    <3> DEFINE b == 2 * r
    <3>1. b \in Int /\ b \in 0 .. m - 1
      BY <1>2, <2>1
    <3> HIDE DEF b
    <3>2. b % m = b
      BY <1>1, <3>1, Remainders
    <3> QED
      BY <3>2 DEF b
  <2>4. ~Odd(2 * q)
    BY <1>2 DEF Odd
  <2>5. Low(2 * a, s) = 2 * r /\ Low(2 * r, s) = 2 * r
    BY <2>2, <2>3 DEF Low, m
  <2>6. ~Odd((2 * a) \div m)
    BY <2>2, <2>4, Zenon
  <2>7. ~(r >= h) /\ ~Negative(r, s) /\ r \in Int
    BY <1>1, <1>2, <1>5, <1>6
  <2>8. Low(2 * a, s) = IF r < h THEN 2 * r ELSE 2 * r - m
    BY <1>6, <2>5
  <2> QED
    BY <1>3, <1>4, <2>5, <2>6, <2>7, <2>8, Zenon DEF h, m
<1>7. CASE ~(r < h)
  <2>1. 2 * a = m * (2 * q + 1) + (2 * r - m) /\ 2 * q + 1 \in Int /\ 2 * r - m \in 0 .. m - 1
    BY <1>1, <1>2, <1>7
  <2>2. (2 * a) % m = 2 * r - m /\ (2 * a) \div m = 2 * q + 1
    <3> DEFINE b == 2 * r - m
               c == 2 * q + 1
               d == 2 * a
    <3>1. d = m * c + b /\ c \in Int /\ b \in 0 .. m - 1
      BY <2>1
    <3> HIDE DEF b, c, d
    <3>2. d % m = b /\ d \div m = c
      BY <1>1, <3>1, Packed
    <3> QED
      BY <3>2 DEF b, c, d
  <2>3. (2 * r) % m = 2 * r - m
    <3>1. 2 * r \in Int
      BY <1>2
    <3> QED
      BY <1>1, <2>1, <3>1, Remainders
  <2>4. Odd(2 * q + 1)
    BY <1>2 DEF Odd
  <2>5. Low(2 * a, s) = 2 * r - m /\ Low(2 * r, s) = 2 * r - m
    BY <2>2, <2>3 DEF Low, m
  <2>6. Odd((2 * a) \div m)
    BY <2>2, <2>4, Zenon
  <2>7. r >= h /\ Negative(r, s) /\ r \in Int
    BY <1>1, <1>2, <1>5, <1>7
  <2>8. Low(2 * a, s) = IF r < h THEN 2 * r ELSE 2 * r - m
    BY <1>7, <2>5
  <2> QED
    BY <1>3, <1>4, <2>5, <2>6, <2>7, <2>8, Zenon DEF h, m
<1> QED
  BY <1>6, <1>7

InRange(p, s) == 0 - SignBit[s] <= p /\ p < SignBit[s]

\* The sign of a number in range, and whether its double is.
LEMMA DoubledInRange ==
  ASSUME NEW s \in Sizes, NEW p \in Int
  PROVE  InRange(2 * p, s) <=>
           InRange(p, s) /\ ((Low(p, s) >= SignBit[s]) = (Low(2 * p, s) >= SignBit[s]))
<1> DEFINE m == Modulus(s)
           h == SignBit[s]
           r == Low(p, s)
           t == Low(2 * p, s)
<1>1. m \in Nat \ {0} /\ h \in Nat \ {0} /\ m = 2 * h
  BY ModulusIs
<1>2. r \in Int /\ t = IF r < h THEN 2 * r ELSE 2 * r - m
  BY Doubled
<1>3. p \in 0 .. m - 1 => r = p
  BY LowIs DEF Values
<1>4. p + m \in 0 .. m - 1 => r = p + m
  BY LowIs DEF Values
<1> HIDE DEF m, h, r, t
<1>5. CASE 0 <= p /\ p < h
  <2>1. r = p /\ t = 2 * p
    BY <1>1, <1>2, <1>3, <1>5
  <2>2. (r >= h) = FALSE /\ ((t >= h) <=> 2 * p >= h)
    BY <1>1, <1>5, <2>1
  <2> QED
    BY <1>1, <1>5, <2>2 DEF InRange, h, r, t
<1>6. CASE 0 - h <= p /\ p < 0
  <2>1. r = p + m
    BY <1>1, <1>4, <1>6
  <2>2. t = 2 * p + m
    BY <1>1, <1>2, <1>6, <2>1
  <2>3. (r >= h) = TRUE /\ ((t >= h) <=> 2 * p >= 0 - h)
    BY <1>1, <1>6, <2>1, <2>2
  <2> QED
    BY <1>1, <1>6, <2>3 DEF InRange, h, r, t
<1>7. CASE ~(0 - h <= p /\ p < h)
  BY <1>1, <1>7 DEF InRange, h
<1> QED
  BY <1>1, <1>5, <1>6, <1>7

\* What is left of a word after i rounds to the left.
LeftStep(r, s) ==
  LET next == Low(2 * r.value, s)
  IN [value |-> next, out |-> Negative(r.value, s),
      changed |-> r.changed \/ Negative(r.value, s) # Negative(next, s)]

LeftAfter(value, i, s) ==
  [value |-> Low(value * 2 ^ i, s), out |-> i > 0 /\ Odd((value * 2 ^ i) \div Modulus(s)),
   changed |-> ~InRange(Signed(value, s) * 2 ^ i, s)]

LEMMA SignedMultiple ==
  ASSUME NEW s \in Sizes, NEW value \in Values(s), NEW k \in Nat
  PROVE  Signed(value, s) \in Int /\ Low(Signed(value, s) * k, s) = Low(value * k, s)
<1> DEFINE v == Signed(value, s)
           m == Modulus(s)
<1>1. m \in Nat \ {0}
  BY ModulusIs
<1>2. value \in Int /\ v \in {value, value - m}
  BY ValuesAre DEF m, Modulus
<1> HIDE DEF v, m
<1>3. value * k \in Int /\ 0 - k \in Int /\ (value - m) * k = value * k + m * (0 - k)
  BY <1>1, <1>2
<1>4. Low(value * k + m * (0 - k), s) = Low(value * k, s)
  <2> DEFINE a == value * k
             t == 0 - k
  <2>1. a \in Int /\ t \in Int
    BY <1>3
  <2> HIDE DEF a, t
  <2>2. Low(a + m * t, s) = Low(a, s)
    BY <2>1, LowOfMultiple DEF m
  <2> QED
    BY <2>2 DEF a, t
<1>5. v * k \in {value * k, value * k + m * (0 - k)}
  BY <1>2, <1>3
<1>6. v \in Int
  BY <1>1, <1>2
<1>7. Low(v * k, s) = Low(value * k, s)
  BY <1>4, <1>5, Zenon
<1> QED
  BY <1>6, <1>7 DEF v

LEMMA LeftStart ==
  ASSUME NEW s \in Sizes, NEW value \in Values(s)
  PROVE  LeftAfter(value, 0, s) = Shifting(value)
<1>1. value \in Int /\ value * 2 ^ 0 = value /\ Low(value, s) = value
  BY PowerZero, ValuesAre
<1>2. Signed(value, s) \in Int /\ Signed(value, s) * 2 ^ 0 = Signed(value, s)
  BY SignedMultiple, PowerZero
<1>3. InRange(Signed(value, s), s)
  BY ValuesAre DEF InRange
<1>4. (0 > 0) = FALSE
  OBVIOUS
<1> DEFINE out == 0 > 0 /\ Odd((value * 2 ^ 0) \div Modulus(s))
           changed == ~InRange(Signed(value, s) * 2 ^ 0, s)
<1>5. out = FALSE
  BY <1>4, Zenon
<1>6. changed = FALSE
  BY <1>2, <1>3, Zenon
<1>7. LeftAfter(value, 0, s) = [value |-> value, out |-> out, changed |-> changed]
  BY <1>1, Zenon DEF LeftAfter
<1> HIDE DEF out, changed
<1> QED
  BY <1>5, <1>6, <1>7, Zenon DEF Shifting

LEMMA LeftOnce ==
  ASSUME NEW s \in Sizes, NEW value \in Values(s), NEW i \in Nat
  PROVE  LeftStep(LeftAfter(value, i, s), s) = LeftAfter(value, i + 1, s)
<1> DEFINE a == value * 2 ^ i
           p == Signed(value, s) * 2 ^ i
           r == LeftAfter(value, i, s)
           t == LeftAfter(value, i + 1, s)
           next == LeftStep(r, s)
<1>1. 2 ^ i \in Nat /\ 2 ^ (i + 1) = 2 * 2 ^ i
  BY Powers
<1>2. value \in Int /\ Signed(value, s) \in Int
  BY ValuesAre, SignedMultiple
<1>3. value * 2 ^ (i + 1) = 2 * a /\ Signed(value, s) * 2 ^ (i + 1) = 2 * p /\ a \in Int /\ p \in Int
  <2> DEFINE k == 2 ^ i
             v == Signed(value, s)
  <2>1. k \in Nat /\ value \in Int /\ v \in Int
    BY <1>1, <1>2
  <2> HIDE DEF k, v
  <2>2. value * (2 * k) = 2 * (value * k) /\ v * (2 * k) = 2 * (v * k) /\ value * k \in Int /\ v * k \in Int
    BY <2>1
  <2> QED
    BY <1>1, <2>2 DEF k, v
<1>4. Low(p, s) = Low(a, s) /\ Low(2 * p, s) = Low(2 * a, s)
  <2>1. Low(p, s) = Low(a, s)
    BY <1>1, SignedMultiple
  <2>2. 2 ^ (i + 1) \in Nat
    BY <1>1
  <2>3. Low(Signed(value, s) * 2 ^ (i + 1), s) = Low(value * 2 ^ (i + 1), s)
    BY <2>2, SignedMultiple
  <2>4. Low(2 * p, s) = Low(2 * a, s)
    <3> HIDE DEF a, p
    <3> QED
      BY <1>3, <2>3, Zenon
  <2> QED
    BY <2>1, <2>4
<1>5. r.value = Low(a, s) /\ r.changed = ~InRange(p, s)
  BY Zenon DEF LeftAfter
<1>6. t = [value |-> Low(2 * a, s), out |-> i + 1 > 0 /\ Odd((2 * a) \div Modulus(s)),
           changed |-> ~InRange(2 * p, s)]
  <2> HIDE DEF a, p
  <2> QED
    BY <1>3, Zenon DEF LeftAfter
<1> HIDE DEF a, p, r, t
<1>7. /\ Low(2 * Low(a, s), s) = Low(2 * a, s)
      /\ Odd((2 * a) \div Modulus(s)) <=> Negative(Low(a, s), s)
      /\ Negative(Low(a, s), s) <=> Low(a, s) >= SignBit[s]
      /\ Negative(Low(2 * a, s), s) <=> Low(2 * a, s) >= SignBit[s]
  <2>1. 2 * a \in Int
    BY <1>3
  <2> QED
    BY <1>3, <2>1, Doubled
<1>8. InRange(2 * p, s) <=>
        InRange(p, s) /\ ((Low(p, s) >= SignBit[s]) = (Low(2 * p, s) >= SignBit[s]))
  BY <1>3, DoubledInRange
<1> DEFINE before == Low(a, s) >= SignBit[s]
           after  == Low(2 * a, s) >= SignBit[s]
<1>9. InRange(2 * p, s) <=> InRange(p, s) /\ (before = after)
  BY <1>4, <1>8, Zenon
<1>10. i + 1 > 0
  OBVIOUS
<1>11. (i + 1 > 0 /\ Odd((2 * a) \div Modulus(s))) = Negative(Low(a, s), s)
  <2>1. Negative(Low(a, s), s) \in BOOLEAN
    BY DEF Negative
  <2> QED
    BY <1>7, <1>10, <2>1, Zenon
<1>12. before \in BOOLEAN /\ after \in BOOLEAN
  OBVIOUS
<1>13. /\ Negative(Low(a, s), s) <=> before
       /\ Negative(Low(2 * a, s), s) <=> after
  BY <1>7
<1>14. Negative(Low(a, s), s) \in BOOLEAN /\ Negative(Low(2 * a, s), s) \in BOOLEAN /\ InRange(2 * p, s) \in BOOLEAN
  BY DEF Negative, InRange
<1> HIDE DEF before, after
<1>15. (r.changed \/ Negative(Low(a, s), s) # Negative(Low(2 * a, s), s)) = ~InRange(2 * p, s)
  BY <1>5, <1>9, <1>12, <1>13, <1>14, Zenon
<1>16. next = [value |-> Low(2 * a, s), out |-> Negative(Low(a, s), s),
               changed |-> r.changed \/ Negative(Low(a, s), s) # Negative(Low(2 * a, s), s)]
  BY <1>5, <1>7, Zenon DEF LeftStep
<1>17. next = t
  BY <1>6, <1>11, <1>15, <1>16, Zenon
<1> QED
  BY <1>17 DEF r, t

\* Two loops that begin with the same and do the same.
LEMMA SameRounds ==
  ASSUME NEW N \in Nat, NEW g, NEW h, g[0] = h[0],
         \A i \in 0 .. N - 1 : g[i] = h[i] => g[i + 1] = h[i + 1]
  PROVE  g[N] = h[N]
<1> DEFINE P == {i \in 0 .. N : g[i] = h[i]}
<1>1. 0 \in P
  OBVIOUS
<1>2. \A i \in 0 .. N - 1 : i \in P => i + 1 \in P
  OBVIOUS
<1>3. \A i \in 0 .. N : i \in P
  <2> HIDE DEF P
  <2> QED
    BY <1>1, <1>2, UpTo
<1> QED
  BY <1>3

LEMMA LeftLoop ==
  ASSUME NEW s \in Sizes, NEW value \in Values(s), NEW count \in Nat
  PROVE  ShiftLeft(value, count, s) = LeftAfter(value, count, s)
<1> DEFINE unfold(f) == [i \in 0 .. count |-> IF i = 0 THEN Shifting(value) ELSE LeftStep(f[i - 1], s)]
           h == [i \in 0 .. count |-> LeftAfter(value, i, s)]
           g == CHOOSE f : f = unfold(f)
<1>1. \A i \in 1 .. count : i - 1 \in Nat /\ i - 1 \in 0 .. count /\ (i - 1) + 1 = i
  OBVIOUS
<1>2. \A i \in 0 .. count : h[i] = IF i = 0 THEN Shifting(value) ELSE LeftStep(h[i - 1], s)
  <2> SUFFICES ASSUME NEW i \in 0 .. count, i # 0 PROVE h[i] = LeftStep(h[i - 1], s)
    BY LeftStart
  <2>1. i \in 1 .. count
    OBVIOUS
  <2>2. h[i] = LeftAfter(value, (i - 1) + 1, s) /\ h[i - 1] = LeftAfter(value, i - 1, s)
    BY <1>1, <2>1
  <2> QED
    BY <1>1, <2>1, <2>2, LeftOnce
<1>3. h = unfold(h)
  <2>1. h = [i \in 0 .. count |-> h[i]]
    OBVIOUS
  <2> HIDE DEF h
  <2> QED
    BY <1>2, <2>1, Zenon
<1>4. g = unfold(g)
  <2> HIDE DEF unfold
  <2> QED
    BY <1>3
<1>5. ShiftLeft(value, count, s) = g[count]
  BY Zenon DEF ShiftLeft, Repeat, LeftStep
<1> HIDE DEF g
<1>6. g[0] = h[0] /\ \A i \in 0 .. count - 1 : g[i + 1] = LeftStep(g[i], s)
  <2>1. 0 \in 0 .. count /\ \A i \in 0 .. count - 1 : i + 1 \in 0 .. count /\ i + 1 # 0 /\ (i + 1) - 1 = i
    OBVIOUS
  <2>2. \A i \in 0 .. count : g[i] = IF i = 0 THEN Shifting(value) ELSE LeftStep(g[i - 1], s)
    BY <1>4, Zenon
  <2> HIDE DEF h
  <2> QED
    BY <1>2, <2>1, <2>2, Zenon
<1>7. \A i \in 0 .. count - 1 : h[i + 1] = LeftStep(h[i], s)
  <2>1. \A i \in 0 .. count - 1 : i + 1 \in 0 .. count /\ i + 1 # 0 /\ (i + 1) - 1 = i
    OBVIOUS
  <2> HIDE DEF h
  <2> QED
    BY <1>2, <2>1, Zenon
<1>8. h[count] = LeftAfter(value, count, s)
  OBVIOUS
<1> HIDE DEF h
<1>9. g[count] = h[count]
  BY <1>6, <1>7, SameRounds
<1> QED
  BY <1>5, <1>8, <1>9

\* Quotients rounded down lie between 0, or -1, and the dividend.
LEMMA QuotientRange ==
  ASSUME NEW v \in Int, NEW k \in Nat \ {0}
  PROVE  /\ v \div k \in Int
         /\ v >= 0 => 0 <= v \div k /\ v \div k <= v
         /\ v < 0 => v <= v \div k /\ v \div k < 0
<1> DEFINE q == v \div k
           r == v % k
<1>1. v = k * q + r /\ q \in Int /\ r \in 0 .. k - 1
  BY DivMod
<1> HIDE DEF q, r
<1>2. q >= 0 => k * q >= q
  BY <1>1
<1>3. q <= 0 - 1 => k * q <= 0 - k
  BY <1>1
<1>4. q + 1 <= 0 => k * (q + 1) <= q + 1
  BY <1>1
<1>5. k * (q + 1) = k * q + k
  BY <1>1
<1> DEFINE n == k * q
<1>6. n \in Int
  BY <1>1
<1>7. /\ v >= 0 => 0 <= q /\ q <= v
      /\ v < 0 => v <= q /\ q < 0
  BY <1>1, <1>2, <1>3, <1>4, <1>5, <1>6
<1> QED
  BY <1>1, <1>7 DEF q

\* What is left of a word after i rounds to the right.
RightStep(r, fill) == [value |-> r.value \div 2 + fill, out |-> Odd(r.value), changed |-> FALSE]

Fill(value, s, arithmetic) == IF arithmetic /\ Negative(value, s) THEN SignBit[s] ELSE 0
Dividend(value, s, arithmetic) == IF arithmetic THEN Signed(value, s) ELSE value

RightAfter(value, i, s, arithmetic) ==
  [value |-> Low(Dividend(value, s, arithmetic) \div 2 ^ i, s),
   out |-> i > 0 /\ Odd(Dividend(value, s, arithmetic) \div 2 ^ (i - 1)), changed |-> FALSE]

LEMMA DividendIs ==
  ASSUME NEW s \in Sizes, NEW value \in Values(s), NEW arithmetic \in BOOLEAN
  PROVE  LET v == Dividend(value, s, arithmetic)
         IN  /\ v \in Int /\ Low(v, s) = value
             /\ \/ 0 <= v /\ v < Modulus(s) /\ Fill(value, s, arithmetic) = 0
                \/ 0 - SignBit[s] <= v /\ v < 0 /\ Fill(value, s, arithmetic) = SignBit[s]
<1> DEFINE v == Dividend(value, s, arithmetic)
<1>1. /\ value \in Int /\ 0 <= value /\ value < 2 * SignBit[s] /\ SignBit[s] \in Nat \ {0}
      /\ Low(value, s) = value /\ (Negative(value, s) <=> value >= SignBit[s])
      /\ Signed(value, s) = IF value >= SignBit[s] THEN value - 2 * SignBit[s] ELSE value
      /\ Modulus(s) = 2 * SignBit[s]
  BY ValuesAre, ModulusIs
<1>2. CASE arithmetic /\ value >= SignBit[s]
  <2>1. v = value - 2 * SignBit[s] /\ Fill(value, s, arithmetic) = SignBit[s]
    BY <1>1, <1>2 DEF Dividend, Fill
  <2>2. v \in Int /\ v + Modulus(s) = value /\ 0 - SignBit[s] <= v /\ v < 0
    <3> HIDE DEF v
    <3> QED
      BY <1>1, <1>2, <2>1
  <2> HIDE DEF v
  <2>3. Low(v, s) = value
    BY <2>2, LowIs
  <2> QED
    BY <2>1, <2>2, <2>3 DEF v
<1>3. CASE ~(arithmetic /\ value >= SignBit[s])
  <2>1. v = value /\ Fill(value, s, arithmetic) = 0
    BY <1>1, <1>3 DEF Dividend, Fill
  <2> QED
    BY <1>1, <2>1
<1> QED
  BY <1>2, <1>3

LEMMA RightStart ==
  ASSUME NEW s \in Sizes, NEW value \in Values(s), NEW arithmetic \in BOOLEAN
  PROVE  RightAfter(value, 0, s, arithmetic) = Shifting(value)
<1> DEFINE v == Dividend(value, s, arithmetic)
           out == 0 > 0 /\ Odd(v \div 2 ^ (0 - 1))
<1>1. v \in Int /\ Low(v, s) = value
  BY DividendIs
<1>2. v \div 2 ^ 0 = v
  <2> HIDE DEF v
  <2>1. v \div 1 = v
    BY <1>1
  <2> QED
    BY <2>1, PowerZero
<1>3. (0 > 0) = FALSE
  OBVIOUS
<1>4. out = FALSE
  BY <1>3, Zenon
<1>5. RightAfter(value, 0, s, arithmetic) = [value |-> Low(v \div 2 ^ 0, s), out |-> out, changed |-> FALSE]
  BY Zenon DEF RightAfter
<1> HIDE DEF out, v
<1> QED
  BY <1>1, <1>2, <1>4, <1>5, Zenon DEF Shifting

LEMMA RightOnce ==
  ASSUME NEW s \in Sizes, NEW value \in Values(s), NEW arithmetic \in BOOLEAN, NEW i \in Nat
  PROVE  RightStep(RightAfter(value, i, s, arithmetic), Fill(value, s, arithmetic)) =
           RightAfter(value, i + 1, s, arithmetic)
<1> DEFINE v == Dividend(value, s, arithmetic)
           k == 2 ^ i
           a == v \div k
           m == Modulus(s)
           h == SignBit[s]
           fill == Fill(value, s, arithmetic)
           r == RightAfter(value, i, s, arithmetic)
           t == RightAfter(value, i + 1, s, arithmetic)
<1>1. m \in Nat \ {0} /\ h \in Nat \ {0} /\ m = 2 * h
  BY ModulusIs
<1>2. /\ v \in Int
      /\ \/ 0 <= v /\ v < m /\ fill = 0
         \/ 0 - h <= v /\ v < 0 /\ fill = h
  BY DividendIs
<1>3. k \in Nat \ {0} /\ 2 ^ (i + 1) = 2 * k
  BY Powers
<1>4. i + 1 > 0 /\ (i + 1) - 1 = i
  OBVIOUS
<1>5. r.value = Low(a, s)
  BY Zenon DEF RightAfter
<1>6. t = [value |-> Low(v \div (2 * k), s), out |-> i + 1 > 0 /\ Odd(a), changed |-> FALSE]
  <2>1. 2 ^ (i + 1) = 2 * k /\ (i + 1) - 1 = i
    BY <1>3, <1>4
  <2> QED
    BY <2>1, Zenon DEF RightAfter
<1> HIDE DEF v, k, m, h, fill, r, t
<1>7. v \div (2 * k) = a \div 2
  BY <1>2, <1>3, Halved
<1>8. /\ a \in Int
      /\ \/ 0 <= a /\ a < m /\ fill = 0
         \/ 0 - h <= a /\ a < 0 /\ fill = h
  BY <1>1, <1>2, <1>3, QuotientRange
<1> HIDE DEF a
<1>9. a \in 0 .. m - 1 => Low(a, s) = a
  BY <1>8, LowIs DEF Values, m
<1>10. a + m \in 0 .. m - 1 => Low(a, s) = a + m
  BY <1>8, LowIs DEF Values, m
<1> DEFINE b == a \div 2
<1>11. b \in Int /\ a - 2 * b \in {0, 1}
  BY <1>8
<1>12. b \in 0 .. m - 1 => Low(b, s) = b
  BY <1>11, LowIs DEF Values, m
<1>13. b + m \in 0 .. m - 1 => Low(b, s) = b + m
  BY <1>11, LowIs DEF Values, m
<1>14. Low(a, s) \div 2 + fill = Low(b, s) /\ (Odd(Low(a, s)) <=> Odd(a))
  <2>1. CASE 0 <= a /\ a < m /\ fill = 0
    <3>1. Low(a, s) = a
      BY <1>1, <1>8, <1>9, <2>1
    <3>2. Low(b, s) = b
      <4> HIDE DEF b
      <4> QED
        BY <1>1, <1>8, <1>11, <1>12, <2>1
    <3> QED
      BY <1>8, <2>1, <3>1, <3>2
  <2>2. CASE 0 - h <= a /\ a < 0 /\ fill = h
    <3>1. Low(a, s) = a + 2 * h
      BY <1>1, <1>8, <1>10, <2>2
    <3>2. Low(b, s) = b + 2 * h
      <4> HIDE DEF b
      <4> QED
        BY <1>1, <1>8, <1>11, <1>13, <2>2
    <3>3. (a + 2 * h) \div 2 = b + h
      BY <1>1, <1>8
    <3>4. Odd(a + 2 * h) <=> Odd(a)
      BY <1>1, <1>8 DEF Odd
    <3>5. (a + 2 * h) \div 2 + fill = b + 2 * h
      <4> HIDE DEF b
      <4> QED
        BY <1>1, <1>11, <2>2, <3>3
    <3> HIDE DEF b
    <3> QED
      BY <3>1, <3>2, <3>4, <3>5, Zenon
  <2> QED
    BY <1>8, <2>1, <2>2
<1>15. RightStep(r, fill) = [value |-> Low(b, s), out |-> Odd(Low(a, s)), changed |-> FALSE]
  <2> HIDE DEF b
  <2> QED
    BY <1>5, <1>14, Zenon DEF RightStep
<1>16. (i + 1 > 0 /\ Odd(a)) = Odd(Low(a, s))
  <2>1. Odd(Low(a, s)) \in BOOLEAN
    BY DEF Odd
  <2> QED
    BY <1>4, <1>14, <2>1, Zenon
<1>17. RightStep(r, fill) = t
  <2>1. t = [value |-> Low(b, s), out |-> i + 1 > 0 /\ Odd(a), changed |-> FALSE]
    BY <1>6, <1>7, Zenon
  <2> HIDE DEF b
  <2> QED
    BY <1>15, <1>16, <2>1, Zenon
<1> QED
  BY <1>17 DEF r, t, fill

LEMMA RightLoop ==
  ASSUME NEW s \in Sizes, NEW value \in Values(s), NEW arithmetic \in BOOLEAN, NEW count \in Nat
  PROVE  ShiftRight(value, count, s, arithmetic) = RightAfter(value, count, s, arithmetic)
<1> DEFINE fill == Fill(value, s, arithmetic)
           unfold(f) == [i \in 0 .. count |-> IF i = 0 THEN Shifting(value) ELSE RightStep(f[i - 1], fill)]
           h == [i \in 0 .. count |-> RightAfter(value, i, s, arithmetic)]
           g == CHOOSE f : f = unfold(f)
<1>1. \A i \in 1 .. count : i - 1 \in Nat /\ i - 1 \in 0 .. count /\ (i - 1) + 1 = i
  OBVIOUS
<1>2. \A i \in 0 .. count : h[i] = IF i = 0 THEN Shifting(value) ELSE RightStep(h[i - 1], fill)
  <2> SUFFICES ASSUME NEW i \in 0 .. count, i # 0 PROVE h[i] = RightStep(h[i - 1], fill)
    BY RightStart
  <2>1. i \in 1 .. count
    OBVIOUS
  <2>2. h[i] = RightAfter(value, (i - 1) + 1, s, arithmetic) /\ h[i - 1] = RightAfter(value, i - 1, s, arithmetic)
    BY <1>1, <2>1
  <2> QED
    BY <1>1, <2>1, <2>2, RightOnce
<1>3. h = unfold(h)
  <2>1. h = [i \in 0 .. count |-> h[i]]
    OBVIOUS
  <2> HIDE DEF h, fill
  <2> QED
    BY <1>2, <2>1, Zenon
<1>4. g = unfold(g)
  <2> HIDE DEF unfold
  <2> QED
    BY <1>3
<1>5. ShiftRight(value, count, s, arithmetic) = g[count]
  BY Zenon DEF ShiftRight, Repeat, RightStep, Fill
<1> HIDE DEF g, fill
<1>6. g[0] = h[0] /\ \A i \in 0 .. count - 1 : g[i + 1] = RightStep(g[i], fill)
  <2>1. 0 \in 0 .. count /\ \A i \in 0 .. count - 1 : i + 1 \in 0 .. count /\ i + 1 # 0 /\ (i + 1) - 1 = i
    OBVIOUS
  <2>2. \A i \in 0 .. count : g[i] = IF i = 0 THEN Shifting(value) ELSE RightStep(g[i - 1], fill)
    BY <1>4, Zenon
  <2> HIDE DEF h
  <2> QED
    BY <1>2, <2>1, <2>2, Zenon
<1>7. \A i \in 0 .. count - 1 : h[i + 1] = RightStep(h[i], fill)
  <2>1. \A i \in 0 .. count - 1 : i + 1 \in 0 .. count /\ i + 1 # 0 /\ (i + 1) - 1 = i
    OBVIOUS
  <2> HIDE DEF h
  <2> QED
    BY <1>2, <2>1, Zenon
<1>8. h[count] = RightAfter(value, count, s, arithmetic)
  OBVIOUS
<1> HIDE DEF h
<1>9. g[count] = h[count]
  BY <1>6, <1>7, SameRounds
<1> QED
  BY <1>5, <1>8, <1>9

-----------------------------------------------------------------------------
\* Rotating a number of width bits.

Turn(u, k, width) == ((u * 2 ^ k) % 2 ^ width) + u \div 2 ^ (width - k)

\* The high bits of u and its low bits, when they change places.
LEMMA TurnIs ==
  ASSUME NEW width \in Nat \ {0}, NEW u \in 0 .. 2 ^ width - 1, NEW k \in 0 .. width
  PROVE  LET j == 2 ^ (width - k)
             q == u \div j
             r == u % j
         IN  /\ j \in Nat \ {0} /\ 2 ^ k \in Nat \ {0} /\ j * 2 ^ k = 2 ^ width
             /\ u \in Int /\ u = j * q + r /\ q \in 0 .. 2 ^ k - 1 /\ r \in 0 .. j - 1
             /\ (u * 2 ^ k) % 2 ^ width = r * 2 ^ k
             /\ r * 2 ^ k \in 0 .. 2 ^ width - 2 ^ k
             /\ Turn(u, k, width) = r * 2 ^ k + q
<1> DEFINE j == 2 ^ (width - k)
           K == 2 ^ k
           M == 2 ^ width
           q == u \div j
           r == u % j
<1>1. width - k \in Nat /\ k \in Nat /\ (width - k) + k = width
  OBVIOUS
<1>2. j \in Nat \ {0} /\ K \in Nat \ {0} /\ M \in Nat \ {0} /\ j * K = M
  <2>1. 2 ^ ((width - k) + k) = 2 ^ (width - k) * 2 ^ k
    BY <1>1, PowerOfSum
  <2>2. j \in Nat \ {0} /\ K \in Nat \ {0} /\ M \in Nat \ {0}
    BY <1>1, Powers
  <2> QED
    BY <1>1, <2>1, <2>2
<1>3. u \in 0 .. M - 1
  OBVIOUS
<1>4. Turn(u, k, width) = ((u * K) % M) + q
  BY Zenon DEF Turn
<1> HIDE DEF j, K, M
<1>5. u \in Int /\ 0 <= u /\ u < M
  BY <1>2, <1>3
<1>6. u = j * q + r /\ q \in Int /\ r \in 0 .. j - 1
  BY <1>2, <1>5, DivMod
<1> HIDE DEF q, r
<1>7. q \in 0 .. K - 1
  <2>1. q >= 0
    <3>1. q <= 0 - 1 => j * q <= 0 - j
      BY <1>2, <1>6
    <3> QED
      BY <1>2, <1>5, <1>6, <3>1
  <2>2. q < K
    <3>1. q >= K => j * q >= j * K
      BY <1>2, <1>6
    <3> QED
      BY <1>2, <1>5, <1>6, <3>1
  <2> QED
    BY <1>2, <1>6, <2>1, <2>2
<1>8. r * K \in Nat /\ r * K <= (j - 1) * K /\ (j - 1) * K = M - K
  BY <1>2, <1>6
<1>9. r * K \in 0 .. M - K /\ r * K \in 0 .. M - 1
  BY <1>2, <1>8
<1>10. u * K = M * q + r * K
  <2>1. u * K = (j * q) * K + r * K /\ (j * q) * K = (j * K) * q
    BY <1>2, <1>6
  <2> QED
    BY <1>2, <2>1
<1>11. (u * K) % M = r * K
  <2> DEFINE b == r * K
             n == u * K
  <2>1. n = M * q + b /\ b \in 0 .. M - 1 /\ q \in Int /\ M \in Nat \ {0}
    BY <1>2, <1>6, <1>9, <1>10
  <2> HIDE DEF b, n
  <2>2. n % M = b
    BY <2>1, Packed
  <2> QED
    BY <2>2 DEF b, n
<1>12. Turn(u, k, width) = r * K + q
  BY <1>4, <1>11, Zenon
<1> QED
  BY <1>2, <1>5, <1>6, <1>7, <1>9, <1>11, <1>12, Zenon DEF j, K, M, q, r

Once(w, h) == IF w >= h THEN 2 * w - 2 * h + 1 ELSE 2 * w
Back(w, h) == IF Odd(w) THEN w \div 2 + h ELSE w \div 2

LEMMA BackOnce ==
  ASSUME NEW h \in Nat \ {0}, NEW w \in 0 .. 2 * h - 1
  PROVE  Once(w, h) \in 0 .. 2 * h - 1 /\ Back(Once(w, h), h) = w
<1>1. w \in Int /\ 0 <= w /\ w < 2 * h
  OBVIOUS
<1>2. CASE w >= h
  <2>1. Once(w, h) = 2 * (w - h) + 1 /\ w - h \in Int
    BY <1>1, <1>2 DEF Once
  <2>2. Odd(2 * (w - h) + 1) /\ (2 * (w - h) + 1) \div 2 = w - h
    BY <2>1 DEF Odd
  <2>3. 2 * (w - h) + 1 \in 0 .. 2 * h - 1 /\ (w - h) + h = w
    BY <1>1, <1>2
  <2> QED
    BY <2>1, <2>2, <2>3 DEF Back
<1>3. CASE ~(w >= h)
  <2>1. Once(w, h) = 2 * w
    BY <1>3 DEF Once
  <2>2. ~Odd(2 * w) /\ (2 * w) \div 2 = w
    BY <1>1 DEF Odd
  <2>3. 2 * w \in 0 .. 2 * h - 1
    BY <1>1, <1>3
  <2> QED
    BY <2>1, <2>2, <2>3 DEF Back
<1> QED
  BY <1>2, <1>3

LEMMA TurnOnce ==
  ASSUME NEW width \in Nat \ {0}, NEW u \in 0 .. 2 ^ width - 1, NEW k \in 0 .. width - 1,
         NEW h \in Nat \ {0}, 2 ^ width = 2 * h
  PROVE  Turn(u, k + 1, width) = Once(Turn(u, k, width), h)
<1> DEFINE K == 2 ^ k
           K2 == 2 ^ (k + 1)
           j == 2 ^ (width - k)
           j2 == 2 ^ (width - (k + 1))
           q == u \div j
           r == u % j
           q2 == u \div j2
           r2 == u % j2
           M == 2 ^ width
           T == Turn(u, k, width)
           T2 == Turn(u, k + 1, width)
<1>1. k \in 0 .. width /\ k + 1 \in 0 .. width /\ k \in Nat
      /\ width - (k + 1) \in Nat /\ (width - (k + 1)) + 1 = width - k
  OBVIOUS
<1>2. K2 = 2 * K /\ j = 2 * j2
  BY <1>1, Powers
<1>3. /\ j \in Nat \ {0} /\ K \in Nat \ {0} /\ j * K = M
      /\ u \in Int /\ u = j * q + r /\ q \in 0 .. K - 1 /\ r \in 0 .. j - 1
      /\ T = r * K + q
  BY <1>1, TurnIs
<1>4. /\ j2 \in Nat \ {0} /\ u = j2 * q2 + r2 /\ q2 \in 0 .. K2 - 1 /\ r2 \in 0 .. j2 - 1
      /\ r2 * K2 \in 0 .. M - K2
      /\ T2 = r2 * K2 + q2
  BY <1>1, TurnIs
<1> DEFINE c == q2 \div 2
           b == q2 % 2
<1>q. q = u \div j /\ r = u % j
  OBVIOUS
<1>m. M = 2 * h
  OBVIOUS
<1> HIDE DEF K, K2, j, j2, q, r, q2, r2, M, T, T2
<1>5. q2 = 2 * c + b /\ c \in Int /\ b \in {0, 1}
  BY <1>3, <1>2, <1>4
<1> HIDE DEF b, c
<1>6. c = q /\ r = b * j2 + r2
  <2>1. j2 * q2 = (2 * j2) * c + b * j2
    BY <1>4, <1>5
  <2>2. b * j2 \in {0, j2}
    BY <1>4, <1>5
  <2> DEFINE e == b * j2
             d == e + r2
  <2>3. u = j * c + d
    <3> DEFINE f == j * c
               g == j2 * q2
    <3>1. f = (2 * j2) * c
      BY <1>2
    <3>2. g = f + e /\ f \in Int /\ e \in Int /\ u = g + r2 /\ r2 \in Int
      BY <1>3, <1>4, <1>5, <2>1, <2>2, <3>1
    <3> HIDE DEF f, g, e
    <3>3. u = f + (e + r2)
      BY <3>2
    <3> QED
      BY <3>3 DEF f
  <2>4. d \in 0 .. j - 1
    <3>1. e \in {0, j2}
      BY <2>2
    <3> HIDE DEF e
    <3> QED
      BY <1>2, <1>4, <3>1
  <2> HIDE DEF d
  <2>5. u \div j = c /\ u % j = d
    BY <1>3, <1>5, <2>3, <2>4, Packed
  <2> QED
    BY <2>5, <1>q DEF d, e
<1> DEFINE t == r2 * K
           e == j2 * K
<1>7. e = h
  <2>1. (2 * j2) * K = 2 * (j2 * K)
    BY <1>3, <1>4
  <2>2. e \in Int
    BY <1>3, <1>4
  <2>3. 2 * e = 2 * h
    BY <1>2, <1>3, <1>m, <2>1
  <2> HIDE DEF e
  <2> QED
    BY <2>2, <2>3
<1>8. t \in Int /\ r2 * K2 = 2 * t
  BY <1>2, <1>3, <1>4
<1>9. r * K = b * e + t
  <2>1. (b * j2 + r2) * K = (b * j2) * K + r2 * K /\ (b * j2) * K = b * (j2 * K)
    BY <1>3, <1>4, <1>5
  <2> QED
    BY <1>6, <2>1
<1>10. b * e \in {0, h} /\ (b = 0 => b * e = 0) /\ (b = 1 => b * e = h)
  BY <1>5, <1>7
<1> HIDE DEF t, e
<1>11. 0 <= t /\ t + K <= h
  BY <1>2, <1>3, <1>4, <1>8, <1>m
<1>12. T2 = 2 * t + (2 * q + b)
  BY <1>4, <1>5, <1>6, <1>8
<1>13. CASE b = 0
  <2>1. T = t + q
    BY <1>3, <1>8, <1>9, <1>10, <1>13
  <2>2. ~(T >= h) /\ T2 = 2 * T
    BY <1>3, <1>8, <1>11, <1>12, <1>13, <2>1
  <2> QED
    BY <2>2 DEF Once, T, T2
<1>14. CASE b = 1
  <2>1. T = (h + t) + q
    BY <1>3, <1>8, <1>9, <1>10, <1>14
  <2>2. T >= h /\ T2 = (2 * T - 2 * h) + 1
    BY <1>3, <1>8, <1>11, <1>12, <1>14, <2>1
  <2> QED
    BY <2>2 DEF Once, T, T2
<1> QED
  BY <1>5, <1>13, <1>14

LEMMA TurnEnds ==
  ASSUME NEW width \in Nat \ {0}, NEW u \in 0 .. 2 ^ width - 1
  PROVE  /\ Turn(u, 0, width) = u /\ Turn(u, width, width) = u
         /\ \A k \in 0 .. width : Turn(u, k, width) \in 0 .. 2 ^ width - 1
<1> DEFINE M == 2 ^ width
<1>1. M \in Nat \ {0} /\ u \in 0 .. M - 1
  BY Powers
<1>2. width - 0 = width /\ width - width = 0 /\ 0 \in 0 .. width /\ width \in 0 .. width
  OBVIOUS
<1>3. Turn(u, 0, width) = ((u * 1) % M) + u \div M
  BY <1>2, PowerZero, Zenon DEF Turn
<1>4. Turn(u, width, width) = ((u * M) % M) + u \div 1
  BY <1>2, PowerZero, Zenon DEF Turn
<1>5. ASSUME NEW k \in 0 .. width PROVE Turn(u, k, width) \in 0 .. M - 1
  <2> DEFINE K == 2 ^ k
             q == u \div 2 ^ (width - k)
             t == (u % 2 ^ (width - k)) * K
  <2>1. K \in Nat \ {0} /\ q \in 0 .. K - 1 /\ t \in 0 .. M - K /\ Turn(u, k, width) = t + q
    BY TurnIs
  <2> HIDE DEF K, q, t
  <2> QED
    BY <1>1, <2>1
<1> HIDE DEF M
<1>6. u * 1 = u /\ u % M = u /\ u \div M = 0 /\ u \div 1 = u /\ u + 0 = u /\ 0 + u = u
  BY <1>1
<1>7. (u * M) % M = 0
  <2> DEFINE n == u * M
  <2>1. n = M * u + 0 /\ u \in Int /\ 0 \in 0 .. M - 1
    BY <1>1
  <2> HIDE DEF n
  <2>2. n % M = 0
    BY <1>1, <2>1, Packed
  <2> QED
    BY <2>2 DEF n
<1> QED
  BY <1>3, <1>4, <1>5, <1>6, <1>7, Zenon DEF M

\* What a rotation does, however often it goes round.
TurnsLeft(u, n, width) == Turn(u, n % width, width)
TurnsRight(u, n, width) == Turn(u, width - (n % width), width)

LEMMA NextPlace ==
  ASSUME NEW width \in Nat \ {0}, NEW n \in Nat
  PROVE  /\ n % width \in 0 .. width - 1
         /\ (n + 1) % width = IF n % width = width - 1 THEN 0 ELSE (n % width) + 1
         /\ (n % width) % width = n % width /\ 0 % width = 0
<1> DEFINE q == n \div width
           k == n % width
<1>1. n = width * q + k /\ q \in Int /\ k \in 0 .. width - 1
  BY DivMod
<1> HIDE DEF q, k
<1>a. k % width = k /\ 0 % width = 0 /\ k \in Int
  BY <1>1, Remainders
<1>2. CASE k = width - 1
  <2>1. n + 1 = width * (q + 1) + 0 /\ q + 1 \in Int /\ 0 \in 0 .. width - 1
    BY <1>1, <1>2
  <2> DEFINE c == n + 1
             d == q + 1
  <2>2. c = width * d + 0 /\ d \in Int
    BY <2>1
  <2> HIDE DEF c, d
  <2>3. c % width = 0
    BY <2>1, <2>2, Packed
  <2> QED
    BY <1>1, <1>2, <1>a, <2>3, Zenon DEF c, k
<1>3. CASE k # width - 1
  <2>1. n + 1 = width * q + (k + 1) /\ k + 1 \in 0 .. width - 1
    BY <1>1, <1>3
  <2> DEFINE c == n + 1
             d == k + 1
  <2>2. c = width * q + d /\ d \in 0 .. width - 1
    BY <2>1
  <2> HIDE DEF c, d
  <2>3. c % width = d
    BY <1>1, <2>2, Packed
  <2> QED
    BY <1>1, <1>3, <1>a, <2>3, Zenon DEF c, d, k
<1> QED
  BY <1>2, <1>3

LEMMA Turning ==
  ASSUME NEW width \in Nat \ {0}, NEW u \in 0 .. 2 ^ width - 1, NEW n \in Nat,
         NEW h \in Nat \ {0}, 2 ^ width = 2 * h
  PROVE  /\ TurnsLeft(u, 0, width) = u /\ TurnsRight(u, 0, width) = u
         /\ TurnsLeft(u, n, width) \in 0 .. 2 * h - 1 /\ TurnsRight(u, n, width) \in 0 .. 2 * h - 1
         /\ TurnsLeft(u, n + 1, width) = Once(TurnsLeft(u, n, width), h)
         /\ TurnsRight(u, n + 1, width) = Back(TurnsRight(u, n, width), h)
<1> DEFINE k == n % width
           k2 == (n + 1) % width
<1>1. k \in 0 .. width - 1 /\ k2 = (IF k = width - 1 THEN 0 ELSE k + 1) /\ 0 % width = 0
  BY NextPlace
<1>2. /\ TurnsLeft(u, n, width) = Turn(u, k, width)
      /\ TurnsLeft(u, n + 1, width) = Turn(u, k2, width)
      /\ TurnsRight(u, n, width) = Turn(u, width - k, width)
      /\ TurnsRight(u, n + 1, width) = Turn(u, width - k2, width)
  BY Zenon DEF TurnsLeft, TurnsRight
<1>3. TurnsLeft(u, 0, width) = u /\ TurnsRight(u, 0, width) = u
  <2>1. width - 0 = width
    OBVIOUS
  <2>2. TurnsLeft(u, 0, width) = Turn(u, 0, width) /\ TurnsRight(u, 0, width) = Turn(u, width, width)
    BY <1>1, <2>1, Zenon DEF TurnsLeft, TurnsRight
  <2>3. Turn(u, 0, width) = u /\ Turn(u, width, width) = u
    BY TurnEnds
  <2> QED
    BY <2>2, <2>3, Zenon
<1> HIDE DEF k, k2
<1>4. k \in 0 .. width /\ width - k \in 0 .. width
  BY <1>1
<1>5. TurnsLeft(u, n, width) \in 0 .. 2 * h - 1 /\ TurnsRight(u, n, width) \in 0 .. 2 * h - 1
  <2>1. Turn(u, k, width) \in 0 .. 2 ^ width - 1 /\ Turn(u, width - k, width) \in 0 .. 2 ^ width - 1
    BY <1>4, TurnEnds
  <2> QED
    BY <1>2, <2>1
<1>6. TurnsLeft(u, n + 1, width) = Once(TurnsLeft(u, n, width), h)
  <2>1. Turn(u, k + 1, width) = Once(Turn(u, k, width), h)
    BY <1>1, TurnOnce
  <2>2. Turn(u, k2, width) = Turn(u, k + 1, width)
    <3>1. CASE k = width - 1
      <4>1. k + 1 = width /\ k2 = 0
        BY <1>1, <3>1
      <4> QED
        BY <4>1, TurnEnds, ZenonT(60)
    <3>2. CASE k # width - 1
      BY <1>1, <3>2
    <3> QED
      BY <3>1, <3>2
  <2> QED
    BY <1>2, <2>1, <2>2, Zenon
<1>7. TurnsRight(u, n + 1, width) = Back(TurnsRight(u, n, width), h)
  <2> DEFINE l == width - (k + 1)
             T == Turn(u, l, width)
  <2>1. l \in 0 .. width - 1 /\ l + 1 = width - k /\ l \in 0 .. width
    BY <1>1
  <2>2. Turn(u, width - k, width) = Once(T, h)
    <3>1. Turn(u, l + 1, width) = Once(Turn(u, l, width), h)
      <4> HIDE DEF l
      <4> QED
        BY <2>1, TurnOnce
    <3> HIDE DEF l
    <3> QED
      BY <2>1, <3>1, Zenon
  <2>3. T \in 0 .. 2 * h - 1
    <3>1. T \in 0 .. 2 ^ width - 1
      <4> HIDE DEF l
      <4> QED
        BY <2>1, TurnEnds
    <3> HIDE DEF T
    <3> QED
      BY <3>1
  <2>4. Turn(u, width - k2, width) = T
    <3>1. CASE k = width - 1
      <4>1. l = 0 /\ width - k2 = width
        BY <1>1, <3>1
      <4> HIDE DEF l
      <4> QED
        BY <4>1, TurnEnds, ZenonT(60)
    <3>2. CASE k # width - 1
      <4>1. width - k2 = l
        BY <1>1, <3>2
      <4> HIDE DEF l
      <4> QED
        BY <4>1, Zenon
    <3> QED
      BY <3>1, <3>2
  <2> HIDE DEF l, T
  <2>5. Back(Once(T, h), h) = T
    BY <2>3, BackOnce
  <2> QED
    BY <1>2, <2>2, <2>4, <2>5, Zenon
<1> QED
  BY <1>3, <1>5, <1>6, <1>7

-----------------------------------------------------------------------------
\* Rotating words, with the extend bit and without.

LEMMA RotatedOnce ==
  ASSUME NEW s \in Sizes, NEW w \in Values(s)
  PROVE  /\ Low(2 * w, s) + BitOf(Negative(w, s)) = Once(w, SignBit[s])
         /\ w \div 2 + BitOf(Odd(w)) * SignBit[s] = Back(w, SignBit[s])
<1> DEFINE h == SignBit[s]
<1>1. /\ w \in Int /\ 0 <= w /\ w < 2 * h /\ h \in Nat \ {0}
      /\ Low(w, s) = w /\ (Negative(w, s) <=> w >= h) /\ Modulus(s) = 2 * h
  BY ValuesAre, ModulusIs
<1>2. Low(2 * w, s) = IF w < h THEN 2 * w ELSE 2 * w - 2 * h
  BY <1>1, Doubled
<1> HIDE DEF h
<1>3. Low(2 * w, s) + BitOf(Negative(w, s)) = Once(w, h)
  <2>1. CASE w >= h
    <3>1. BitOf(Negative(w, s)) = 1 /\ Low(2 * w, s) = 2 * w - 2 * h
      BY <1>1, <1>2, <2>1 DEF BitOf
    <3> QED
      BY <2>1, <3>1 DEF Once
  <2>2. CASE ~(w >= h)
    <3>1. BitOf(Negative(w, s)) = 0 /\ Low(2 * w, s) = 2 * w
      BY <1>1, <1>2, <2>2 DEF BitOf
    <3> QED
      BY <1>1, <2>2, <3>1 DEF Once
  <2> QED
    BY <2>1, <2>2
<1>4. w \div 2 + BitOf(Odd(w)) * h = Back(w, h)
  <2>1. w \div 2 \in Int
    BY <1>1
  <2>2. CASE Odd(w)
    BY <1>1, <2>1, <2>2 DEF BitOf, Back
  <2>3. CASE ~Odd(w)
    BY <1>1, <2>1, <2>3 DEF BitOf, Back
  <2> QED
    BY <2>2, <2>3
<1> QED
  BY <1>3, <1>4 DEF h

\* The word and the extend bit as one number of one bit more.
Extended(value, x, s) == BitOf(x) * Modulus(s) + value
Above(w, s) == w >= Modulus(s)

LEMMA ExtendedIs ==
  ASSUME NEW s \in Sizes, NEW value \in Values(s), NEW x \in BOOLEAN
  PROVE  LET w == Extended(value, x, s)
         IN  w \in 0 .. 2 * Modulus(s) - 1 /\ Low(w, s) = value /\ Above(w, s) = x
<1> DEFINE m == Modulus(s)
           w == Extended(value, x, s)
<1>1. m \in Nat \ {0} /\ value \in Int /\ 0 <= value /\ value < m /\ value \in Values(s)
  BY ValuesAre, ModulusIs
<1>2. CASE x = TRUE
  <2>1. w = m + value
    BY <1>1, <1>2 DEF BitOf, Extended
  <2>2. w \in Int /\ w - m \in Values(s) /\ w - m = value
    BY <1>1, <2>1
  <2>3. w \in 0 .. 2 * m - 1 /\ w >= m
    BY <1>1, <2>1
  <2> HIDE DEF w, m
  <2>4. Low(w, s) = value
    BY <2>2, LowIs DEF m
  <2>5. Above(w, s) = TRUE
    BY <2>3 DEF Above, m
  <2> QED
    BY <1>2, <2>3, <2>4, <2>5, Zenon DEF w, m
<1>3. CASE x = FALSE
  <2>1. w = value
    BY <1>1, <1>3 DEF BitOf, Extended
  <2>2. w \in Int /\ w \in Values(s) /\ w \in 0 .. 2 * m - 1 /\ ~(w >= m)
    BY <1>1, <2>1
  <2> HIDE DEF w, m
  <2>3. Low(w, s) = value
    BY <2>1, <2>2, LowIs
  <2>4. Above(w, s) = FALSE
    BY <2>2 DEF Above, m
  <2> QED
    BY <1>3, <2>2, <2>3, <2>4, Zenon DEF w, m
<1> QED
  BY <1>2, <1>3

LEMMA ExtendedOnce ==
  ASSUME NEW s \in Sizes, NEW w \in 0 .. 2 * Modulus(s) - 1
  PROVE  LET v == Low(w, s)
             x == Above(w, s)
             m == Modulus(s)
         IN  /\ Low(2 * v, s) + BitOf(x) = Low(Once(w, m), s)
             /\ Negative(v, s) = Above(Once(w, m), s)
             /\ v \div 2 + BitOf(x) * SignBit[s] = Low(Back(w, m), s)
             /\ Odd(v) = Above(Back(w, m), s)
<1> DEFINE v == Low(w, s)
           x == Above(w, s)
           e == BitOf(x)
           m == Modulus(s)
           h == SignBit[s]
<1>1. m \in Nat \ {0} /\ h \in Nat \ {0} /\ m = 2 * h
  BY ModulusIs
<1>2. w \in Int /\ 0 <= w /\ w < 2 * m
  BY <1>1
<1>3. v \in Values(s) /\ v = IF w < m THEN w ELSE w - m
  BY <1>2, SumIs
<1>4. /\ v \in Int /\ 0 <= v /\ v < m /\ (Negative(v, s) <=> v >= h)
      /\ Low(v, s) = v
  BY <1>1, <1>3, ValuesAre
<1>5. Low(2 * v, s) = IF v < h THEN 2 * v ELSE 2 * v - m
  BY <1>4, Doubled
<1>6. e \in {0, 1} /\ (x <=> w >= m) /\ (x <=> e = 1)
  BY DEF BitOf, Above
<1> HIDE DEF v, x, e, h, m
<1>7. w = e * m + v /\ e * m \in {0, m} /\ (e = 0 => e * m = 0) /\ (e = 1 => e * m = m)
  BY <1>1, <1>2, <1>3, <1>4, <1>6
<1> DEFINE o == Once(w, m)
<1>8. o = 2 * v + e
  <2>1. CASE e = 1
    BY <1>1, <1>2, <1>4, <1>6, <1>7, <2>1 DEF Once
  <2>2. CASE e = 0
    BY <1>1, <1>2, <1>4, <1>6, <1>7, <2>2 DEF Once
  <2> QED
    BY <1>6, <2>1, <2>2
<1> HIDE DEF o
<1>9. o \in Int /\ 0 <= o /\ o < 2 * m
  BY <1>1, <1>4, <1>6, <1>8
<1>10. Low(o, s) = IF o < m THEN o ELSE o - m
  BY <1>9, SumIs DEF m
<1>11. Low(2 * v, s) + e = Low(o, s) /\ (v >= h <=> o >= m)
  BY <1>1, <1>4, <1>5, <1>6, <1>8, <1>10
<1> DEFINE half == v \div 2
<1>12. half \in Int /\ v - 2 * half \in {0, 1} /\ (Odd(v) <=> v - 2 * half = 1)
  BY <1>4 DEF Odd
<1> DEFINE y == half + e * h
           b == Back(w, m)
<1>13. w \div 2 = y /\ (Odd(w) <=> Odd(v))
  <2>1. CASE e = 0
    <3>1. w = v /\ e * h = 0
      BY <1>1, <1>4, <1>7, <2>1
    <3>2. y = half
      <4> HIDE DEF half
      <4> QED
        BY <1>12, <3>1
    <3> QED
      BY <3>1, <3>2
  <2>2. CASE e = 1
    <3>1. w = v + 2 * h /\ e * h = h
      BY <1>1, <1>4, <1>7, <2>2
    <3>2. (v + 2 * h) \div 2 = half + h
      BY <1>1, <1>4
    <3>3. Odd(v + 2 * h) <=> Odd(v)
      BY <1>1, <1>4 DEF Odd
    <3> HIDE DEF half
    <3> QED
      BY <3>1, <3>2, <3>3, Zenon
  <2> QED
    BY <1>6, <2>1, <2>2
<1> HIDE DEF half
<1>14. e * h \in {0, h} /\ e * h \in Int
  BY <1>1, <1>6
<1>15. y \in Int /\ 0 <= y /\ y < m
  <2> DEFINE t == e * h
  <2>1. t \in {0, h} /\ t \in Int
    BY <1>14
  <2> HIDE DEF t
  <2>2. half + t \in Int /\ 0 <= half + t /\ half + t < m
    BY <1>1, <1>4, <1>12, <2>1
  <2> QED
    BY <2>2 DEF t
<1> HIDE DEF y
<1>16. b = IF Odd(v) THEN y + m ELSE y
  BY <1>13, Zenon DEF Back
<1> HIDE DEF b
<1>17. b \in Int /\ 0 <= b /\ b < 2 * m /\ (Odd(v) <=> b >= m)
  <2>1. CASE Odd(v)
    BY <1>1, <1>15, <1>16, <2>1
  <2>2. CASE ~Odd(v)
    BY <1>1, <1>15, <1>16, <2>2
  <2> QED
    BY <2>1, <2>2
<1>18. Low(b, s) = IF b < m THEN b ELSE b - m
  BY <1>17, SumIs DEF m
<1>19. Low(b, s) = y
  <2>1. CASE Odd(v)
    BY <1>1, <1>15, <1>16, <1>18, <2>1
  <2>2. CASE ~Odd(v)
    BY <1>1, <1>15, <1>16, <1>18, <2>2
  <2> QED
    BY <2>1, <2>2
<1>20. Negative(v, s) = Above(o, s) /\ Odd(v) = Above(b, s)
  <2>1. (Above(o, s) <=> o >= m) /\ (Above(b, s) <=> b >= m) /\ Above(o, s) \in BOOLEAN /\ Above(b, s) \in BOOLEAN
    BY DEF Above, m
  <2>2. Negative(v, s) \in BOOLEAN /\ Odd(v) \in BOOLEAN
    BY DEF Negative, Odd
  <2>3. (Negative(v, s) <=> Above(o, s)) /\ (Odd(v) <=> Above(b, s))
    BY <1>4, <1>11, <1>17, <2>1
  <2> QED
    BY <2>1, <2>2, <2>3, Zenon
<1> QED
  BY <1>11, <1>19, <1>20, Zenon DEF v, x, e, m, h, o, b, y, half

\* A word that has been rotated n times.
Unpacked(w, s) == [value |-> Low(w, s), x |-> Above(w, s)]

RotatedAfter(op, value, n, s, x) ==
  CASE op = "rol"  -> [value |-> TurnsLeft(value, n, Bits[s]), x |-> x]
    [] op = "ror"  -> [value |-> TurnsRight(value, n, Bits[s]), x |-> x]
    [] op = "roxl" -> Unpacked(TurnsLeft(Extended(value, x, s), n, Bits[s] + 1), s)
    [] op = "roxr" -> Unpacked(TurnsRight(Extended(value, x, s), n, Bits[s] + 1), s)

Rotates == {"rol", "ror", "roxl", "roxr"}

LEMMA WordTurns ==
  ASSUME NEW s \in Sizes, NEW value \in Values(s), NEW n \in Nat
  PROVE  /\ TurnsLeft(value, 0, Bits[s]) = value /\ TurnsRight(value, 0, Bits[s]) = value
         /\ TurnsLeft(value, n, Bits[s]) \in Values(s) /\ TurnsRight(value, n, Bits[s]) \in Values(s)
         /\ TurnsLeft(value, n + 1, Bits[s]) = Once(TurnsLeft(value, n, Bits[s]), SignBit[s])
         /\ TurnsRight(value, n + 1, Bits[s]) = Back(TurnsRight(value, n, Bits[s]), SignBit[s])
<1> DEFINE b == Bits[s]
           h == SignBit[s]
<1>1. b \in Nat \ {0} /\ h \in Nat \ {0} /\ 2 ^ b = 2 * h
  BY ModulusIs
<1>2. Values(s) = 0 .. 2 * h - 1
  BY DEF Values, Modulus
<1> HIDE DEF b, h
<1>3. value \in 0 .. 2 ^ b - 1
  BY <1>1, <1>2
<1>4. /\ TurnsLeft(value, 0, b) = value /\ TurnsRight(value, 0, b) = value
      /\ TurnsLeft(value, n, b) \in 0 .. 2 * h - 1 /\ TurnsRight(value, n, b) \in 0 .. 2 * h - 1
      /\ TurnsLeft(value, n + 1, b) = Once(TurnsLeft(value, n, b), h)
      /\ TurnsRight(value, n + 1, b) = Back(TurnsRight(value, n, b), h)
  BY <1>1, <1>3, Turning
<1> QED
  BY <1>2, <1>4, Zenon DEF b, h

LEMMA ExtendedTurns ==
  ASSUME NEW s \in Sizes, NEW u \in 0 .. 2 * Modulus(s) - 1, NEW n \in Nat
  PROVE  LET b == Bits[s] + 1
             m == Modulus(s)
         IN  /\ TurnsLeft(u, 0, b) = u /\ TurnsRight(u, 0, b) = u
             /\ TurnsLeft(u, n, b) \in 0 .. 2 * m - 1 /\ TurnsRight(u, n, b) \in 0 .. 2 * m - 1
             /\ TurnsLeft(u, n + 1, b) = Once(TurnsLeft(u, n, b), m)
             /\ TurnsRight(u, n + 1, b) = Back(TurnsRight(u, n, b), m)
<1> DEFINE b == Bits[s] + 1
           m == Modulus(s)
<1>1. b \in Nat \ {0} /\ m \in Nat \ {0} /\ 2 ^ b = 2 * m
  BY ModulusIs
<1>2. u \in 0 .. 2 * m - 1
  OBVIOUS
<1> HIDE DEF b, m
<1>3. u \in 0 .. 2 ^ b - 1
  BY <1>1, <1>2
<1>4. /\ TurnsLeft(u, 0, b) = u /\ TurnsRight(u, 0, b) = u
      /\ TurnsLeft(u, n, b) \in 0 .. 2 * m - 1 /\ TurnsRight(u, n, b) \in 0 .. 2 * m - 1
      /\ TurnsLeft(u, n + 1, b) = Once(TurnsLeft(u, n, b), m)
      /\ TurnsRight(u, n + 1, b) = Back(TurnsRight(u, n, b), m)
  BY <1>1, <1>3, Turning
<1> QED
  BY <1>4, Zenon DEF b, m

LEMMA RotatedStart ==
  ASSUME NEW op \in Rotates, NEW s \in Sizes, NEW value \in Values(s), NEW x \in BOOLEAN
  PROVE  RotatedAfter(op, value, 0, s, x) = [value |-> value, x |-> x]
<1>1. TurnsLeft(value, 0, Bits[s]) = value /\ TurnsRight(value, 0, Bits[s]) = value
  BY WordTurns
<1> DEFINE u == Extended(value, x, s)
<1>2. u \in 0 .. 2 * Modulus(s) - 1 /\ Low(u, s) = value /\ Above(u, s) = x
  BY ExtendedIs
<1> HIDE DEF u
<1>3. TurnsLeft(u, 0, Bits[s] + 1) = u /\ TurnsRight(u, 0, Bits[s] + 1) = u
  BY <1>2, ExtendedTurns
<1>4. Unpacked(u, s) = [value |-> value, x |-> x]
  BY <1>2, Zenon DEF Unpacked
<1>5. CASE op = "rol"
  BY <1>1, <1>5 DEF RotatedAfter
<1>6. CASE op = "ror"
  BY <1>1, <1>6 DEF RotatedAfter
<1>7. CASE op = "roxl"
  <2>1. RotatedAfter(op, value, 0, s, x) = Unpacked(TurnsLeft(u, 0, Bits[s] + 1), s)
    BY <1>7 DEF RotatedAfter, u
  <2> QED
    BY <1>3, <1>4, <2>1, Zenon
<1>8. CASE op = "roxr"
  <2>1. RotatedAfter(op, value, 0, s, x) = Unpacked(TurnsRight(u, 0, Bits[s] + 1), s)
    BY <1>8 DEF RotatedAfter, u
  <2> QED
    BY <1>3, <1>4, <2>1, Zenon
<1> QED
  BY <1>5, <1>6, <1>7, <1>8 DEF Rotates

LEMMA RotatedNext ==
  ASSUME NEW op \in Rotates, NEW s \in Sizes, NEW value \in Values(s), NEW x \in BOOLEAN, NEW n \in Nat
  PROVE  RotatedAfter(op, value, n + 1, s, x) = RotateOnce(op, RotatedAfter(op, value, n, s, x), s)
<1> DEFINE u == Extended(value, x, s)
           l == TurnsLeft(u, n, Bits[s] + 1)
           r == TurnsRight(u, n, Bits[s] + 1)
           wl == TurnsLeft(value, n, Bits[s])
           wr == TurnsRight(value, n, Bits[s])
           h == SignBit[s]
<1>1. /\ wl \in Values(s) /\ wr \in Values(s)
      /\ TurnsLeft(value, n + 1, Bits[s]) = Once(wl, h)
      /\ TurnsRight(value, n + 1, Bits[s]) = Back(wr, h)
  BY WordTurns
<1>2. /\ l \in 0 .. 2 * Modulus(s) - 1 /\ r \in 0 .. 2 * Modulus(s) - 1
      /\ TurnsLeft(u, n + 1, Bits[s] + 1) = Once(l, Modulus(s))
      /\ TurnsRight(u, n + 1, Bits[s] + 1) = Back(r, Modulus(s))
  <2>1. u \in 0 .. 2 * Modulus(s) - 1
    BY ExtendedIs
  <2> HIDE DEF u
  <2> QED
    BY <2>1, ExtendedTurns
<1>a. \A o : /\ o = "rol" => RotatedAfter(o, value, n, s, x) = [value |-> wl, x |-> x]
             /\ o = "ror" => RotatedAfter(o, value, n, s, x) = [value |-> wr, x |-> x]
             /\ o = "roxl" => RotatedAfter(o, value, n, s, x) = Unpacked(l, s)
             /\ o = "roxr" => RotatedAfter(o, value, n, s, x) = Unpacked(r, s)
  BY DEF RotatedAfter
<1>b. \A o : /\ o = "rol" => RotatedAfter(o, value, n + 1, s, x) = [value |-> TurnsLeft(value, n + 1, Bits[s]), x |-> x]
             /\ o = "ror" => RotatedAfter(o, value, n + 1, s, x) = [value |-> TurnsRight(value, n + 1, Bits[s]), x |-> x]
             /\ o = "roxl" => RotatedAfter(o, value, n + 1, s, x) = Unpacked(TurnsLeft(u, n + 1, Bits[s] + 1), s)
             /\ o = "roxr" => RotatedAfter(o, value, n + 1, s, x) = Unpacked(TurnsRight(u, n + 1, Bits[s] + 1), s)
  BY DEF RotatedAfter
<1>c. \A v, y :
        LET rec == [value |-> v, x |-> y]
        IN  /\ RotateOnce("rol", rec, s) = [value |-> Low(2 * v, s) + BitOf(Negative(v, s)), x |-> y]
            /\ RotateOnce("ror", rec, s) = [value |-> v \div 2 + BitOf(Odd(v)) * SignBit[s], x |-> y]
            /\ RotateOnce("roxl", rec, s) = [value |-> Low(2 * v, s) + BitOf(y), x |-> Negative(v, s)]
            /\ RotateOnce("roxr", rec, s) = [value |-> v \div 2 + BitOf(y) * SignBit[s], x |-> Odd(v)]
  BY DEF RotateOnce
<1> HIDE DEF u, l, r, wl, wr, h
<1>3. CASE op = "rol"
  <2>1. Low(2 * wl, s) + BitOf(Negative(wl, s)) = Once(wl, h)
    BY <1>1, RotatedOnce DEF h
  <2>2. RotatedAfter(op, value, n, s, x) = [value |-> wl, x |-> x]
    BY <1>3, <1>a, Zenon
  <2>3. RotateOnce("rol", [value |-> wl, x |-> x], s) = [value |-> Low(2 * wl, s) + BitOf(Negative(wl, s)), x |-> x]
    BY <1>c, Zenon
  <2> QED
    BY <1>1, <1>b, <2>1, <2>2, <2>3, <1>3, ZenonT(60)
<1>4. CASE op = "ror"
  <2>1. wr \div 2 + BitOf(Odd(wr)) * SignBit[s] = Back(wr, h)
    BY <1>1, RotatedOnce DEF h
  <2>2. RotatedAfter(op, value, n, s, x) = [value |-> wr, x |-> x]
    BY <1>4, <1>a, Zenon
  <2>3. RotateOnce("ror", [value |-> wr, x |-> x], s) = [value |-> wr \div 2 + BitOf(Odd(wr)) * SignBit[s], x |-> x]
    BY <1>c, Zenon
  <2> QED
    BY <1>1, <1>b, <2>1, <2>2, <2>3, <1>4, ZenonT(60)
<1>5. CASE op = "roxl"
  <2>1. /\ Low(2 * Low(l, s), s) + BitOf(Above(l, s)) = Low(Once(l, Modulus(s)), s)
        /\ Negative(Low(l, s), s) = Above(Once(l, Modulus(s)), s)
    BY <1>2, ExtendedOnce
  <2>2. RotateOnce("roxl", Unpacked(l, s), s) = Unpacked(Once(l, Modulus(s)), s)
    <3> DEFINE v == Low(l, s)
               y == Above(l, s)
    <3>1. Unpacked(l, s) = [value |-> v, x |-> y]
      BY Zenon DEF Unpacked
    <3> HIDE DEF v, y
    <3>2. RotateOnce("roxl", [value |-> v, x |-> y], s) = [value |-> Low(2 * v, s) + BitOf(y), x |-> Negative(v, s)]
      BY <1>c, Zenon
    <3>3. Low(2 * v, s) + BitOf(y) = Low(Once(l, Modulus(s)), s) /\ Negative(v, s) = Above(Once(l, Modulus(s)), s)
      BY <2>1, Zenon DEF v, y
    <3> QED
      BY <3>1, <3>2, <3>3, Zenon DEF Unpacked
  <2>3. RotatedAfter(op, value, n, s, x) = Unpacked(l, s)
    BY <1>5, <1>a, Zenon
  <2>4. RotatedAfter(op, value, n + 1, s, x) = Unpacked(TurnsLeft(u, n + 1, Bits[s] + 1), s)
    BY <1>5, <1>b, Zenon
  <2>5. RotatedAfter(op, value, n + 1, s, x) = Unpacked(Once(l, Modulus(s)), s)
    BY <1>2, <2>4, Zenon
  <2> QED
    BY <1>5, <2>2, <2>3, <2>5, Zenon
<1>6. CASE op = "roxr"
  <2>1. /\ Low(r, s) \div 2 + BitOf(Above(r, s)) * SignBit[s] = Low(Back(r, Modulus(s)), s)
        /\ Odd(Low(r, s)) = Above(Back(r, Modulus(s)), s)
    BY <1>2, ExtendedOnce
  <2>2. RotateOnce("roxr", Unpacked(r, s), s) = Unpacked(Back(r, Modulus(s)), s)
    <3> DEFINE v == Low(r, s)
               y == Above(r, s)
    <3>1. Unpacked(r, s) = [value |-> v, x |-> y]
      BY Zenon DEF Unpacked
    <3> HIDE DEF v, y
    <3>2. RotateOnce("roxr", [value |-> v, x |-> y], s) = [value |-> v \div 2 + BitOf(y) * SignBit[s], x |-> Odd(v)]
      BY <1>c, Zenon
    <3>3. v \div 2 + BitOf(y) * SignBit[s] = Low(Back(r, Modulus(s)), s) /\ Odd(v) = Above(Back(r, Modulus(s)), s)
      BY <2>1, Zenon DEF v, y
    <3> QED
      BY <3>1, <3>2, <3>3, Zenon DEF Unpacked
  <2>3. RotatedAfter(op, value, n, s, x) = Unpacked(r, s)
    BY <1>6, <1>a, Zenon
  <2>4. RotatedAfter(op, value, n + 1, s, x) = Unpacked(TurnsRight(u, n + 1, Bits[s] + 1), s)
    BY <1>6, <1>b, Zenon
  <2>5. RotatedAfter(op, value, n + 1, s, x) = Unpacked(Back(r, Modulus(s)), s)
    BY <1>2, <2>4, Zenon
  <2> QED
    BY <1>6, <2>2, <2>3, <2>5, Zenon
<1> QED
  BY <1>3, <1>4, <1>5, <1>6 DEF Rotates

LEMMA RotatedLoop ==
  ASSUME NEW op \in Rotates, NEW s \in Sizes, NEW value \in Values(s), NEW x \in BOOLEAN, NEW count \in Nat
  PROVE  Rotated(op, value, count, s, x) = RotatedAfter(op, value, count, s, x)
<1> DEFINE first == [value |-> value, x |-> x]
           unfold(f) == [i \in 0 .. count |-> IF i = 0 THEN first ELSE RotateOnce(op, f[i - 1], s)]
           h == [i \in 0 .. count |-> RotatedAfter(op, value, i, s, x)]
           g == CHOOSE f : f = unfold(f)
<1>1. \A i \in 1 .. count : i - 1 \in Nat /\ i - 1 \in 0 .. count /\ (i - 1) + 1 = i
  OBVIOUS
<1>2. \A i \in 0 .. count : h[i] = IF i = 0 THEN first ELSE RotateOnce(op, h[i - 1], s)
  <2> SUFFICES ASSUME NEW i \in 0 .. count, i # 0 PROVE h[i] = RotateOnce(op, h[i - 1], s)
    BY RotatedStart
  <2>1. i \in 1 .. count
    OBVIOUS
  <2>2. /\ h[i] = RotatedAfter(op, value, (i - 1) + 1, s, x)
        /\ h[i - 1] = RotatedAfter(op, value, i - 1, s, x)
    BY <1>1, <2>1
  <2> QED
    BY <1>1, <2>1, <2>2, RotatedNext
<1>3. h = unfold(h)
  <2>1. h = [i \in 0 .. count |-> h[i]]
    OBVIOUS
  <2> HIDE DEF h, first
  <2> QED
    BY <1>2, <2>1, Zenon
<1>4. g = unfold(g)
  <2> HIDE DEF unfold
  <2> QED
    BY <1>3
<1>5. Rotated(op, value, count, s, x) = g[count]
  BY Zenon DEF Rotated, Repeat
<1> HIDE DEF g, first
<1>6. g[0] = h[0] /\ \A i \in 0 .. count - 1 : g[i + 1] = RotateOnce(op, g[i], s)
  <2>1. 0 \in 0 .. count /\ \A i \in 0 .. count - 1 : i + 1 \in 0 .. count /\ i + 1 # 0 /\ (i + 1) - 1 = i
    OBVIOUS
  <2>2. \A i \in 0 .. count : g[i] = IF i = 0 THEN first ELSE RotateOnce(op, g[i - 1], s)
    BY <1>4, Zenon
  <2> HIDE DEF h
  <2> QED
    BY <1>2, <2>1, <2>2, Zenon
<1>7. \A i \in 0 .. count - 1 : h[i + 1] = RotateOnce(op, h[i], s)
  <2>1. \A i \in 0 .. count - 1 : i + 1 \in 0 .. count /\ i + 1 # 0 /\ (i + 1) - 1 = i
    OBVIOUS
  <2> HIDE DEF h
  <2> QED
    BY <1>2, <2>1, Zenon
<1>8. h[count] = RotatedAfter(op, value, count, s, x)
  OBVIOUS
<1> HIDE DEF h
<1>9. g[count] = h[count]
  BY <1>6, <1>7, SameRounds
<1> QED
  BY <1>5, <1>8, <1>9

\* The code's own loops, which leave out whole turns.
Carried(w, s) == [value |-> Low(w, s), out |-> Above(w, s), changed |-> FALSE]

RoxlStep(r, s) ==
  [value |-> Low(2 * r.value + BitOf(r.out), s), out |-> Negative(r.value, s), changed |-> FALSE]
RoxrStep(r, s) ==
  [value |-> r.value \div 2 + BitOf(r.out) * SignBit[s], out |-> Odd(r.value), changed |-> FALSE]

OutReplaced(r, y) == [r EXCEPT !.out = y]

LEMMA OutReplacedIs ==
  \A r, v, p, q, y : r = [value |-> v, out |-> p, changed |-> q] =>
                       OutReplaced(r, y) = [value |-> v, out |-> y, changed |-> q]
BY DEF OutReplaced

\* The bit that is shifted in fits below the word.
LEMMA ShiftedIn ==
  ASSUME NEW s \in Sizes, NEW v \in Values(s), NEW b \in BOOLEAN
  PROVE  Low(2 * v + BitOf(b), s) = Low(2 * v, s) + BitOf(b)
<1> DEFINE e == BitOf(b)
           h == SignBit[s]
<1>1. /\ v \in Int /\ 0 <= v /\ v < 2 * h /\ h \in Nat \ {0} /\ Low(v, s) = v /\ Modulus(s) = 2 * h
  BY ValuesAre, ModulusIs
<1>2. e \in {0, 1}
  BY DEF BitOf
<1>3. Low(2 * v, s) = IF v < h THEN 2 * v ELSE 2 * v - 2 * h
  BY <1>1, Doubled
<1> HIDE DEF e
<1> DEFINE o == 2 * v + e
<1>4. o \in Int /\ 0 <= o /\ o < 2 * Modulus(s)
  BY <1>1, <1>2
<1> HIDE DEF o
<1>5. Low(o, s) = IF o < Modulus(s) THEN o ELSE o - Modulus(s)
  BY <1>4, SumIs
<1> HIDE DEF h
<1>6. Low(o, s) = Low(2 * v, s) + e
  <2>1. CASE v < h
    BY <1>1, <1>2, <1>3, <1>5, <2>1 DEF o
  <2>2. CASE ~(v < h)
    BY <1>1, <1>2, <1>3, <1>5, <2>2 DEF o
  <2> QED
    BY <2>1, <2>2
<1> QED
  BY <1>6 DEF o, e

LEMMA CarriedOnce ==
  ASSUME NEW s \in Sizes, NEW w \in 0 .. 2 * Modulus(s) - 1
  PROVE  /\ RoxlStep(Carried(w, s), s) = Carried(Once(w, Modulus(s)), s)
         /\ RoxrStep(Carried(w, s), s) = Carried(Back(w, Modulus(s)), s)
<1> DEFINE v == Low(w, s)
           x == Above(w, s)
           m == Modulus(s)
<1>1. /\ Low(2 * v, s) + BitOf(x) = Low(Once(w, m), s)
      /\ Negative(v, s) = Above(Once(w, m), s)
      /\ v \div 2 + BitOf(x) * SignBit[s] = Low(Back(w, m), s)
      /\ Odd(v) = Above(Back(w, m), s)
  BY ExtendedOnce
<1>2. v \in Values(s) /\ x \in BOOLEAN
  <2>1. w \in Int
    BY ModulusIs
  <2>2. x \in BOOLEAN
    BY DEF Above
  <2> QED
    BY <2>1, <2>2, LowIs
<1>3. Carried(w, s) = [value |-> v, out |-> x, changed |-> FALSE]
  BY Zenon DEF Carried
<1> HIDE DEF v, x, m
<1>4. Low(2 * v + BitOf(x), s) = Low(2 * v, s) + BitOf(x)
  BY <1>2, ShiftedIn
<1>5. RoxlStep(Carried(w, s), s) = [value |-> Low(2 * v + BitOf(x), s), out |-> Negative(v, s), changed |-> FALSE]
  <2>1. \A p, q : RoxlStep([value |-> p, out |-> q, changed |-> FALSE], s) =
                     [value |-> Low(2 * p + BitOf(q), s), out |-> Negative(p, s), changed |-> FALSE]
    BY DEF RoxlStep
  <2> QED
    BY <1>3, <2>1, Zenon
<1>6. RoxrStep(Carried(w, s), s) = [value |-> v \div 2 + BitOf(x) * SignBit[s], out |-> Odd(v), changed |-> FALSE]
  <2>1. \A p, q : RoxrStep([value |-> p, out |-> q, changed |-> FALSE], s) =
                     [value |-> p \div 2 + BitOf(q) * SignBit[s], out |-> Odd(p), changed |-> FALSE]
    BY DEF RoxrStep
  <2> QED
    BY <1>3, <2>1, Zenon
<1>7. RoxlStep(Carried(w, s), s) = Carried(Once(w, m), s)
  BY <1>1, <1>4, <1>5, Zenon DEF Carried
<1>8. RoxrStep(Carried(w, s), s) = Carried(Back(w, m), s)
  BY <1>1, <1>6, Zenon DEF Carried
<1> QED
  BY <1>7, <1>8 DEF m

LEMMA RoxlLoop ==
  ASSUME NEW s \in Sizes, NEW value \in Values(s), NEW x \in BOOLEAN, NEW count \in Nat
  PROVE  Roxl(value, count, s, x) =
           Carried(TurnsLeft(Extended(value, x, s), count, Bits[s] + 1), s)
<1> DEFINE b == Bits[s] + 1
           N == count % b
           u == Extended(value, x, s)
           first == [Shifting(value) EXCEPT !.out = x]
           unfold(f) == [i \in 0 .. N |-> IF i = 0 THEN first ELSE RoxlStep(f[i - 1], s)]
           h == [i \in 0 .. N |-> Carried(TurnsLeft(u, i, b), s)]
           g == CHOOSE f : f = unfold(f)
<1>0. u \in 0 .. 2 * Modulus(s) - 1 /\ Low(u, s) = value /\ Above(u, s) = x
  BY ExtendedIs
<1>b. b \in Nat \ {0}
  BY ModulusIs
<1>n. N \in Nat /\ N % b = N /\ N \in 0 .. N
  <2> HIDE DEF b
  <2>1. count % b \in 0 .. b - 1 /\ (count % b) % b = count % b
    BY <1>b, NextPlace, Zenon
  <2>2. N % b = N
    BY <2>1, Zenon
  <2>3. N \in Nat
    BY <1>b, <2>1
  <2> HIDE DEF N
  <2> QED
    BY <2>2, <2>3
<1>t. /\ TurnsLeft(u, 0, b) = u
      /\ \A i \in Nat : /\ TurnsLeft(u, i, b) \in 0 .. 2 * Modulus(s) - 1
                        /\ TurnsLeft(u, i + 1, b) = Once(TurnsLeft(u, i, b), Modulus(s))
  <2> HIDE DEF u
  <2> QED
    BY <1>0, ExtendedTurns
<1>f. first = Carried(u, s)
  <2> DEFINE no == FALSE
             sh == Shifting(value)
  <2>0. sh = [value |-> value, out |-> no, changed |-> no] /\ no = FALSE
    BY DEF Shifting
  <2>1. first = OutReplaced(sh, x)
    BY DEF OutReplaced
  <2> HIDE DEF no, sh, first
  <2>2. first = [value |-> value, out |-> x, changed |-> no]
    BY <2>0, <2>1, OutReplacedIs
  <2> HIDE DEF u, first
  <2> QED
    BY <1>0, <2>0, <2>2, Zenon DEF Carried
<1>5. Roxl(value, count, s, x) = g[N]
  BY Zenon DEF Roxl, Repeat, RoxlStep, RotationLength
<1> HIDE DEF N, u, b, first
<1>1. \A i \in 1 .. N : i - 1 \in Nat /\ i - 1 \in 0 .. N /\ (i - 1) + 1 = i
  BY <1>n
<1>2. \A i \in 0 .. N : h[i] = IF i = 0 THEN first ELSE RoxlStep(h[i - 1], s)
  <2>1. 0 \in 0 .. N => h[0] = first
    BY <1>t, <1>f
  <2>2. ASSUME NEW i \in 0 .. N, i # 0 PROVE h[i] = RoxlStep(h[i - 1], s)
    <3>1. i \in 1 .. N
      BY <2>2, <1>n
    <3>2. h[i] = Carried(TurnsLeft(u, (i - 1) + 1, b), s) /\ h[i - 1] = Carried(TurnsLeft(u, i - 1, b), s)
      BY <1>1, <3>1
    <3> HIDE DEF h
    <3>3. TurnsLeft(u, (i - 1) + 1, b) = Once(TurnsLeft(u, i - 1, b), Modulus(s))
      BY <1>1, <1>t, <3>1
    <3>4. RoxlStep(Carried(TurnsLeft(u, i - 1, b), s), s) = Carried(Once(TurnsLeft(u, i - 1, b), Modulus(s)), s)
      BY <1>1, <1>t, <3>1, CarriedOnce
    <3> QED
      BY <3>2, <3>3, <3>4, Zenon
  <2> HIDE DEF h
  <2> QED
    BY <2>1, <2>2
<1>3. h = unfold(h)
  <2>1. h = [i \in 0 .. N |-> h[i]]
    OBVIOUS
  <2> HIDE DEF h
  <2> QED
    BY <1>2, <2>1, Zenon
<1>4. g = unfold(g)
  <2> HIDE DEF unfold
  <2> QED
    BY <1>3
<1> HIDE DEF g
<1>z. 0 \in 0 .. N /\ \A i \in 0 .. N - 1 : i + 1 \in 0 .. N /\ i + 1 # 0 /\ (i + 1) - 1 = i
  BY <1>n
<1>6. g[0] = h[0] /\ \A i \in 0 .. N - 1 : g[i + 1] = RoxlStep(g[i], s)
  <2>2. \A i \in 0 .. N : g[i] = IF i = 0 THEN first ELSE RoxlStep(g[i - 1], s)
    BY <1>4, Zenon
  <2> HIDE DEF h
  <2> QED
    BY <1>2, <1>z, <2>2, Zenon
<1>7. \A i \in 0 .. N - 1 : h[i + 1] = RoxlStep(h[i], s)
  <2> HIDE DEF h
  <2> QED
    BY <1>2, <1>z, Zenon
<1>8. h[N] = Carried(TurnsLeft(u, N, b), s)
  BY <1>n
<1> HIDE DEF h
<1>9. g[N] = h[N]
  BY <1>n, <1>6, <1>7, SameRounds
<1>10. TurnsLeft(u, N, b) = TurnsLeft(u, count, b)
  <2>1. N % b = count % b
    BY <1>n DEF N
  <2> QED
    BY <2>1, Zenon DEF TurnsLeft
<1> QED
  BY <1>5, <1>8, <1>9, <1>10, Zenon DEF u, b

LEMMA RoxrLoop ==
  ASSUME NEW s \in Sizes, NEW value \in Values(s), NEW x \in BOOLEAN, NEW count \in Nat
  PROVE  Roxr(value, count, s, x) =
           Carried(TurnsRight(Extended(value, x, s), count, Bits[s] + 1), s)
<1> DEFINE b == Bits[s] + 1
           N == count % b
           u == Extended(value, x, s)
           first == [Shifting(value) EXCEPT !.out = x]
           unfold(f) == [i \in 0 .. N |-> IF i = 0 THEN first ELSE RoxrStep(f[i - 1], s)]
           h == [i \in 0 .. N |-> Carried(TurnsRight(u, i, b), s)]
           g == CHOOSE f : f = unfold(f)
<1>0. u \in 0 .. 2 * Modulus(s) - 1 /\ Low(u, s) = value /\ Above(u, s) = x
  BY ExtendedIs
<1>b. b \in Nat \ {0}
  BY ModulusIs
<1>n. N \in Nat /\ N % b = N /\ N \in 0 .. N
  <2> HIDE DEF b
  <2>1. count % b \in 0 .. b - 1 /\ (count % b) % b = count % b
    BY <1>b, NextPlace, Zenon
  <2>2. N % b = N
    BY <2>1, Zenon
  <2>3. N \in Nat
    BY <1>b, <2>1
  <2> HIDE DEF N
  <2> QED
    BY <2>2, <2>3
<1>t. /\ TurnsRight(u, 0, b) = u
      /\ \A i \in Nat : /\ TurnsRight(u, i, b) \in 0 .. 2 * Modulus(s) - 1
                        /\ TurnsRight(u, i + 1, b) = Back(TurnsRight(u, i, b), Modulus(s))
  <2> HIDE DEF u
  <2> QED
    BY <1>0, ExtendedTurns
<1>f. first = Carried(u, s)
  <2> DEFINE no == FALSE
             sh == Shifting(value)
  <2>0. sh = [value |-> value, out |-> no, changed |-> no] /\ no = FALSE
    BY DEF Shifting
  <2>1. first = OutReplaced(sh, x)
    BY DEF OutReplaced
  <2> HIDE DEF no, sh, first
  <2>2. first = [value |-> value, out |-> x, changed |-> no]
    BY <2>0, <2>1, OutReplacedIs
  <2> HIDE DEF u, first
  <2> QED
    BY <1>0, <2>0, <2>2, Zenon DEF Carried
<1>5. Roxr(value, count, s, x) = g[N]
  BY Zenon DEF Roxr, Repeat, RoxrStep, RotationLength
<1> HIDE DEF N, u, b, first
<1>1. \A i \in 1 .. N : i - 1 \in Nat /\ i - 1 \in 0 .. N /\ (i - 1) + 1 = i
  BY <1>n
<1>2. \A i \in 0 .. N : h[i] = IF i = 0 THEN first ELSE RoxrStep(h[i - 1], s)
  <2>1. 0 \in 0 .. N => h[0] = first
    BY <1>t, <1>f
  <2>2. ASSUME NEW i \in 0 .. N, i # 0 PROVE h[i] = RoxrStep(h[i - 1], s)
    <3>1. i \in 1 .. N
      BY <2>2, <1>n
    <3>2. h[i] = Carried(TurnsRight(u, (i - 1) + 1, b), s) /\ h[i - 1] = Carried(TurnsRight(u, i - 1, b), s)
      BY <1>1, <3>1
    <3> HIDE DEF h
    <3>3. TurnsRight(u, (i - 1) + 1, b) = Back(TurnsRight(u, i - 1, b), Modulus(s))
      BY <1>1, <1>t, <3>1
    <3>4. RoxrStep(Carried(TurnsRight(u, i - 1, b), s), s) = Carried(Back(TurnsRight(u, i - 1, b), Modulus(s)), s)
      BY <1>1, <1>t, <3>1, CarriedOnce
    <3> QED
      BY <3>2, <3>3, <3>4, Zenon
  <2> HIDE DEF h
  <2> QED
    BY <2>1, <2>2
<1>3. h = unfold(h)
  <2>1. h = [i \in 0 .. N |-> h[i]]
    OBVIOUS
  <2> HIDE DEF h
  <2> QED
    BY <1>2, <2>1, Zenon
<1>4. g = unfold(g)
  <2> HIDE DEF unfold
  <2> QED
    BY <1>3
<1> HIDE DEF g
<1>z. 0 \in 0 .. N /\ \A i \in 0 .. N - 1 : i + 1 \in 0 .. N /\ i + 1 # 0 /\ (i + 1) - 1 = i
  BY <1>n
<1>6. g[0] = h[0] /\ \A i \in 0 .. N - 1 : g[i + 1] = RoxrStep(g[i], s)
  <2>2. \A i \in 0 .. N : g[i] = IF i = 0 THEN first ELSE RoxrStep(g[i - 1], s)
    BY <1>4, Zenon
  <2> HIDE DEF h
  <2> QED
    BY <1>2, <1>z, <2>2, Zenon
<1>7. \A i \in 0 .. N - 1 : h[i + 1] = RoxrStep(h[i], s)
  <2> HIDE DEF h
  <2> QED
    BY <1>2, <1>z, Zenon
<1>8. h[N] = Carried(TurnsRight(u, N, b), s)
  BY <1>n
<1> HIDE DEF h
<1>9. g[N] = h[N]
  BY <1>n, <1>6, <1>7, SameRounds
<1>10. TurnsRight(u, N, b) = TurnsRight(u, count, b)
  <2>1. N % b = count % b
    BY <1>n DEF N
  <2> QED
    BY <2>1, Zenon DEF TurnsRight
<1> QED
  BY <1>5, <1>8, <1>9, <1>10, Zenon DEF u, b

LEMMA TurnParity ==
  ASSUME NEW width \in Nat \ {0}, NEW u \in 0 .. 2 ^ width - 1, NEW k \in 1 .. width
  PROVE  Odd(Turn(u, k, width)) <=> Odd(u \div 2 ^ (width - k))
<1> DEFINE K == 2 ^ k
           j == 2 ^ (width - k)
           q == u \div j
           r == u % j
<1>1. k \in 0 .. width /\ k - 1 \in Nat /\ (k - 1) + 1 = k
  OBVIOUS
<1>2. /\ j \in Nat \ {0} /\ K \in Nat \ {0} /\ q \in 0 .. K - 1 /\ r \in 0 .. j - 1
      /\ Turn(u, k, width) = r * K + q
  BY <1>1, TurnIs
<1>3. K = 2 * 2 ^ (k - 1) /\ 2 ^ (k - 1) \in Nat
  BY <1>1, Powers
<1> DEFINE e == 2 ^ (k - 1)
           t == r * e
<1> HIDE DEF e, j, q, r, K
<1>4. t \in Int /\ r * K = 2 * t /\ q \in Int
  <2>1. r * (2 * e) = 2 * (r * e) /\ r * e \in Int
    BY <1>2, <1>3 DEF e
  <2> QED
    BY <1>2, <1>3, <2>1 DEF e
<1> HIDE DEF t
<1>5. Odd(2 * t + q) <=> Odd(q)
  BY <1>4 DEF Odd
<1>6. Turn(u, k, width) = 2 * t + q
  BY <1>2, <1>4, Zenon
<1> QED
  BY <1>5, <1>6, Zenon DEF q, j

LEMMA RolIs ==
  ASSUME NEW s \in Sizes, NEW value \in Values(s), NEW count \in Nat
  PROVE  /\ Rol(value, count, s).value = TurnsLeft(value, count, Bits[s])
         /\ Rol(value, count, s).out <=> Odd(TurnsLeft(value, count, Bits[s]))
<1> DEFINE b == Bits[s]
           k == count % b
           res == Turn(value, k, b)
           old == value \div 2 ^ (b - k)
           out == IF k = 0 THEN Odd(value) ELSE Odd(old)
<1>1. b \in Nat \ {0} /\ 2 ^ b = Modulus(s) /\ Modulus(s) \in Nat \ {0}
  BY ModulusIs
<1>2. value \in 0 .. 2 ^ b - 1
  <2> HIDE DEF b
  <2> QED
    BY <1>1 DEF Values
<1>3. k \in 0 .. b - 1
  <2> HIDE DEF b
  <2> QED
    BY <1>1, NextPlace
<1>4. TurnsLeft(value, count, b) = res
  BY Zenon DEF TurnsLeft
<1>5. Rol(value, count, s).value = Low(value * 2 ^ k, s) + old /\ Rol(value, count, s).out = out
  BY Zenon DEF Rol
<1>6. Low(value * 2 ^ k, s) + old = res
  BY <1>1, Zenon DEF Low, Turn
<1>7. out <=> Odd(res)
  <2> HIDE DEF b, k
  <2>1. CASE k = 0
    <3>1. res = value
      BY <1>1, <1>2, <2>1, TurnEnds
    <3> QED
      BY <2>1, <3>1
  <2>2. CASE k # 0
    <3>1. k \in 1 .. b
      BY <1>1, <1>3, <2>2
    <3>2. Odd(res) <=> Odd(old)
      BY <1>1, <1>2, <3>1, TurnParity
    <3> QED
      BY <2>2, <3>2
  <2> QED
    BY <2>1, <2>2
<1>8. out \in BOOLEAN
  BY DEF Odd
<1> HIDE DEF res, out, old, b, k
<1>9. Rol(value, count, s).value = res /\ Rol(value, count, s).out = out
  BY <1>5, <1>6, Zenon
<1>10. Rol(value, count, s).value = TurnsLeft(value, count, b) /\ (Rol(value, count, s).out <=> Odd(TurnsLeft(value, count, b)))
  BY <1>4, <1>7, <1>9, Zenon
<1> QED
  BY <1>10 DEF b

LEMMA RorIs ==
  ASSUME NEW s \in Sizes, NEW value \in Values(s), NEW count \in Nat
  PROVE  /\ Ror(value, count, s).value = TurnsRight(value, count, Bits[s])
         /\ Ror(value, count, s).out <=> Negative(TurnsRight(value, count, Bits[s]), s)
<1> DEFINE b == Bits[s]
           h == SignBit[s]
           k == count % b
           res == Turn(value, b - k, b)
           old == value \div 2 ^ (k - 1)
           out == IF k = 0 THEN Negative(value, s) ELSE Odd(old)
<1>1. b \in Nat \ {0} /\ 2 ^ b = Modulus(s) /\ Modulus(s) \in Nat \ {0} /\ h \in Nat \ {0} /\ Modulus(s) = 2 * h
  BY ModulusIs
<1>2. value \in 0 .. 2 ^ b - 1
  <2> HIDE DEF b
  <2> QED
    BY <1>1 DEF Values
<1>3. k \in 0 .. b - 1
  <2> HIDE DEF b
  <2> QED
    BY <1>1, NextPlace
<1>4. TurnsRight(value, count, b) = res
  BY Zenon DEF TurnsRight
<1>5. Ror(value, count, s).value = value \div 2 ^ k + Low(value * 2 ^ (b - k), s) /\ Ror(value, count, s).out = out
  BY Zenon DEF Ror
<1>6. value \div 2 ^ k + Low(value * 2 ^ (b - k), s) = res
  <2> DEFINE p == (value * 2 ^ (b - k)) % Modulus(s)
             q == value \div 2 ^ k
  <2>1. b - (b - k) = k
    <3> HIDE DEF b, k
    <3> QED
      BY <1>1, <1>3
  <2>2. res = p + q
    BY <1>1, <2>1, Zenon DEF Turn
  <2>3. p \in Int /\ q \in Int
    <3> HIDE DEF b, k
    <3>1. value \in Int /\ b - k \in Nat /\ k \in Nat
      BY <1>1, <1>2, <1>3
    <3>2. 2 ^ (b - k) \in Nat \ {0} /\ 2 ^ k \in Nat \ {0}
      BY <3>1, Powers
    <3>3. value * 2 ^ (b - k) \in Int
      BY <3>1, <3>2
    <3>4. q \in Int
      BY <3>1, <3>2, DivMod
    <3>5. p \in Int
      BY <1>1, <3>3
    <3> QED
      BY <3>4, <3>5
  <2>4. Low(value * 2 ^ (b - k), s) = p
    BY Zenon DEF Low
  <2> HIDE DEF p, q, res
  <2>5. q + p = res
    BY <2>2, <2>3
  <2> QED
    BY <2>4, <2>5, Zenon DEF q
<1>7. out <=> Negative(res, s)
  <2> HIDE DEF b, k, h
  <2>1. CASE k = 0
    <3>1. b - k = b
      BY <1>1, <2>1
    <3>2. res = value
      BY <1>1, <1>2, <3>1, TurnEnds
    <3> QED
      BY <2>1, <3>2
  <2>2. CASE k # 0
    <3> DEFINE l == b - k
               T == Turn(value, l + 1, b)
    <3>1. l \in 0 .. b - 1 /\ l \in 0 .. b /\ l + 1 \in 1 .. b /\ b - (l + 1) = k - 1
      BY <1>1, <1>3, <2>2
    <3> HIDE DEF l
    <3>2. T = Once(Turn(value, l, b), h)
      BY <1>1, <1>2, <3>1, TurnOnce
    <3>3. Odd(T) <=> Odd(value \div 2 ^ (b - (l + 1)))
      BY <1>1, <1>2, <3>1, TurnParity
    <3>4. Turn(value, l, b) \in 0 .. 2 ^ b - 1
      BY <1>1, <1>2, <3>1, TurnEnds
    <3> DEFINE w == Turn(value, l, b)
    <3>5. w \in Int /\ w \in Values(s)
      BY <1>1, <3>4 DEF Values
    <3> HIDE DEF T, w
    <3>6. Odd(Once(w, h)) <=> w >= h
      <4>1. CASE w >= h
        <5>1. Once(w, h) = 2 * (w - h) + 1 /\ w - h \in Int
          BY <1>1, <3>5, <4>1 DEF Once
        <5>2. Odd(2 * (w - h) + 1)
          BY <5>1 DEF Odd
        <5> QED
          BY <4>1, <5>1, <5>2
      <4>2. CASE ~(w >= h)
        <5>1. Once(w, h) = 2 * w
          BY <4>2 DEF Once
        <5>2. ~Odd(2 * w)
          BY <3>5 DEF Odd
        <5> QED
          BY <4>2, <5>1, <5>2
      <4> QED
        BY <4>1, <4>2
    <3>7. Negative(w, s) <=> w >= h
      BY <3>5, ValuesAre DEF h
    <3>8. Odd(old) <=> Negative(w, s)
      <4>1. old = value \div 2 ^ (b - (l + 1))
        BY <3>1, Zenon
      <4>2. T = Once(w, h)
        BY <3>2 DEF w
      <4> HIDE DEF old
      <4> QED
        BY <3>3, <3>6, <3>7, <4>1, <4>2, Zenon
    <3>9. res = w
      BY Zenon DEF w, l
    <3> HIDE DEF res
    <3> QED
      BY <2>2, <3>8, <3>9
  <2> QED
    BY <2>1, <2>2
<1>8. out \in BOOLEAN
  <2>1. Negative(value, s) \in BOOLEAN /\ Odd(old) \in BOOLEAN
    BY DEF Odd, Negative
  <2> HIDE DEF old
  <2> QED
    BY <2>1, Zenon
<1> HIDE DEF res, out, old, b, k, h
<1>9. Ror(value, count, s).value = res /\ Ror(value, count, s).out = out
  BY <1>5, <1>6, Zenon
<1>10. /\ Ror(value, count, s).value = TurnsRight(value, count, b)
       /\ Ror(value, count, s).out <=> Negative(TurnsRight(value, count, b), s)
  BY <1>4, <1>7, <1>9, Zenon
<1> QED
  BY <1>10 DEF b

-----------------------------------------------------------------------------
\* What each shift computes.

ExactFlags(op, n, s, value, res, flags) ==
  LET product == Signed(value, s) * 2 ^ n
  IN  /\ flags.z = (res = 0) /\ flags.n = (res >= SignBit[s])
      /\ flags.v <=> op = "asl" /\ ~(0 - SignBit[s] <= product /\ product < SignBit[s])

ExactLeft(n, s, value, res, flags) ==
  /\ res = Low(value * 2 ^ n, s)
  /\ flags.c <=> Odd((value * 2 ^ n) \div Modulus(s))

ExactRight(n, s, signed, res, flags) ==
  /\ res = Low(signed \div 2 ^ n, s)
  /\ flags.c <=> n > 0 /\ Odd(signed \div 2 ^ (n - 1))

ExactRotate(op, n, s, rotated, res, flags) ==
  /\ res = rotated.value
  /\ flags.c <=> n > 0 /\ (IF op = "rol" THEN Odd(res) ELSE Negative(res, s))

ExactExtended(rotated, res, flags) ==
  res = rotated.value /\ flags.x = rotated.x /\ flags.c = flags.x

ExactShift(op, n, s, value, x, res, flags) ==
  /\ ExactFlags(op, n, s, value, res, flags)
  /\ op \in {"asl", "lsl"} => ExactLeft(n, s, value, res, flags)
  /\ op \in {"asr", "lsr"} =>
       ExactRight(n, s, IF op = "asr" THEN Signed(value, s) ELSE value, res, flags)
  /\ op \in {"rol", "ror"} => ExactRotate(op, n, s, Rotated(op, value, n, s, x), res, flags)
  /\ op \in {"roxl", "roxr"} => ExactExtended(Rotated(op, value, n, s, x), res, flags)


\* What an outcome of a shift holds; the flags that a shift clears are No.
No == FALSE
Stays(op, x) == op \in {"roxl", "roxr"} /\ x
Writes(o, v0, s, c, x, v) ==
  /\ o.value = v0 /\ o.flags.c = c /\ o.flags.x = x /\ o.flags.v = v
  /\ o.flags.n = Negative(v0, s) /\ o.flags.z = (v0 = 0)

LEMMA ShiftFlagsAre ==
  ASSUME NEW v0, NEW s, NEW c, NEW x, NEW v
  PROVE  Writes(ShiftFlags(v0, s, c, x, v), v0, s, c, x, v)
<1> DEFINE o == ShiftFlags(v0, s, c, x, v)
           n == Negative(v0, s)
           z == v0 = 0
<1>1. o = Outcome(v0, [x |-> x, c |-> c, n |-> n, z |-> z, v |-> v])
  BY DEF ShiftFlags
<1> HIDE DEF n, z, o
<1>2. o.value = v0 /\ o.flags.c = c /\ o.flags.x = x /\ o.flags.v = v /\ o.flags.n = n /\ o.flags.z = z
  BY <1>1 DEF Outcome
<1> QED
  BY <1>2, Zenon DEF Writes, n, z, o

LEMMA StaysPut ==
  ASSUME NEW op, NEW value, NEW s, NEW x
  PROVE  Writes(DoShiftRotate(op, value, 0, s, x), value, s, Stays(op, x), x, No)
<1>1. DoShiftRotate(op, value, 0, s, x) = ShiftFlags(value, s, Stays(op, x), x, No)
  BY DEF DoShiftRotate, Stays, No
<1> QED
  BY <1>1, ShiftFlagsAre

LEMMA Shifted ==
  ASSUME NEW value, NEW count \in Nat, count > 0, NEW s, NEW x, NEW op, op \in {"asl", "lsl", "asr", "lsr"}
  PROVE  LET r == IF op \in {"asl", "lsl"} THEN ShiftLeft(value, count, s)
                  ELSE ShiftRight(value, count, s, op = "asr")
         IN  Writes(DoShiftRotate(op, value, count, s, x), r.value, s, r.out, r.out,
                    IF op = "asl" THEN r.changed ELSE No)
<1> DEFINE r == IF op \in {"asl", "lsl"} THEN ShiftLeft(value, count, s)
                ELSE ShiftRight(value, count, s, op = "asr")
           v == IF op = "asl" THEN r.changed ELSE No
<1>1. ~(count = 0)
  OBVIOUS
<1>2. DoShiftRotate(op, value, count, s, x) = ShiftFlags(r.value, s, r.out, r.out, v)
  BY <1>1 DEF DoShiftRotate, No
<1> HIDE DEF r, v
<1>3. Writes(DoShiftRotate(op, value, count, s, x), r.value, s, r.out, r.out, v)
  BY <1>2, ShiftFlagsAre
<1> QED
  BY <1>3 DEF r, v

LEMMA Turned ==
  ASSUME NEW value, NEW count \in Nat, count > 0, NEW s, NEW x, NEW op, op \in {"rol", "ror"}
  PROVE  LET r == IF op = "rol" THEN Rol(value, count, s) ELSE Ror(value, count, s)
         IN  Writes(DoShiftRotate(op, value, count, s, x), r.value, s, r.out, x, No)
<1> DEFINE r == IF op = "rol" THEN Rol(value, count, s) ELSE Ror(value, count, s)
<1>1. ~(count = 0)
  OBVIOUS
<1>2. DoShiftRotate(op, value, count, s, x) = ShiftFlags(r.value, s, r.out, x, No)
  BY <1>1 DEF DoShiftRotate, No
<1> HIDE DEF r
<1>3. Writes(DoShiftRotate(op, value, count, s, x), r.value, s, r.out, x, No)
  BY <1>2, ShiftFlagsAre
<1> QED
  BY <1>3 DEF r

LEMMA TurnedThrough ==
  ASSUME NEW value, NEW count \in Nat, count > 0, NEW s, NEW x, NEW op, op \in {"roxl", "roxr"}
  PROVE  LET r == IF op = "roxl" THEN Roxl(value, count, s, x) ELSE Roxr(value, count, s, x)
         IN  Writes(DoShiftRotate(op, value, count, s, x), r.value, s, r.out, r.out, No)
<1> DEFINE r == IF op = "roxl" THEN Roxl(value, count, s, x) ELSE Roxr(value, count, s, x)
<1>1. ~(count = 0)
  OBVIOUS
<1>2. DoShiftRotate(op, value, count, s, x) = ShiftFlags(r.value, s, r.out, r.out, No)
  BY <1>1 DEF DoShiftRotate, No
<1> HIDE DEF r
<1>3. Writes(DoShiftRotate(op, value, count, s, x), r.value, s, r.out, r.out, No)
  BY <1>2, ShiftFlagsAre
<1> QED
  BY <1>3 DEF r

\* The flags but for C and X, from the value written.
LEMMA FlagsExact ==
  ASSUME NEW op, NEW n, NEW s \in Sizes, NEW value, NEW o, NEW v0 \in Values(s), NEW c, NEW x, NEW v,
         Writes(o, v0, s, c, x, v),
         v <=> op = "asl" /\ ~InRange(Signed(value, s) * 2 ^ n, s)
  PROVE  ExactFlags(op, n, s, value, o.value, o.flags)
<1>1. Negative(v0, s) = (v0 >= SignBit[s])
  <2>1. Low(v0, s) = v0
    BY ValuesAre
  <2> QED
    BY <2>1, Zenon DEF Negative
<1>2. o.value = v0 /\ o.flags.n = Negative(v0, s) /\ o.flags.z = (v0 = 0)
  BY Zenon DEF Writes
<1>3. o.flags.n = (o.value >= SignBit[s])
  BY <1>1, <1>2, Zenon
<1>4. o.flags.z = (o.value = 0)
  BY <1>2, Zenon
<1>5. o.flags.v <=> op = "asl" /\ ~InRange(Signed(value, s) * 2 ^ n, s)
  BY Zenon DEF Writes
<1> QED
  BY <1>3, <1>4, <1>5, Zenon DEF ExactFlags, InRange

LEMMA LeftFields ==
  ASSUME NEW s \in Sizes, NEW value \in Values(s), NEW count \in Nat, count > 0
  PROVE  LET left == ShiftLeft(value, count, s)
         IN  /\ left.value = Low(value * 2 ^ count, s) /\ left.value \in Values(s)
             /\ left.out \in BOOLEAN /\ (left.out <=> Odd((value * 2 ^ count) \div Modulus(s)))
             /\ left.changed <=> ~InRange(Signed(value, s) * 2 ^ count, s)
<1> DEFINE left == ShiftLeft(value, count, s)
           a == value * 2 ^ count
           low == Low(a, s)
           out == count > 0 /\ Odd(a \div Modulus(s))
           changed == ~InRange(Signed(value, s) * 2 ^ count, s)
<1>1. left = [value |-> low, out |-> out, changed |-> changed]
  BY LeftLoop DEF LeftAfter
<1>2. low \in Values(s)
  <2>1. value \in Int /\ 2 ^ count \in Int
    BY ValuesAre, Powers
  <2>2. a \in Int
    BY <2>1
  <2> HIDE DEF a
  <2> QED
    BY <2>2, LowIs
<1>3. out \in BOOLEAN /\ (out <=> Odd(a \div Modulus(s)))
  OBVIOUS
<1>4. left.value = low /\ left.out = out /\ left.changed = changed
  <2> HIDE DEF left, low, out, changed
  <2> QED
    BY <1>1
<1>5. /\ left.out \in BOOLEAN /\ (left.out <=> Odd(a \div Modulus(s)))
      /\ left.changed <=> changed
  <2> HIDE DEF a, left, changed, out
  <2> QED
    BY <1>3, <1>4, Zenon
<1> QED
  BY <1>2, <1>4, <1>5, Zenon

LEMMA LeftExact ==
  ASSUME NEW op \in {"asl", "lsl"}, NEW s \in Sizes, NEW value \in Values(s), NEW count \in Nat,
         NEW x \in BOOLEAN
  PROVE  LET o == DoShiftRotate(op, value, count, s, x)
         IN  /\ o.value \in Values(s) /\ o.flags.x \in BOOLEAN
             /\ ExactFlags(op, count, s, value, o.value, o.flags)
             /\ ExactLeft(count, s, value, o.value, o.flags)
<1> DEFINE o == DoShiftRotate(op, value, count, s, x)
           a == value * 2 ^ count
           p == Signed(value, s) * 2 ^ count
<1>1. CASE count = 0
  <2>1. Writes(o, value, s, Stays(op, x), x, No)
    BY <1>1, StaysPut
  <2>2. a = value /\ p = Signed(value, s) /\ Low(value, s) = value
    BY <1>1, PowerZero, ValuesAre, SignedMultiple
  <2>3. InRange(p, s)
    BY <2>2, ValuesAre DEF InRange
  <2>4. No <=> op = "asl" /\ ~InRange(p, s)
    BY <2>3 DEF No
  <2> HIDE DEF o
  <2>5. ExactFlags(op, count, s, value, o.value, o.flags)
    BY <2>1, <2>4, FlagsExact
  <2>6. ~Odd(value \div Modulus(s))
    <3>1. value \div Modulus(s) = 0
      BY ValuesAre, ModulusIs
    <3> QED
      BY <3>1 DEF Odd
  <2>7. o.value = value /\ ~o.flags.c /\ o.flags.x = x
    BY <2>1 DEF Writes, Stays
  <2>8. ExactLeft(count, s, value, o.value, o.flags)
    <3>1. o.value = Low(a, s)
      BY <2>2, <2>7, Zenon
    <3>2. o.flags.c <=> Odd(a \div Modulus(s))
      <4> HIDE DEF a
      <4> QED
        BY <2>2, <2>6, <2>7, Zenon
    <3> QED
      BY <3>1, <3>2, Zenon DEF ExactLeft
  <2> QED
    BY <2>5, <2>7, <2>8, Zenon DEF o
<1>2. CASE count > 0
  <2> DEFINE left == ShiftLeft(value, count, s)
             v == IF op = "asl" THEN left.changed ELSE No
  <2>1. Writes(o, left.value, s, left.out, left.out, v)
    BY <1>2, Shifted
  <2>2. /\ left.value = Low(a, s) /\ left.value \in Values(s)
        /\ left.out \in BOOLEAN /\ (left.out <=> Odd(a \div Modulus(s)))
        /\ left.changed <=> ~InRange(p, s)
    BY <1>2, LeftFields
  <2>3. v <=> op = "asl" /\ ~InRange(p, s)
    <3> HIDE DEF left, p
    <3> QED
      BY <2>2 DEF No
  <2> HIDE DEF o, left, v
  <2>4. ExactFlags(op, count, s, value, o.value, o.flags)
    BY <2>1, <2>2, <2>3, FlagsExact
  <2>5. o.value = left.value /\ o.flags.c = left.out /\ o.flags.x = left.out
    BY <2>1, Zenon DEF Writes
  <2>6. ExactLeft(count, s, value, o.value, o.flags)
    BY <2>2, <2>5, Zenon DEF ExactLeft
  <2> QED
    BY <2>2, <2>4, <2>5, <2>6, Zenon DEF o
<1> QED
  BY <1>1, <1>2

LEMMA RightFields ==
  ASSUME NEW s \in Sizes, NEW value \in Values(s), NEW count \in Nat, count > 0,
         NEW arithmetic \in BOOLEAN
  PROVE  LET right == ShiftRight(value, count, s, arithmetic)
             v == Dividend(value, s, arithmetic)
         IN  /\ right.value = Low(v \div 2 ^ count, s) /\ right.value \in Values(s)
             /\ right.out \in BOOLEAN /\ (right.out <=> Odd(v \div 2 ^ (count - 1)))
<1> DEFINE right == ShiftRight(value, count, s, arithmetic)
           v == Dividend(value, s, arithmetic)
           q == v \div 2 ^ count
           low == Low(q, s)
           out == count > 0 /\ Odd(v \div 2 ^ (count - 1))
<1>1. right = [value |-> low, out |-> out, changed |-> FALSE]
  BY RightLoop DEF RightAfter
<1>2. low \in Values(s)
  <2>1. v \in Int /\ 2 ^ count \in Nat \ {0}
    BY DividendIs, Powers
  <2>2. q \in Int
    BY <2>1, QuotientRange
  <2> HIDE DEF q
  <2> QED
    BY <2>2, LowIs
<1>3. out \in BOOLEAN /\ (out <=> Odd(v \div 2 ^ (count - 1)))
  OBVIOUS
<1>4. right.value = low /\ right.out = out
  <2> HIDE DEF right, low, out
  <2> QED
    BY <1>1
<1>5. right.out \in BOOLEAN /\ (right.out <=> Odd(v \div 2 ^ (count - 1)))
  <2> HIDE DEF v, right, out
  <2> QED
    BY <1>3, <1>4, Zenon
<1> QED
  BY <1>2, <1>4, <1>5, Zenon

LEMMA RightExact ==
  ASSUME NEW op \in {"asr", "lsr"}, NEW s \in Sizes, NEW value \in Values(s), NEW count \in Nat,
         NEW x \in BOOLEAN
  PROVE  LET o == DoShiftRotate(op, value, count, s, x)
         IN  /\ o.value \in Values(s) /\ o.flags.x \in BOOLEAN
             /\ ExactFlags(op, count, s, value, o.value, o.flags)
             /\ ExactRight(count, s, IF op = "asr" THEN Signed(value, s) ELSE value, o.value, o.flags)
<1> DEFINE o == DoShiftRotate(op, value, count, s, x)
           arithmetic == op = "asr"
           v == Dividend(value, s, arithmetic)
<1>1. arithmetic \in BOOLEAN
  OBVIOUS
<1>2. v = IF op = "asr" THEN Signed(value, s) ELSE value
  BY Zenon DEF Dividend
<1>3. No <=> op = "asl" /\ ~InRange(Signed(value, s) * 2 ^ count, s)
  BY DEF No
<1>4. v \in Int /\ Low(v, s) = value
  <2> HIDE DEF arithmetic
  <2> QED
    BY <1>1, DividendIs
<1>5. CASE count = 0
  <2>1. Writes(o, value, s, Stays(op, x), x, No)
    BY <1>5, StaysPut
  <2> HIDE DEF o, v
  <2>2. ExactFlags(op, count, s, value, o.value, o.flags)
    BY <2>1, <1>3, FlagsExact
  <2>3. o.value = value /\ ~o.flags.c /\ o.flags.x = x
    BY <2>1 DEF Writes, Stays
  <2>4. v \div 2 ^ count = v
    BY <1>4, <1>5, PowerZero
  <2>5. ExactRight(count, s, v, o.value, o.flags)
    <3>1. o.value = Low(v \div 2 ^ count, s)
      BY <1>4, <2>3, <2>4, Zenon
    <3>2. ~(count > 0)
      BY <1>5
    <3> QED
      BY <2>3, <3>1, <3>2, Zenon DEF ExactRight
  <2> QED
    BY <1>2, <2>2, <2>3, <2>5, Zenon DEF o
<1>6. CASE count > 0
  <2> DEFINE right == ShiftRight(value, count, s, arithmetic)
  <2>1. Writes(o, right.value, s, right.out, right.out, No)
    BY <1>6, Shifted
  <2>2. /\ right.value = Low(v \div 2 ^ count, s) /\ right.value \in Values(s)
        /\ right.out \in BOOLEAN /\ (right.out <=> Odd(v \div 2 ^ (count - 1)))
    <3> HIDE DEF arithmetic
    <3> QED
      BY <1>1, <1>6, RightFields
  <2> HIDE DEF o, right, v
  <2>3. ExactFlags(op, count, s, value, o.value, o.flags)
    BY <2>1, <2>2, <1>3, FlagsExact
  <2>4. o.value = right.value /\ o.flags.c = right.out /\ o.flags.x = right.out
    BY <2>1, Zenon DEF Writes
  <2>5. ExactRight(count, s, v, o.value, o.flags)
    BY <1>6, <2>2, <2>4, Zenon DEF ExactRight
  <2> QED
    BY <1>2, <2>2, <2>3, <2>4, <2>5, Zenon DEF o
<1> QED
  BY <1>5, <1>6

LEMMA RotatedFields ==
  ASSUME NEW op \in Rotates, NEW s \in Sizes, NEW value \in Values(s), NEW x \in BOOLEAN, NEW count \in Nat
  PROVE  LET r == Rotated(op, value, count, s, x)
             w == IF op = "roxl" THEN TurnsLeft(Extended(value, x, s), count, Bits[s] + 1)
                  ELSE TurnsRight(Extended(value, x, s), count, Bits[s] + 1)
         IN  /\ op = "rol" => r.value = TurnsLeft(value, count, Bits[s])
             /\ op = "ror" => r.value = TurnsRight(value, count, Bits[s])
             /\ op \in {"roxl", "roxr"} => r.value = Low(w, s) /\ r.x = Above(w, s)
<1> DEFINE r == Rotated(op, value, count, s, x)
           u == Extended(value, x, s)
           left == TurnsLeft(u, count, Bits[s] + 1)
           right == TurnsRight(u, count, Bits[s] + 1)
<1>1. r = RotatedAfter(op, value, count, s, x)
  BY RotatedLoop
<1>2. \A w : Unpacked(w, s).value = Low(w, s) /\ Unpacked(w, s).x = Above(w, s)
  <2> TAKE w
  <2> DEFINE above == Above(w, s)
  <2>1. Unpacked(w, s) = [value |-> Low(w, s), x |-> above]
    BY DEF Unpacked
  <2> HIDE DEF above
  <2>2. Unpacked(w, s).value = Low(w, s) /\ Unpacked(w, s).x = above
    BY <2>1
  <2> QED
    BY <2>2 DEF above
<1> HIDE DEF r, left, right, u
<1>3. CASE op = "rol"
  <2>1. r = [value |-> TurnsLeft(value, count, Bits[s]), x |-> x]
    BY <1>1, <1>3 DEF RotatedAfter
  <2>2. r.value = TurnsLeft(value, count, Bits[s])
    BY <2>1
  <2> QED
    BY <1>3, <2>2 DEF r
<1>4. CASE op = "ror"
  <2>1. r = [value |-> TurnsRight(value, count, Bits[s]), x |-> x]
    BY <1>1, <1>4 DEF RotatedAfter
  <2>2. r.value = TurnsRight(value, count, Bits[s])
    BY <2>1
  <2> QED
    BY <1>4, <2>2 DEF r
<1>5. CASE op = "roxl"
  <2>1. r = Unpacked(left, s)
    BY <1>1, <1>5 DEF RotatedAfter, left, u
  <2>2. r.value = Low(left, s) /\ r.x = Above(left, s)
    BY <1>2, <2>1, Zenon
  <2> QED
    BY <1>5, <2>2 DEF r, left, u
<1>6. CASE op = "roxr"
  <2>1. r = Unpacked(right, s)
    BY <1>1, <1>6 DEF RotatedAfter, right, u
  <2>2. r.value = Low(right, s) /\ r.x = Above(right, s)
    BY <1>2, <2>1, Zenon
  <2> QED
    BY <1>6, <2>2 DEF r, right, u
<1> QED
  BY <1>3, <1>4, <1>5, <1>6 DEF Rotates

LEMMA RotateExact ==
  ASSUME NEW op \in {"rol", "ror"}, NEW s \in Sizes, NEW value \in Values(s), NEW count \in Nat,
         NEW x \in BOOLEAN
  PROVE  LET o == DoShiftRotate(op, value, count, s, x)
         IN  /\ o.value \in Values(s) /\ o.flags.x \in BOOLEAN
             /\ ExactFlags(op, count, s, value, o.value, o.flags)
             /\ ExactRotate(op, count, s, Rotated(op, value, count, s, x), o.value, o.flags)
<1> DEFINE o == DoShiftRotate(op, value, count, s, x)
           rotated == Rotated(op, value, count, s, x)
           turned == IF op = "rol" THEN TurnsLeft(value, count, Bits[s]) ELSE TurnsRight(value, count, Bits[s])
           bit == IF op = "rol" THEN Odd(turned) ELSE Negative(turned, s)
<1>1. rotated.value = turned
  BY RotatedFields DEF Rotates
<1>2. turned \in Values(s) /\ (count = 0 => turned = value)
  BY WordTurns
<1>3. No <=> op = "asl" /\ ~InRange(Signed(value, s) * 2 ^ count, s)
  BY DEF No
<1>4. CASE count = 0
  <2>1. Writes(o, value, s, Stays(op, x), x, No)
    BY <1>4, StaysPut
  <2> HIDE DEF o, rotated, turned
  <2>2. ExactFlags(op, count, s, value, o.value, o.flags)
    BY <2>1, <1>3, FlagsExact
  <2>3. o.value = value /\ ~o.flags.c /\ o.flags.x = x
    BY <2>1 DEF Writes, Stays
  <2>4. ~(count > 0)
    BY <1>4
  <2>5. ExactRotate(op, count, s, rotated, o.value, o.flags)
    BY <1>1, <1>2, <1>4, <2>3, <2>4, Zenon DEF ExactRotate
  <2> QED
    BY <2>2, <2>3, <2>5, Zenon DEF o, rotated
<1>5. CASE count > 0
  <2> DEFINE r == IF op = "rol" THEN Rol(value, count, s) ELSE Ror(value, count, s)
  <2>1. Writes(o, r.value, s, r.out, x, No)
    BY <1>5, Turned
  <2>2. r.value = turned /\ (r.out <=> bit)
    BY RolIs, RorIs
  <2> HIDE DEF o, rotated, turned, r
  <2>3. ExactFlags(op, count, s, value, o.value, o.flags)
    BY <1>2, <1>3, <2>1, <2>2, FlagsExact
  <2>4. o.value = r.value /\ o.flags.c = r.out /\ o.flags.x = x
    BY <2>1, Zenon DEF Writes
  <2>5. ExactRotate(op, count, s, rotated, o.value, o.flags)
    BY <1>1, <1>5, <2>2, <2>4, Zenon DEF ExactRotate
  <2> QED
    BY <1>2, <2>2, <2>3, <2>4, <2>5, Zenon DEF o, rotated
<1> QED
  BY <1>4, <1>5

LEMMA ExtendedExact ==
  ASSUME NEW op \in {"roxl", "roxr"}, NEW s \in Sizes, NEW value \in Values(s), NEW count \in Nat,
         NEW x \in BOOLEAN
  PROVE  LET o == DoShiftRotate(op, value, count, s, x)
         IN  /\ o.value \in Values(s) /\ o.flags.x \in BOOLEAN
             /\ ExactFlags(op, count, s, value, o.value, o.flags)
             /\ ExactExtended(Rotated(op, value, count, s, x), o.value, o.flags)
<1> DEFINE o == DoShiftRotate(op, value, count, s, x)
           rotated == Rotated(op, value, count, s, x)
           u == Extended(value, x, s)
           w == IF op = "roxl" THEN TurnsLeft(u, count, Bits[s] + 1) ELSE TurnsRight(u, count, Bits[s] + 1)
<1>1. rotated.value = Low(w, s) /\ rotated.x = Above(w, s)
  BY RotatedFields DEF Rotates
<1>2. u \in 0 .. 2 * Modulus(s) - 1 /\ Low(u, s) = value /\ Above(u, s) = x
  BY ExtendedIs
<1>3. w \in 0 .. 2 * Modulus(s) - 1 /\ (count = 0 => w = u)
  <2> HIDE DEF u
  <2> QED
    BY <1>2, ExtendedTurns
<1>4. Low(w, s) \in Values(s) /\ Above(w, s) \in BOOLEAN
  <2> HIDE DEF w
  <2>1. w \in Int
    BY <1>3, ModulusIs
  <2>2. Above(w, s) \in BOOLEAN
    BY DEF Above
  <2> QED
    BY <2>1, <2>2, LowIs
<1>5. No <=> op = "asl" /\ ~InRange(Signed(value, s) * 2 ^ count, s)
  BY DEF No
<1>6. CASE count = 0
  <2>1. Writes(o, value, s, Stays(op, x), x, No)
    BY <1>6, StaysPut
  <2>2. Stays(op, x) = x
    BY DEF Stays
  <2> HIDE DEF o, rotated, u, w
  <2>3. ExactFlags(op, count, s, value, o.value, o.flags)
    BY <2>1, <1>5, FlagsExact
  <2>4. o.value = value /\ o.flags.c = x /\ o.flags.x = x
    BY <2>1, <2>2, Zenon DEF Writes
  <2>5. ExactExtended(rotated, o.value, o.flags)
    BY <1>1, <1>2, <1>3, <1>6, <2>4, Zenon DEF ExactExtended
  <2> QED
    BY <2>3, <2>4, <2>5, Zenon DEF o, rotated
<1>7. CASE count > 0
  <2> DEFINE r == IF op = "roxl" THEN Roxl(value, count, s, x) ELSE Roxr(value, count, s, x)
  <2>1. Writes(o, r.value, s, r.out, r.out, No)
    BY <1>7, TurnedThrough
  <2>2. r = Carried(w, s)
    BY RoxlLoop, RoxrLoop
  <2> HIDE DEF o, rotated, u, w, r
  <2>3. r.value = Low(w, s) /\ r.out = Above(w, s)
    <3> DEFINE above == Above(w, s)
    <3>1. Carried(w, s) = [value |-> Low(w, s), out |-> above, changed |-> FALSE]
      BY DEF Carried
    <3> HIDE DEF above
    <3>2. r.value = Low(w, s) /\ r.out = above
      BY <2>2, <3>1
    <3> QED
      BY <3>2 DEF above
  <2>4. ExactFlags(op, count, s, value, o.value, o.flags)
    BY <1>4, <1>5, <2>1, <2>3, FlagsExact
  <2>5. o.value = r.value /\ o.flags.c = r.out /\ o.flags.x = r.out
    BY <2>1, Zenon DEF Writes
  <2>6. ExactExtended(rotated, o.value, o.flags)
    BY <1>1, <2>3, <2>5, Zenon DEF ExactExtended
  <2> QED
    BY <1>4, <2>3, <2>4, <2>5, <2>6, Zenon DEF o, rotated
<1> QED
  BY <1>6, <1>7

\* Every shift, for every count.
LEMMA ShiftsAre ==
  ASSUME NEW op \in Shifts, NEW s \in Sizes, NEW value \in Values(s), NEW count \in Nat,
         NEW x \in BOOLEAN
  PROVE  LET o == DoShiftRotate(op, value, count, s, x)
         IN  o.flags.x \in BOOLEAN /\ ExactShift(op, count, s, value, x, o.value, o.flags)
<1> DEFINE o == DoShiftRotate(op, value, count, s, x)
<1>1. CASE op \in {"asl", "lsl"}
  BY <1>1, LeftExact DEF ExactShift
<1>2. CASE op \in {"asr", "lsr"}
  BY <1>2, RightExact DEF ExactShift
<1>3. CASE op \in {"rol", "ror"}
  BY <1>3, RotateExact DEF ExactShift
<1>4. CASE op \in {"roxl", "roxr"}
  BY <1>4, ExtendedExact DEF ExactShift
<1> QED
  BY <1>1, <1>2, <1>3, <1>4 DEF Shifts

-----------------------------------------------------------------------------
\* The shifts, instruction by instruction.

\* A rotate through the extend bit takes it for a bit.
ExtendIs == ccr.x \in BOOLEAN

LEMMA CarriesAre ==
  ASSUME NEW src, NEW dst, NEW s
  PROVE  /\ AddWithFlags(src, dst, s).flags.x \in BOOLEAN
         /\ SubWithFlags(src, dst, s).flags.x \in BOOLEAN
         /\ AddWithExtend(src, dst, s, ccr).flags.x \in BOOLEAN
         /\ SubWithExtend(src, dst, s, ccr).flags.x \in BOOLEAN
<1>1. AddWithFlags(src, dst, s).flags.x \in BOOLEAN
  BY DEF AddWithFlags, Outcome
<1>2. SubWithFlags(src, dst, s).flags.x \in BOOLEAN
  <2> DEFINE res == Low(dst - src, s)
             carry == src > dst
             n == Negative(res, s)
             z == res = 0
             v == /\ Negative(dst, s) # Negative(src, s)
                  /\ Negative(res, s) # Negative(dst, s)
  <2>1. SubWithFlags(src, dst, s) = Outcome(res, [x |-> carry, c |-> carry, n |-> n, z |-> z, v |-> v])
    BY DEF SubWithFlags
  <2>2. carry \in BOOLEAN
    OBVIOUS
  <2> HIDE DEF carry, n, z, v, res
  <2> QED
    BY <2>1, <2>2 DEF Outcome
<1>3. AddWithExtend(src, dst, s, ccr).flags.x \in BOOLEAN
  <2> DEFINE operand2 == Operand2(src, ccr.x)
             sum == Low(dst + operand2, "long")
             res == Low(sum, s)
             carry == sum >= Modulus(s)
             n == Negative(res, s)
             z == UpdateExtendZeroFlag(res, ccr.z)
             v == /\ Negative(dst, s) = Negative(operand2, s)
                  /\ Negative(res, s) # Negative(dst, s)
  <2>1. AddWithExtend(src, dst, s, ccr) = Outcome(res, [x |-> carry, c |-> carry, n |-> n, z |-> z, v |-> v])
    BY DEF AddWithExtend
  <2>2. carry \in BOOLEAN
    OBVIOUS
  <2> HIDE DEF carry, n, z, v, res
  <2> QED
    BY <2>1, <2>2 DEF Outcome
<1>4. SubWithExtend(src, dst, s, ccr).flags.x \in BOOLEAN
  <2> DEFINE operand2 == Operand2(src, ccr.x)
             res == Low(dst - operand2, s)
             carry == dst < operand2
             n == Negative(res, s)
             z == UpdateExtendZeroFlag(res, ccr.z)
             v == /\ Negative(dst, s) # Negative(operand2, s)
                  /\ Negative(res, s) # Negative(dst, s)
  <2>1. SubWithExtend(src, dst, s, ccr) = Outcome(res, [x |-> carry, c |-> carry, n |-> n, z |-> z, v |-> v])
    BY DEF SubWithExtend
  <2>2. carry \in BOOLEAN
    OBVIOUS
  <2> HIDE DEF carry, n, z, v, res
  <2> QED
    BY <2>1, <2>2 DEF Outcome
<1> QED
  BY <1>1, <1>2, <1>3, <1>4

LEMMA DecimalCarriesAre ==
  ASSUME NEW src, NEW dst, NEW zero
  PROVE  /\ UpdateBCDFlags(BcdAdd(src, dst, ccr.x), zero).flags.x \in BOOLEAN
         /\ UpdateBCDFlags(BcdSub(src, dst, ccr.x), zero).flags.x \in BOOLEAN
<1>1. BcdAdd(src, dst, ccr.x).carry \in BOOLEAN
  BY DEF BcdAdd
<1>2. BcdSub(src, dst, ccr.x).carry \in BOOLEAN
  BY DEF BcdSub
<1> QED
  BY <1>1, <1>2, BcdFlags

LEMMA ExtendStep == NumberInv /\ ExtendIs /\ [Next]_vars => ExtendIs'
<1> SUFFICES ASSUME NumberInv, ExtendIs, [Next]_vars PROVE ExtendIs'
  OBVIOUS
<1>1. ASSUME NEW s \in Sizes, NEW src \in Operands[s], NEW dst \in Operands[s],
             Add(s, src, dst) \/ Sub(s, src, dst) \/ Cmp(s, src, dst) \/ Addx(s, src, dst) \/ Subx(s, src, dst)
      PROVE  ExtendIs'
  <2>1. CASE Add(s, src, dst)
    <3>1. ccr' = AddWithFlags(src, dst, s).flags
      BY <2>1 DEF Add, Executes
    <3> QED
      BY <3>1, CarriesAre DEF ExtendIs
  <2>2. CASE Sub(s, src, dst)
    <3>1. ccr' = SubWithFlags(src, dst, s).flags
      BY <2>2 DEF Sub, Executes
    <3> QED
      BY <3>1, CarriesAre DEF ExtendIs
  <2>3. CASE Cmp(s, src, dst)
    <3> DEFINE f == SubWithFlags(src, dst, s).flags
    <3>1. ccr' = [f EXCEPT !.x = ccr.x]
      BY <2>3 DEF Cmp, Executes, Outcome
    <3>2. Flags(f)
      BY OperandsAre, SubtractionFlags, CCRFlags
    <3> HIDE DEF f
    <3>3. ccr'.x = ccr.x
      BY <3>1, <3>2 DEF Flags, FlagNames
    <3> QED
      BY <3>3 DEF ExtendIs
  <2>4. CASE Addx(s, src, dst)
    <3>1. ccr' = AddWithExtend(src, dst, s, ccr).flags
      BY <2>4 DEF Addx, Executes
    <3> QED
      BY <3>1, CarriesAre DEF ExtendIs
  <2>5. CASE Subx(s, src, dst)
    <3>1. ccr' = SubWithExtend(src, dst, s, ccr).flags
      BY <2>5 DEF Subx, Executes
    <3> QED
      BY <3>1, CarriesAre DEF ExtendIs
  <2> QED
    BY <1>1, <2>1, <2>2, <2>3, <2>4, <2>5
<1>2. ASSUME NEW s, NEW value, Neg(s, value) \/ Negx(s, value) \/ Tst(s, value)
      PROVE  ExtendIs'
  <2>1. CASE Neg(s, value)
    <3>1. ccr' = SubWithFlags(value, 0, s).flags
      BY <2>1 DEF Neg, Executes
    <3> QED
      BY <3>1, CarriesAre DEF ExtendIs
  <2>2. CASE Negx(s, value)
    <3>1. ccr' = SubWithExtend(value, 0, s, ccr).flags
      BY <2>2 DEF Negx, Executes
    <3> QED
      BY <3>1, CarriesAre DEF ExtendIs
  <2>3. CASE Tst(s, value)
    <3>1. ccr' = UpdateNZClearVC(value, s, ccr)
      BY <2>3 DEF Tst, Executes, Outcome
    <3>2. ccr'.x = ccr.x
      BY <3>1, TestFlags DEF NumberInv
    <3> QED
      BY <3>2 DEF ExtendIs
  <2> QED
    BY <1>2, <2>1, <2>2, <2>3
<1>3. ASSUME NEW src, NEW dst, Abcd(src, dst) \/ Sbcd(src, dst) \/ Nbcd(src) PROVE ExtendIs'
  <2>1. \E zero, v : \/ ccr' = UpdateBCDFlags(BcdAdd(src, dst, ccr.x), zero).flags
                     \/ ccr' = UpdateBCDFlags(BcdSub(src, v, ccr.x), zero).flags
    BY <1>3 DEF Abcd, Sbcd, Nbcd, Executes
  <2> QED
    BY <2>1, DecimalCarriesAre DEF ExtendIs
<1>4. ASSUME NEW src, NEW dst, Multiply(src, dst) PROVE ExtendIs'
  <2>1. \E product : ccr' = MulFlags(product, ccr).flags
    BY <1>4 DEF Multiply, Executes, Mulu, Muls
  <2>2. ccr'.x = ccr.x
    BY <2>1, ProductFlags DEF NumberInv
  <2> QED
    BY <2>2 DEF ExtendIs
<1>5. ASSUME NEW src, NEW dst, Divide(src, dst) PROVE ExtendIs'
  <2>1. \E q, r, fits : Divu(src, dst, ccr) = DivisionFlags(q, r, fits, dst, ccr)
    BY DEF Divu
  <2>2. \E q, r, fits : Divs(src, dst, ccr) = DivisionFlags(q, r, fits, dst, ccr)
    BY DEF Divs
  <2>3. \E q, r, fits : ccr' = DivisionFlags(q, r, fits, dst, ccr).flags
    BY <1>5, <2>1, <2>2 DEF Divide, Executes
  <2>4. ccr'.x = ccr.x
    BY <2>3, QuotientFlags DEF NumberInv
  <2> QED
    BY <2>4 DEF ExtendIs
<1>6. ASSUME NEW op \in Shifts, NEW s \in Sizes, NEW count \in Counts, NEW value \in Operands[s],
             ShiftRotate(op, s, count, value)
      PROVE  ExtendIs'
  <2>1. count \in Nat /\ value \in Values(s)
    BY OperandsAre
  <2>2. ccr' = DoShiftRotate(op, value, count, s, ccr.x).flags
    BY <1>6 DEF ShiftRotate, Executes
  <2> QED
    BY <2>1, <2>2, ShiftsAre DEF ExtendIs
<1>7. ASSUME NEW flags \in CCR, SetCcr(flags) PROVE ExtendIs'
  BY <1>7 DEF SetCcr, CCR, ExtendIs
<1>8. CASE Fetch \/ UNCHANGED vars
  BY <1>8 DEF Fetch, vars, ExtendIs
<1> QED
  BY <1>1, <1>2, <1>3, <1>4, <1>5, <1>6, <1>7, <1>8 DEF Next

\* The shift that has just been executed is exact.
LEMMA ShiftDone ==
  ASSUME ExactShift(last'.op, last'.src, last'.size, last'.dst, last'.x, last'.res, ccr')
  PROVE  ShiftsExact'
<1> DEFINE n == last'.src
           s == last'.size
           value == last'.dst
           rotated == Rotated(last'.op, value, n, s, last'.x)
           signed == IF last'.op = "asr" THEN Signed(value, s) ELSE value
<1>1. ExactFlags(last'.op, n, s, value, last'.res, ccr')
  BY DEF ExactShift
<1>2. last'.op \in {"asl", "lsl"} => ExactLeft(n, s, value, last'.res, ccr')
  BY DEF ExactShift
<1>3. last'.op \in {"asr", "lsr"} => ExactRight(n, s, signed, last'.res, ccr')
  BY DEF ExactShift
<1>4. last'.op \in {"rol", "ror"} => ExactRotate(last'.op, n, s, rotated, last'.res, ccr')
  BY DEF ExactShift
<1>5. last'.op \in {"roxl", "roxr"} => ExactExtended(rotated, last'.res, ccr')
  BY DEF ExactShift
<1> QED
  BY <1>1, <1>2, <1>3, <1>4, <1>5, Zenon
     DEF ShiftsExact, ExactFlags, ExactLeft, ExactRight, ExactRotate, ExactExtended

LEMMA ShiftStep == ExtendIs /\ ShiftsExact /\ [Next]_vars => ShiftsExact'
<1> SUFFICES ASSUME ExtendIs, ShiftsExact, [Next]_vars PROVE ShiftsExact'
  OBVIOUS
<1>1. ASSUME NEW op, NEW s, NEW src, NEW dst, NEW outcome, Executes(op, s, src, dst, outcome), op \notin Shifts
      PROVE  ShiftsExact'
  <2>1. last'.op = op
    BY <1>1, Executed
  <2> QED
    BY <1>1, <2>1 DEF ShiftsExact
<1>2. ASSUME NEW s, NEW src, NEW dst,
             \/ Add(s, src, dst) \/ Sub(s, src, dst) \/ Cmp(s, src, dst) \/ Addx(s, src, dst)
             \/ Subx(s, src, dst) \/ Neg(s, src) \/ Negx(s, src) \/ Tst(s, src)
             \/ Abcd(src, dst) \/ Sbcd(src, dst) \/ Nbcd(src) \/ Multiply(src, dst) \/ Divide(src, dst)
      PROVE  ShiftsExact'
  <2>1. CASE Add(s, src, dst) \/ Sub(s, src, dst) \/ Cmp(s, src, dst) \/ Addx(s, src, dst)
    BY <1>1, <2>1 DEF Add, Sub, Cmp, Addx, Shifts
  <2>2. CASE Subx(s, src, dst) \/ Neg(s, src) \/ Negx(s, src) \/ Tst(s, src)
    BY <1>1, <2>2 DEF Subx, Neg, Negx, Tst, Shifts
  <2>3. CASE Abcd(src, dst) \/ Sbcd(src, dst) \/ Nbcd(src)
    BY <1>1, <2>3 DEF Abcd, Sbcd, Nbcd, Shifts
  <2>4. CASE Multiply(src, dst) \/ Divide(src, dst)
    BY <1>1, <2>4 DEF Multiply, Divide, Shifts
  <2> QED
    BY <1>2, <2>1, <2>2, <2>3, <2>4
<1>3. ASSUME NEW op \in Shifts, NEW s \in Sizes, NEW count \in Counts, NEW value \in Operands[s],
             ShiftRotate(op, s, count, value)
      PROVE  ShiftsExact'
  <2> DEFINE o == DoShiftRotate(op, value, count, s, ccr.x)
  <2>1. count \in Nat /\ value \in Values(s) /\ ccr.x \in BOOLEAN
    BY OperandsAre DEF ExtendIs
  <2>2. ExactShift(op, count, s, value, ccr.x, o.value, o.flags)
    BY <2>1, ShiftsAre
  <2>3. Executes(op, s, count, value, o)
    BY <1>3 DEF ShiftRotate
  <2> HIDE DEF o
  <2>4. /\ last'.op = op /\ last'.src = count /\ last'.size = s /\ last'.dst = value
        /\ last'.x = ccr.x /\ last'.res = o.value /\ ccr' = o.flags
    BY <2>3 DEF Executes, Instruction
  <2>5. ExactShift(last'.op, last'.src, last'.size, last'.dst, last'.x, last'.res, ccr')
    BY <2>2, <2>4, Zenon
  <2> QED
    BY <2>5, ShiftDone
<1>4. CASE Fetch \/ \E flags \in CCR : SetCcr(flags)
  <2>1. last'.op = "none"
    BY <1>4 DEF Fetch, SetCcr, NoInstruction
  <2> QED
    BY <2>1 DEF ShiftsExact, Shifts
<1>5. CASE UNCHANGED vars
  BY <1>5 DEF vars, ShiftsExact
<1> QED
  BY <1>2, <1>3, <1>4, <1>5 DEF Next, Sizes

(* A shift by any count multiplies or divides by a power of two, with the  *)
(* last bit out in C, and a rotate is as many rotations by one, whatever   *)
(* the width of a word.                                                    *)
THEOREM ShiftsCorrect == Spec => []ShiftsExact
<1>1. Init => ShiftsExact /\ ExtendIs
  BY DEF Init, NoInstruction, ShiftsExact, Shifts, ExtendIs, CCR
<1>2. ExtendIs /\ ShiftsExact /\ [Next]_vars => ShiftsExact'
  BY ShiftStep
<1>3. NumberInv /\ ExtendIs /\ [Next]_vars => ExtendIs'
  BY ExtendStep
<1> QED
  BY <1>1, <1>2, <1>3, NumberInit, NumberStep, PTL DEF Spec
=============================================================================
