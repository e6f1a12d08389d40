-------------------------- MODULE Transfers_proofs --------------------------
(***************************************************************************)
(* Proofs about registers and memory, for every width of a byte, address   *)
(* space, RAM, stack and program of moves, MOVEM, LINK and UNLK.           *)
(***************************************************************************)
EXTENDS Transfers, FiniteSetTheorems, SequenceTheorems, TLAPS

-----------------------------------------------------------------------------
\* Sizes, bytes and values.

LEMMA BaseIs == Base \in Nat /\ Base >= 2 /\ Base % 2 = 0
  BY TransfersAssumption

LEMMA PowersAre ==
  /\ Base * Base \in Nat /\ Base * Base >= Base
  /\ Base * Base * Base \in Nat /\ Base * Base * Base >= Base * Base
  /\ Base * Base * Base * Base \in Nat /\ Base * Base * Base * Base >= Base * Base * Base
<1>1. \A n \in Nat : n * Base \in Nat /\ n * Base >= n
  <2>1. \A n \in Nat, k \in Nat : n * (k + 1) = n * k + n /\ n * k \in Nat
    OBVIOUS
  <2>2. Base - 1 \in Nat /\ (Base - 1) + 1 = Base
    BY BaseIs
  <2>3. \A n \in Nat : n * Base = n * (Base - 1) + n /\ n * (Base - 1) \in Nat
    BY <2>1, <2>2
  <2> QED
    BY <2>3, BaseIs
<1> DEFINE c == Base * Base
<1>2. c \in Nat /\ c >= Base
  BY <1>1, BaseIs
<1> HIDE DEF c
<1> DEFINE d == c * Base
<1>3. d \in Nat /\ d >= c
  BY <1>1, <1>2
<1> HIDE DEF d
<1>4. d * Base \in Nat /\ d * Base >= d
  BY <1>1, <1>3
<1> QED
  BY <1>2, <1>3, <1>4 DEF c, d

LEMMA ModIs ==
  /\ Mod(Byte) = Base /\ Mod(Word) = Base * Base /\ Mod(Long) = Base * Base * Base * Base
  /\ \A s \in Sizes : Mod(s) \in Nat /\ Mod(s) > 0 /\ Mod(s) <= Mod(Long)
<1>1. Mod(Byte) = Base /\ Mod(Word) = Base * Base /\ Mod(Long) = Base * Base * Base * Base
  <2>1. Byte # Word /\ Byte # Long /\ Word # Long
    BY DEF Byte, Word, Long
  <2> DEFINE c == Base * Base
             d == c * Base * Base
  <2> HIDE DEF c, d
  <2> QED
    BY <2>1 DEF Mod, c, d
<1> DEFINE c == Base * Base
           d == Base * Base * Base
           e == Base * Base * Base * Base
<1>2. Base \in Nat /\ Base > 0 /\ c \in Nat /\ c >= Base /\ d \in Nat /\ d >= c /\ e \in Nat /\ e >= d
  BY BaseIs, PowersAre
<1> HIDE DEF c, d, e
<1>3. \A s \in Sizes : s = Byte \/ s = Word \/ s = Long
  BY DEF Sizes
<1>4. \A s \in Sizes : Mod(s) = Base \/ Mod(s) = c \/ Mod(s) = e
  BY <1>1, <1>3 DEF c, e
<1>5. Mod(Long) = e
  BY <1>1 DEF e
<1> QED
  BY <1>1, <1>2, <1>4, <1>5

LEMMA Remainder ==
  ASSUME NEW m \in Nat, m > 0, NEW v \in Int
  PROVE  /\ v % m \in 0 .. m - 1
         /\ v \in 0 .. m - 1 => v % m = v
  OBVIOUS

LEMMA DivMod ==
  ASSUME NEW m \in Nat, m > 0, NEW v \in Int
  PROVE  /\ v = m * (v \div m) + (v % m)
         /\ v \div m \in Int
         /\ v % m \in 0 .. m - 1
  OBVIOUS

LEMMA LowIs ==
  ASSUME NEW s \in Sizes, NEW v \in Int
  PROVE  /\ Low(v, s) \in 0 .. Mod(s) - 1
         /\ Low(v, s) \in Value
         /\ Low(v, s) \in Int
         /\ v \in 0 .. Mod(s) - 1 => Low(v, s) = v
<1>1. Mod(s) \in Nat /\ Mod(s) > 0 /\ Mod(s) <= Mod(Long) /\ Mod(Long) \in Nat
  BY ModIs DEF Sizes
<1>2. Low(v, s) \in 0 .. Mod(s) - 1 /\ (v \in 0 .. Mod(s) - 1 => Low(v, s) = v)
  BY <1>1, Remainder DEF Low
<1> QED
  BY <1>1, <1>2 DEF Value

LEMMA ValueIs ==
  /\ Value \subseteq Nat
  /\ \A v \in Value : v \in Nat /\ v \in Int /\ Low(v, Long) = v
<1>1. Mod(Long) \in Nat /\ Long \in Sizes
  BY ModIs DEF Sizes
<1>2. \A v \in Value : v \in Nat /\ v \in Int /\ v \in 0 .. Mod(Long) - 1
  BY <1>1 DEF Value
<1> QED
  BY <1>1, <1>2, LowIs

LEMMA WrapIs ==
  ASSUME NEW v \in Int
  PROVE  /\ Wrap32(v) \in Value
         /\ v \in Value => Wrap32(v) = v
<1>1. Long \in Sizes
  BY DEF Sizes
<1> QED
  BY <1>1, LowIs DEF Wrap32, Value

LEMMA SignExtendedType ==
  ASSUME NEW s \in Sizes, NEW v \in Int
  PROVE  SignExtended(v, s) \in Value
<1>1. Low(v, s) \in Value /\ Low(v, s) \in Int /\ Mod(s) \in Nat
  BY LowIs, ModIs
<1>2. Low(v, s) - Mod(s) \in Int
  BY <1>1
<1>3. Wrap32(Low(v, s) - Mod(s)) \in Value
  BY <1>2, WrapIs
<1> QED
  BY <1>1, <1>3 DEF SignExtended

(* Only the low part counts.                                               *)
LEMMA SignExtendedLow ==
  ASSUME NEW s \in Sizes, NEW v \in Int
  PROVE  SignExtended(Low(v, s), s) = SignExtended(v, s)
<1>1. Low(Low(v, s), s) = Low(v, s)
  <2>1. Low(v, s) \in 0 .. Mod(s) - 1 /\ Low(v, s) \in Int
    BY LowIs
  <2> QED
    BY <2>1, LowIs
<1> QED
  BY <1>1, Zenon DEF SignExtended

LEMMA SignExtendedLong == \A v \in Value : SignExtended(v, Long) = v
<1> SUFFICES ASSUME NEW v \in Value PROVE SignExtended(v, Long) = v
  OBVIOUS
<1>1. Low(v, Long) = v /\ v \in Nat /\ Mod(Long) \in Nat /\ v < Mod(Long)
  <2>1. Low(v, Long) = v /\ v \in Nat
    BY ValueIs
  <2>2. Long \in Sizes /\ v \in 0 .. Mod(Long) - 1
    BY DEF Sizes, Value
  <2>3. Mod(Long) \in Nat
    BY <2>2, ModIs
  <2> QED
    BY <2>1, <2>2, <2>3
<1>2. CASE 2 * v >= Mod(Long)
  \* As a word of that width it is the same number.
  <2>1. Wrap32(v - Mod(Long)) = v
    <3>1. \A m \in Nat \ {0} : \A n \in 0 .. m - 1 : (n - m) % m = n
      OBVIOUS
    <3> QED
      BY <1>1, <3>1 DEF Wrap32, Low
  <2> QED
    BY <1>1, <1>2, <2>1 DEF SignExtended
<1>3. CASE ~(2 * v >= Mod(Long))
  BY <1>1, <1>3 DEF SignExtended
<1> QED
  BY <1>2, <1>3

(* A stack pointer stays even.                                             *)
LEMMA EvenRemainder ==
  ASSUME NEW m \in Nat, m > 0, m % 2 = 0, NEW v \in Int, v % 2 = 0
  PROVE  (v % m) % 2 = 0
<1>1. PICK h \in Int : m = 2 * h
  OBVIOUS
<1>2. PICK u \in Int : v = 2 * u
  OBVIOUS
<1>3. PICK q \in Int : v = m * q + (v % m)
  <2>1. v = m * (v \div m) + (v % m) /\ v \div m \in Int
    BY DivMod
  <2> QED
    BY <2>1
<1>4. v % m \in Int
  OBVIOUS
<1>5. m * q = 2 * (h * q) /\ h * q \in Int
  BY <1>1
<1> DEFINE k == h * q
           r == v % m
<1>6. r = 2 * (u - k) /\ k \in Int
  <2>1. v = 2 * k + r
    BY <1>3, <1>5
  <2>2. 2 * u = 2 * k + r /\ k \in Int /\ r \in Int
    BY <1>2, <1>4, <1>5, <2>1
  <2> HIDE DEF k, r
  <2> QED
    BY <2>2
<1> HIDE DEF k, r
<1>7. r % 2 = 0
  BY <1>6
<1> QED
  BY <1>7 DEF r

LEMMA EvenWrap ==
  ASSUME NEW v \in Int, v % 2 = 0
  PROVE  Wrap32(v) % 2 = 0
<1>1. Mod(Long) % 2 = 0
  <2> DEFINE d == Base * Base * Base
  <2>1. d \in Nat /\ Base \in Nat /\ Base % 2 = 0
    BY BaseIs, PowersAre
  <2>2. Mod(Long) = d * Base
    BY ModIs
  <2> HIDE DEF d
  <2>3. PICK h \in Int : Base = 2 * h
    BY <2>1
  <2>4. d * Base = 2 * (d * h) /\ d * h \in Int
    BY <2>1, <2>3
  <2>5. \A n \in Int : (2 * n) % 2 = 0
    OBVIOUS
  <2> QED
    BY <2>2, <2>4, <2>5
<1>2. Mod(Long) \in Nat /\ Mod(Long) > 0
  BY ModIs DEF Sizes
<1> QED
  BY <1>1, <1>2, EvenRemainder DEF Wrap32, Low

(* Replacing the low part of a long.                                       *)
LEMMA Replaced ==
  ASSUME NEW m \in Nat, m > 0, NEW k \in Nat, NEW v \in 0 .. m * k - 1, NEW n \in 0 .. m - 1
  PROVE  (v - (v % m)) + n \in 0 .. m * k - 1
<1> DEFINE q == v \div m
           r == v % m
<1>0. m * k \in Nat
  OBVIOUS
<1>1. v \in Nat /\ v < m * k
  BY <1>0
<1>2. v = m * q + r /\ q \in Int /\ r \in 0 .. m - 1
  BY <1>1
<1> HIDE DEF q, r
<1>3. q >= 0
  <2>1. q <= 0 - 1 => m * q <= 0 - m
    BY <1>2
  <2> QED
    BY <1>1, <1>2, <2>1
<1>4. q <= k - 1
  <2>1. q >= k => m * q >= m * k
    BY <1>2
  <2> QED
    BY <1>0, <1>1, <1>2, <2>1
<1>5. m * q <= m * (k - 1) /\ m * (k - 1) = m * k - m /\ m * q >= 0 /\ m * q \in Int
  BY <1>2, <1>3, <1>4
<1> DEFINE p == m * q
           t == m * k
<1>6. p <= t - m /\ p >= 0 /\ p \in Int /\ t \in Nat /\ v = p + r
  BY <1>0, <1>2, <1>5
<1> HIDE DEF p, t
<1>7. (v - r) + n = p + n
  BY <1>1, <1>2, <1>6
<1>8. p + n \in 0 .. t - 1
  BY <1>6
<1> QED
  BY <1>7, <1>8 DEF r, t

LEMMA LoadedType ==
  ASSUME NEW s \in Sizes, NEW v \in Value, NEW n \in 0 .. Mod(s) - 1
  PROVE  (v - Low(v, s)) + n \in Value
<1>1. \E k \in Nat : Mod(Long) = Mod(s) * k
  <2> DEFINE c == Base * Base
             d == Base * Base * Base
  <2>1. Base \in Nat /\ c \in Nat /\ d \in Nat /\ Mod(Long) \in Nat
    BY BaseIs, PowersAre, ModIs
  <2>2. /\ Mod(Byte) = Base /\ Mod(Word) = c
        /\ Mod(Long) = Base * d /\ Mod(Long) = c * c /\ Mod(Long) = Mod(Long) * 1
    <3>1. Base * Base * Base * Base = Base * (Base * Base * Base)
      BY BaseIs
    <3>2. Base * Base * Base * Base = (Base * Base) * (Base * Base)
      BY BaseIs
    <3> QED
      BY <2>1, <3>1, <3>2, ModIs
  <2> HIDE DEF c, d
  <2>3. CASE s = Byte
    BY <2>1, <2>2, <2>3
  <2>4. CASE s = Word
    BY <2>1, <2>2, <2>4
  <2>5. CASE s = Long
    BY <2>2, <2>5
  <2> QED
    BY <2>3, <2>4, <2>5 DEF Sizes
<1>2. PICK k \in Nat : Mod(Long) = Mod(s) * k
  BY <1>1
<1>3. Mod(s) \in Nat /\ Mod(s) > 0
  BY ModIs
<1> DEFINE m == Mod(s)
<1> HIDE DEF m
<1>4. v \in 0 .. m * k - 1 /\ n \in 0 .. m - 1 /\ m \in Nat /\ m > 0
  BY <1>2, <1>3 DEF Value, m
<1>5. (v - (v % m)) + n \in 0 .. m * k - 1
  BY <1>4, Replaced
<1>6. Low(v, s) = v % m
  BY DEF Low, m
<1>7. Mod(Long) = m * k
  BY <1>2 DEF m
<1> QED
  BY <1>5, <1>6, <1>7, Zenon DEF Value
-----------------------------------------------------------------------------
\* The bytes of a value.

LEMMA Packed ==
  ASSUME NEW m \in Nat \ {0}, NEW a \in Int, NEW b \in 0 .. m - 1
  PROVE  (m * a + b) % m = b /\ (m * a + b) \div m = a
OBVIOUS

(* A digit below, what is above it shifted down.                           *)
LEMMA Split ==
  ASSUME NEW m \in Nat \ {0}, NEW k \in Nat \ {0}, NEW v \in Int
  PROVE  /\ (v \div m) \div k = v \div (m * k)
         /\ v % (m * k) = m * ((v \div m) % k) + (v % m)
<1> DEFINE u == v \div m
           q == u \div k
           r == u % k
           s == v % m
           n == m * k
           b == m * r + s
<1>1. v = m * u + s /\ u \in Int /\ s \in 0 .. m - 1
  BY DivMod
<1>2. u = k * q + r /\ q \in Int /\ r \in 0 .. k - 1
  BY <1>1, DivMod
<1> HIDE DEF u, q, r, s
<1>3. n \in Nat \ {0}
  OBVIOUS
<1>4. v = n * q + b
  <2>1. m * (k * q + r) = m * k * q + m * r
    BY <1>2
  <2> QED
    BY <1>1, <1>2, <2>1
<1>5. b \in 0 .. n - 1
  <2>1. m * r \in Nat /\ m * r <= m * (k - 1)
    BY <1>2
  <2>2. m * (k - 1) = m * k - m
    OBVIOUS
  <2> QED
    BY <1>1, <1>2, <2>1, <2>2
<1> HIDE DEF n, b
<1>6. (n * q + b) % n = b /\ (n * q + b) \div n = q
  BY <1>2, <1>3, <1>5, Packed
<1>7. v % n = b /\ v \div n = q
  BY <1>4, <1>6
<1> QED
  BY <1>7 DEF n, b, u, q, r, s

LEMMA ByteType ==
  ASSUME NEW v \in Int, NEW s \in Sizes, NEW k \in 0 .. s - 1
  PROVE  ByteOf(v, s, k) \in 0 .. Base - 1
<1>1. s - k = 1 \/ s - k = 2 \/ s - k = 3 \/ s - k = 4
  BY DEF Sizes, Byte, Word, Long
<1> DEFINE c == CASE s - k = 1 -> 1 [] s - k = 2 -> Base
                  [] s - k = 3 -> Base * Base [] s - k = 4 -> Base * Base * Base
<1>2. c \in Nat \ {0}
  <2> DEFINE d == Base * Base
             e == Base * Base * Base
  <2>1. Base \in Nat /\ Base > 0 /\ d \in Nat /\ d > 0 /\ e \in Nat /\ e > 0
    BY BaseIs, PowersAre
  <2>2. c = 1 \/ c = Base \/ c = d \/ c = e
    <3> HIDE DEF d, e
    <3>1. c = CASE s - k = 1 -> 1 [] s - k = 2 -> Base [] s - k = 3 -> d [] s - k = 4 -> e
      BY DEF d, e
    <3> HIDE DEF c
    <3> QED
      BY <1>1, <3>1
  <2> HIDE DEF c, d, e
  <2> QED
    BY <2>1, <2>2
<1> HIDE DEF c
<1>3. v \div c \in Int
  BY <1>2, DivMod
<1>4. (v \div c) % Base \in 0 .. Base - 1
  BY <1>3, BaseIs, DivMod
<1> QED
  BY <1>4 DEF ByteOf, c

LEMMA ByteIs ==
  ASSUME NEW v \in Int
  PROVE  /\ ByteOf(v, Byte, 0) = v % Base
         /\ ByteOf(v, Word, 0) = (v \div Base) % Base
         /\ ByteOf(v, Word, 1) = v % Base
         /\ ByteOf(v, Long, 0) = (v \div (Base * Base * Base)) % Base
         /\ ByteOf(v, Long, 1) = (v \div (Base * Base)) % Base
         /\ ByteOf(v, Long, 2) = (v \div Base) % Base
         /\ ByteOf(v, Long, 3) = v % Base
<1>1. v \div 1 = v
  OBVIOUS
<1> DEFINE d == Base * Base
           e == Base * Base * Base
           pick(n) == CASE n = 1 -> 1 [] n = 2 -> Base [] n = 3 -> d [] n = 4 -> e
<1>2. \A s, k : ByteOf(v, s, k) = (v \div pick(s - k)) % Base
  BY Zenon DEF ByteOf
<1>3. pick(1) = 1 /\ pick(2) = Base /\ pick(3) = d /\ pick(4) = e
  <2> HIDE DEF d, e
  <2> QED
    OBVIOUS
<1> HIDE DEF d, e, pick
<1>4. Byte - 0 = 1 /\ Word - 0 = 2 /\ Word - 1 = 1 /\ Long - 0 = 4 /\ Long - 1 = 3 /\ Long - 2 = 2 /\ Long - 3 = 1
  BY DEF Byte, Word, Long
<1>5. ByteOf(v, Byte, 0) = (v \div 1) % Base
  <2>1. ByteOf(v, Byte, 0) = (v \div pick(Byte - 0)) % Base
    BY <1>2, Zenon
  <2> QED
    BY <1>3, <1>4, <2>1, Zenon
<1>6. ByteOf(v, Word, 0) = (v \div Base) % Base
  <2>1. ByteOf(v, Word, 0) = (v \div pick(Word - 0)) % Base
    BY <1>2, Zenon
  <2> QED
    BY <1>3, <1>4, <2>1, Zenon
<1>7. ByteOf(v, Word, 1) = (v \div 1) % Base
  <2>1. ByteOf(v, Word, 1) = (v \div pick(Word - 1)) % Base
    BY <1>2, Zenon
  <2> QED
    BY <1>3, <1>4, <2>1, Zenon
<1>8. ByteOf(v, Long, 0) = (v \div e) % Base
  <2>1. ByteOf(v, Long, 0) = (v \div pick(Long - 0)) % Base
    BY <1>2, Zenon
  <2> QED
    BY <1>3, <1>4, <2>1, Zenon
<1>9. ByteOf(v, Long, 1) = (v \div d) % Base
  <2>1. ByteOf(v, Long, 1) = (v \div pick(Long - 1)) % Base
    BY <1>2, Zenon
  <2> QED
    BY <1>3, <1>4, <2>1, Zenon
<1>10. ByteOf(v, Long, 2) = (v \div Base) % Base
  <2>1. ByteOf(v, Long, 2) = (v \div pick(Long - 2)) % Base
    BY <1>2, Zenon
  <2> QED
    BY <1>3, <1>4, <2>1, Zenon
<1>11. ByteOf(v, Long, 3) = (v \div 1) % Base
  <2>1. ByteOf(v, Long, 3) = (v \div pick(Long - 3)) % Base
    BY <1>2, Zenon
  <2> QED
    BY <1>3, <1>4, <2>1, Zenon
<1> QED
  BY <1>1, <1>5, <1>6, <1>7, <1>8, <1>9, <1>10, <1>11, Zenon DEF d, e

(* Bytes read back together are the value that was written, as far as its   *)
(* operand reaches.                                                         *)
LEMMA JoinedIs ==
  ASSUME NEW m, NEW a \in Int, NEW s \in Sizes, NEW v \in Int,
         \A k \in 0 .. s - 1 : m[a + k] = ByteOf(v, s, k)
  PROVE  Joined(m, a, s) = Low(v, s)
<1> DEFINE B == Base
           c == B * B
           d == B * B * B
<1>1. B \in Nat \ {0} /\ c \in Nat \ {0} /\ d \in Nat \ {0}
  BY BaseIs, PowersAre
<1>2. Byte # Word /\ Byte # Long /\ Word # Long /\ Byte = 1 /\ Word = 2 /\ Long = 4
  BY DEF Byte, Word, Long
<1>3. CASE s = Byte
  <2>1. m[a + 0] = v % B /\ a + 0 = a
    BY <1>2, <1>3, ByteIs
  <2>2. Joined(m, a, s) = m[a]
    BY <1>2, <1>3 DEF Joined
  <2> QED
    BY <1>3, <2>1, <2>2, ModIs DEF Low
<1>4. CASE s = Word
  <2>1. m[a + 0] = (v \div B) % B /\ m[a + 1] = v % B /\ a + 0 = a
    BY <1>2, <1>4, ByteIs
  <2>2. Joined(m, a, s) = B * m[a] + m[a + 1]
    BY <1>2, <1>4 DEF Joined
  <2>3. v % (B * B) = B * ((v \div B) % B) + (v % B)
    BY <1>1, Split
  <2>4. Low(v, s) = v % (B * B)
    BY <1>4, ModIs DEF Low
  <2> QED
    BY <2>1, <2>2, <2>3, <2>4, Zenon
<1>5. CASE s = Long
  <2> DEFINE u == v \div B
             t == u \div B
  <2>0. u \in Int /\ t \in Int
    BY <1>1, DivMod
  <2>1. /\ m[a] = (v \div d) % B /\ m[a + 1] = (v \div c) % B
        /\ m[a + 2] = (v \div B) % B /\ m[a + 3] = v % B
    <3>1. m[a + 0] = (v \div d) % B /\ a + 0 = a
      BY <1>2, <1>5, ByteIs
    <3>2. m[a + 1] = (v \div c) % B
      BY <1>2, <1>5, ByteIs
    <3>3. m[a + 2] = (v \div B) % B
      BY <1>2, <1>5, ByteIs
    <3>4. m[a + 3] = v % B
      BY <1>2, <1>5, ByteIs
    <3> QED
      BY <3>1, <3>2, <3>3, <3>4, Zenon
  <2>2. Joined(m, a, s) = B * (B * (B * m[a] + m[a + 1]) + m[a + 2]) + m[a + 3]
    BY <1>2, <1>5 DEF Joined
  <2>3. v \div c = t /\ v \div d = t \div B
    <3>1. (v \div B) \div B = v \div (B * B)
      BY <1>1, Split
    <3>2. (v \div c) \div B = v \div (c * B)
      BY <1>1, Split
    <3> QED
      BY <3>1, <3>2, Zenon
  <2>4. t % (B * B) = B * ((t \div B) % B) + (t % B)
    BY <1>1, <2>0, Split
  <2>5. u % (B * c) = B * ((u \div B) % c) + (u % B)
    BY <1>1, <2>0, Split
  <2>6. v % (B * d) = B * ((v \div B) % d) + (v % B)
    BY <1>1, Split
  <2>7. B * c = d /\ B * d = Base * Base * Base * Base
    BY BaseIs
  <2>8. Low(v, s) = v % (B * d)
    BY <1>5, <2>7, ModIs DEF Low
  <2>9. Low(v, s) = B * (B * (B * ((t \div B) % B) + (t % B)) + (u % B)) + (v % B)
    BY <2>4, <2>5, <2>6, <2>7, <2>8, Zenon
  <2> QED
    BY <2>1, <2>2, <2>3, <2>9, Zenon
<1> QED
  BY <1>3, <1>4, <1>5 DEF Sizes

(* Only the bytes of the operand count.                                    *)
LEMMA JoinedSame ==
  ASSUME NEW m, NEW n, NEW a \in Int, NEW s \in Sizes,
         \A b \in a .. a + s - 1 : m[b] = n[b]
  PROVE  Joined(m, a, s) = Joined(n, a, s)
<1>1. Byte # Word /\ Byte # Long /\ Word # Long /\ Byte = 1 /\ Word = 2 /\ Long = 4
  BY DEF Byte, Word, Long
<1>2. CASE s = Byte
  <2>1. m[a] = n[a]
    BY <1>1, <1>2
  <2> QED
    BY <1>1, <1>2, <2>1 DEF Joined
<1>3. CASE s = Word
  <2>1. m[a] = n[a] /\ m[a + 1] = n[a + 1]
    BY <1>1, <1>3
  <2>2. \A f : Joined(f, a, s) = Base * f[a] + f[a + 1]
    BY <1>1, <1>3 DEF Joined
  <2> QED
    BY <2>1, <2>2, Zenon
<1>4. CASE s = Long
  <2>1. m[a] = n[a] /\ m[a + 1] = n[a + 1] /\ m[a + 2] = n[a + 2] /\ m[a + 3] = n[a + 3]
    BY <1>1, <1>4
  <2>2. \A f : Joined(f, a, s) = Base * (Base * (Base * f[a] + f[a + 1]) + f[a + 2]) + f[a + 3]
    BY <1>1, <1>4 DEF Joined
  <2> QED
    BY <2>1, <2>2, Zenon
<1> QED
  BY <1>2, <1>3, <1>4 DEF Sizes

LEMMA JoinedType ==
  ASSUME NEW m \in [Ram -> 0 .. Base - 1], NEW a \in Int, NEW s \in Sizes,
         Bytes(a, s) \subseteq Ram
  PROVE  Joined(m, a, s) \in 0 .. Mod(s) - 1
<1> DEFINE B == Base
           c == B * B
           d == B * B * B
           e == B * B * B * B
<1>1. B \in Nat \ {0} /\ c \in Nat \ {0} /\ d \in Nat \ {0} /\ e \in Nat
  BY BaseIs, PowersAre
<1>2. Byte # Word /\ Byte # Long /\ Word # Long /\ Byte = 1 /\ Word = 2 /\ Long = 4
  BY DEF Byte, Word, Long
<1>3. \A k \in 0 .. s - 1 : m[a + k] \in 0 .. B - 1
  <2>1. \A k \in 0 .. s - 1 : a + k \in Bytes(a, s)
    BY DEF Bytes, Sizes, Byte, Word, Long
  <2> QED
    BY <2>1
<1>4. \A n \in Nat \ {0} : \A x \in 0 .. n - 1, y \in 0 .. B - 1 : B * x + y \in 0 .. B * n - 1
  <2> SUFFICES ASSUME NEW n \in Nat \ {0}, NEW x \in 0 .. n - 1, NEW y \in 0 .. B - 1
               PROVE  B * x + y \in 0 .. B * n - 1
    BY Zenon
  <2>1. B * x \in Nat /\ B * x <= B * (n - 1) /\ B * (n - 1) = B * n - B /\ B * n \in Nat
    BY <1>1
  <2> QED
    BY <1>1, <2>1
<1>5. CASE s = Byte
  <2>1. m[a + 0] \in 0 .. B - 1 /\ a + 0 = a
    BY <1>2, <1>3, <1>5
  <2>2. Joined(m, a, s) = m[a]
    BY <1>2, <1>5 DEF Joined
  <2> QED
    BY <1>5, <2>1, <2>2, ModIs
<1>6. CASE s = Word
  <2>1. m[a + 0] \in 0 .. B - 1 /\ m[a + 1] \in 0 .. B - 1 /\ a + 0 = a
    BY <1>2, <1>3, <1>6
  <2>2. Joined(m, a, s) = B * m[a] + m[a + 1]
    BY <1>2, <1>6 DEF Joined
  <2>3. B * m[a] + m[a + 1] \in 0 .. B * B - 1
    BY <1>1, <1>4, <2>1
  <2> QED
    BY <1>6, <2>2, <2>3, ModIs
<1>7. CASE s = Long
  <2>1. m[a + 0] \in 0 .. B - 1 /\ m[a + 1] \in 0 .. B - 1 /\ a + 0 = a
    BY <1>2, <1>3, <1>7
  <2>2. m[a + 2] \in 0 .. B - 1 /\ m[a + 3] \in 0 .. B - 1
    BY <1>2, <1>3, <1>7
  <2>3. Joined(m, a, s) = B * (B * (B * m[a] + m[a + 1]) + m[a + 2]) + m[a + 3]
    BY <1>2, <1>7 DEF Joined
  <2>4. B * m[a] + m[a + 1] \in 0 .. B * B - 1
    BY <1>1, <1>4, <2>1
  <2>5. B * (B * m[a] + m[a + 1]) + m[a + 2] \in 0 .. B * c - 1
    BY <1>1, <1>4, <2>2, <2>4
  <2>6. B * (B * (B * m[a] + m[a + 1]) + m[a + 2]) + m[a + 3] \in 0 .. B * (B * c) - 1
    <3> DEFINE x == B * (B * m[a] + m[a + 1]) + m[a + 2]
               n == B * c
    <3>1. n \in Nat \ {0} /\ x \in 0 .. n - 1
      BY <1>1, <2>5
    <3> HIDE DEF x, n
    <3>2. B * x + m[a + 3] \in 0 .. B * n - 1
      BY <1>4, <2>2, <3>1
    <3> QED
      BY <3>2 DEF x, n
  <2>7. B * (B * c) = e
    BY BaseIs
  <2> QED
    BY <1>7, <2>3, <2>6, <2>7, ModIs
<1> QED
  BY <1>5, <1>6, <1>7 DEF Sizes
-----------------------------------------------------------------------------
\* The inductive invariant.

Frame ==
  [by : {"movem", "move", "link"}, list : SUBSET Registers, size : Sizes,
   saved : UNION {[l -> Value] : l \in SUBSET Registers}, top : Value, low : Value]

\* How far a block reaches on the stack.
Extent(f) ==
  IF f.by = "movem" THEN f.size * Cardinality(f.list) ELSE AddressRegisterStep(SP, f.size)

(* A block as its instruction makes it.  The stack pointer does not wrap    *)
(* inside it, since the code writes nowhere above StackTop.                 *)
Block(f) ==
  /\ f \in Frame
  /\ SP \notin f.list /\ f.saved \in [f.list -> Value]
  /\ f.low % 2 = 0 /\ f.top % 2 = 0
  /\ f.by = "movem" => f.size # Byte
  /\ f.by # "movem" => \E r \in Registers : f.list = {r}
  /\ f.by = "link" => f.size = Long /\ \A r \in f.list : ~IsData(r)
  /\ f.top = f.low + Extent(f) /\ f.top <= StackTop

\* A block in memory m, of which p is attached.
Held(f, m, p) ==
  \A r \in f.list : LET a == At(f.low, f.list, f.size, r)
                   IN Bytes(a, f.size) \subseteq p /\ Joined(m, a, f.size) = Low(f.saved[r], f.size)

Stacked(s) == \A i, j \in DOMAIN s : j < i => s[i].top <= s[j].low

FramesOK(s, m, p) ==
  /\ s \in Seq(Frame)
  /\ \A i \in DOMAIN s : Block(s[i]) /\ Held(s[i], m, p)
  /\ Stacked(s)

MachineOK(g, m, p) ==
  /\ g \in [Registers -> Value] /\ g[SP] % 2 = 0
  /\ m \in [Ram -> 0 .. Base - 1]
  /\ p \subseteq Ram

Instruction ==
  [to : {"memory", "registers"}, reg : Registers, list : SUBSET Registers, size : Sizes]
Attempt == [of : Instruction, from : [Registers -> Value], first : Value, done : BOOLEAN]

(* A store that is to be executed again finds the registers it had; a load  *)
(* finds its base and all that it does not load.                            *)
Underway(a, g) ==
  /\ a.of.to = "memory" =>
       /\ a.of.reg = SP /\ SP \notin a.of.list
       /\ g = a.from /\ a.first = Wrap32(a.from[SP] - a.of.size * Cardinality(a.of.list))
  /\ a.of.to = "registers" /\ a.of.reg \notin a.of.list =>
       a.first = a.from[a.of.reg] /\ \A r \in Registers \ a.of.list : g[r] = a.from[r]

\* What MOVEM i does to registers from and address first, in registers g and memory m.
Does(i, from, first, g, m) ==
  LET end == Wrap32(from[i.reg] + i.size * Cardinality(i.list))
      Memory(r) == Joined(m, At(first, i.list, i.size, r), i.size)
  IN /\ i.to = "memory" =>
          /\ g = [from EXCEPT ![i.reg] = first]
          /\ \A r \in i.list : Memory(r) = Low(from[r], i.size)
     /\ i.to = "registers" /\ i.reg \notin i.list =>
          g = [r \in Registers |-> CASE r = i.reg -> end
                                     [] r \in i.list -> SignExtended(Memory(r), i.size)
                                     [] OTHER -> from[r]]

AttemptOK(a, g, m) ==
  a # NoAttempt => /\ a \in Attempt
                   /\ ~a.done => Underway(a, g)
                   /\ a.done => Does(a.of, a.from, a.first, g, m)

IInv ==
  /\ MachineOK(regs, mem, mapped)
  /\ FramesOK(frames, mem, mapped)
  /\ AttemptOK(attempt, regs, mem)

-----------------------------------------------------------------------------
\* Blocks of registers.

LEMMA ListIs ==
  ASSUME NEW list \in SUBSET Registers
  PROVE  IsFiniteSet(list) /\ Cardinality(list) \in Nat /\ list \subseteq Int
<1>1. list \in SUBSET (0 .. 15) /\ list \subseteq Int
  BY TransfersAssumption
<1>2. IsFiniteSet(0 .. 15)
  <2>1. \A a, b \in Int : IsFiniteSet(a .. b)
    BY FS_Interval
  <2>2. 0 \in Int /\ 15 \in Int
    OBVIOUS
  <2> QED
    BY <2>1, <2>2, Zenon
<1> QED
  BY <1>1, <1>2, FS_Subset, FS_CardinalityType

LEMMA SlotIs ==
  ASSUME NEW list \in SUBSET Registers
  PROVE  /\ \A r \in list : Slot(list, r) \in Nat /\ Slot(list, r) + 1 <= Cardinality(list)
         /\ \A q, r \in list : q < r => Slot(list, q) + 1 <= Slot(list, r)
<1>1. IsFiniteSet(list) /\ Cardinality(list) \in Nat /\ list \subseteq Int
  BY ListIs
<1> DEFINE Under(r) == {q \in list : q < r}
<1>2. ASSUME NEW r \in list
      PROVE  IsFiniteSet(Under(r)) /\ Cardinality(Under(r)) \in Nat /\ Cardinality(Under(r)) + 1 <= Cardinality(list)
  <2>1. Under(r) \in SUBSET list /\ r \in list /\ r \notin Under(r)
    BY <1>1, <1>2
  <2>2. IsFiniteSet(Under(r)) /\ Cardinality(Under(r)) <= Cardinality(list) /\ Cardinality(Under(r)) # Cardinality(list)
    BY <1>1, <2>1, FS_Subset
  <2>3. Cardinality(Under(r)) \in Nat
    BY <2>2, FS_CardinalityType
  <2> QED
    BY <1>1, <2>2, <2>3
<1>3. ASSUME NEW q \in list, NEW r \in list, q < r
      PROVE  Cardinality(Under(q)) + 1 <= Cardinality(Under(r))
  <2>0. \A x, y, z \in Int : x < y /\ y < z => x < z
    OBVIOUS
  <2>1. Under(q) \in SUBSET Under(r) /\ q \in Under(r) /\ q \notin Under(q)
    <3>1. ASSUME NEW x \in list, x < q PROVE x < r
      BY <1>1, <1>3, <2>0, <3>1
    <3>2. ~(q < q)
      BY <1>1
    <3> QED
      BY <1>3, <3>1, <3>2, Zenon
  <2>2. IsFiniteSet(Under(r)) /\ Cardinality(Under(r)) \in Nat /\ Cardinality(Under(q)) \in Nat
    BY <1>2
  <2>3. Cardinality(Under(q)) <= Cardinality(Under(r)) /\ Cardinality(Under(q)) # Cardinality(Under(r))
    BY <2>1, <2>2, FS_Subset
  <2> QED
    BY <2>2, <2>3
<1>4. \A r : Slot(list, r) = Cardinality(Under(r))
  BY DEF Slot
<1> HIDE DEF Under
<1> QED
  BY <1>2, <1>3, <1>4

\* A place for the registers of a list on the stack.
Region(first, list, size) ==
  /\ first \in Nat /\ list \in SUBSET Registers /\ size \in Sizes
  /\ first + size * Cardinality(list) <= StackTop

LEMMA StackTopIs ==
  /\ StackTop \in Nat /\ StackTop < Space /\ StackTop % 2 = 0
  /\ \A a \in Nat : a <= StackTop => a \in Value /\ Wrap(a) = a /\ Wrap32(a) = a
<1>1. StackTop \in Nat /\ StackTop < Space /\ StackTop % 2 = 0 /\ Space \in Nat /\ Space <= Mod(Long)
  BY TransfersAssumption, SpaceAssumption DEF Address
<1>2. Mod(Long) \in Nat
  BY ModIs DEF Sizes
<1>3. ASSUME NEW a \in Nat, a <= StackTop
      PROVE  a \in Value /\ Wrap(a) = a /\ Wrap32(a) = a
  <2>1. a \in Value /\ a \in 0 .. Space - 1
    BY <1>1, <1>2, <1>3 DEF Value
  <2>2. a % Space = a
    BY <1>1, <2>1, Remainder
  <2> QED
    BY <2>1, <2>2, WrapIs DEF Wrap
<1> QED
  BY <1>1, <1>3

(* On the stack nothing wraps: the registers of a list lie in a row.        *)
LEMMA AtIs ==
  ASSUME NEW first, NEW list, NEW size, Region(first, list, size), NEW r \in list
  PROVE  LET a == At(first, list, size, r)
         IN /\ a = first + size * Slot(list, r)
            /\ a \in Nat /\ first <= a /\ a + size <= first + size * Cardinality(list)
<1> DEFINE k == Slot(list, r)
           n == Cardinality(list)
<1>1. first \in Nat /\ list \in SUBSET Registers /\ size \in Sizes /\ first + size * n <= StackTop
  BY DEF Region
<1>2. k \in Nat /\ n \in Nat /\ k + 1 <= n
  BY <1>1, SlotIs, ListIs
<1> HIDE DEF k, n
<1>3. size * k \in Nat /\ size * k + size <= size * n /\ size * n \in Nat /\ size \in Nat
  BY <1>1, <1>2 DEF Sizes, Byte, Word, Long
<1> DEFINE a == first + size * k
<1>4. a \in Nat /\ first <= a /\ a + size <= first + size * n /\ a <= StackTop
  BY <1>1, <1>3, StackTopIs
<1>5. At(first, list, size, r) = Wrap(Wrap32(a))
  BY DEF At, a, k
<1> HIDE DEF a
<1>6. Wrap(Wrap32(a)) = a
  BY <1>4, StackTopIs
<1> QED
  BY <1>4, <1>5, <1>6 DEF a, k, n

\* Their bytes are apart.
LEMMA AtApart ==
  ASSUME NEW first, NEW list, NEW size, Region(first, list, size), NEW q \in list, NEW r \in list,
         NEW b \in Bytes(At(first, list, size, q), size), b \in Bytes(At(first, list, size, r), size)
  PROVE  q = r
<1> DEFINE k == Slot(list, q)
           l == Slot(list, r)
<1>1. first \in Nat /\ list \in SUBSET Registers /\ size \in Sizes
  BY DEF Region
<1>2. At(first, list, size, q) = first + size * k /\ At(first, list, size, r) = first + size * l
  BY AtIs
<1>3. k \in Nat /\ l \in Nat /\ q \in Int /\ r \in Int
  BY <1>1, SlotIs, ListIs
<1>4. (q < r => k + 1 <= l) /\ (r < q => l + 1 <= k)
  BY <1>1, SlotIs
<1> HIDE DEF k, l
<1>5. b \in first + size * k .. first + size * k + size - 1 /\ b \in first + size * l .. first + size * l + size - 1
  BY <1>2, Zenon DEF Bytes
<1>6. k = l
  BY <1>1, <1>3, <1>5 DEF Sizes, Byte, Word, Long
<1> QED
  BY <1>3, <1>4, <1>6
-----------------------------------------------------------------------------
\* What is written.

\* A write stays inside its operand.
LEMMA WrittenIs ==
  ASSUME NEW a \in Int, NEW s \in Sizes
  PROVE  /\ Written(a, s) \subseteq Bytes(a, s)
         /\ ~Faults(a, s) => Written(a, s) = Bytes(a, s) /\ Bytes(a, s) \subseteq mapped
<1>1. Bytes(a, Word) \subseteq Bytes(a, Long)
  BY DEF Bytes, Word, Long
<1>2. CASE ~Faults(a, s)
  <2>1. Written(a, s) = Bytes(a, s)
    BY <1>2 DEF Written
  <2> QED
    BY <1>2, <2>1 DEF Faults
<1>3. CASE Faults(a, s) /\ s = Long /\ ~Misaligned(a, Long) /\ Bytes(a, Word) \subseteq mapped
  <2>1. Written(a, s) = Bytes(a, Word)
    BY <1>3, Zenon DEF Written
  <2> QED
    BY <1>1, <1>3, <2>1
<1>4. CASE Faults(a, s) /\ ~(s = Long /\ ~Misaligned(a, Long) /\ Bytes(a, Word) \subseteq mapped)
  <2>1. Written(a, s) = {}
    BY <1>4, Zenon DEF Written
  <2> QED
    BY <1>4, <2>1
<1> QED
  BY <1>2, <1>3, <1>4, Zenon

(* A write that does not fault can be read back, and none reaches above its *)
(* operand.                                                                *)
LEMMA MemoryAfterIs ==
  ASSUME MachineOK(regs, mem, mapped), NEW a \in Int, NEW s \in Sizes, NEW v \in Int
  PROVE  /\ MemoryAfter(a, s, v) \in [Ram -> 0 .. Base - 1]
         /\ \A b \in Ram : b >= a + s => MemoryAfter(a, s, v)[b] = mem[b]
         /\ ~Faults(a, s) =>
              Bytes(a, s) \subseteq mapped /\ Joined(MemoryAfter(a, s, v), a, s) = Low(v, s)
<1> DEFINE m == MemoryAfter(a, s, v)
           byte(b) == IF b \in Written(a, s) THEN ByteOf(v, s, b - a) ELSE mem[b]
<1>1. mem \in [Ram -> 0 .. Base - 1] /\ mapped \subseteq Ram /\ Ram \subseteq Nat
  BY TransfersAssumption DEF MachineOK, Address
<1>2. m = [b \in Ram |-> byte(b)]
  BY DEF MemoryAfter
<1>3. Written(a, s) \subseteq Bytes(a, s) /\ (~Faults(a, s) => Written(a, s) = Bytes(a, s) /\ Bytes(a, s) \subseteq mapped)
  BY WrittenIs
<1>4. ASSUME NEW b \in Bytes(a, s)
      PROVE  b \in a .. a + s - 1 /\ b - a \in 0 .. s - 1 /\ ByteOf(v, s, b - a) \in 0 .. Base - 1
  <2>1. b \in a .. a + s - 1
    BY <1>4 DEF Bytes
  <2>2. b - a \in 0 .. s - 1
    BY <2>1 DEF Sizes, Byte, Word, Long
  <2> QED
    BY <2>1, <2>2, ByteType
<1>5. ASSUME NEW b \in Ram PROVE byte(b) \in 0 .. Base - 1
  <2>1. CASE b \in Written(a, s)
    BY <1>3, <1>4, <2>1
  <2>2. CASE b \notin Written(a, s)
    BY <1>1, <2>2
  <2> QED
    BY <2>1, <2>2
<1>6. ASSUME NEW b \in Ram, b >= a + s PROVE byte(b) = mem[b]
  <2>1. b \notin Bytes(a, s)
    BY <1>1, <1>6 DEF Bytes, Sizes, Byte, Word, Long
  <2> QED
    BY <1>3, <2>1
<1>7. ASSUME ~Faults(a, s)
      PROVE  Joined(m, a, s) = Low(v, s)
  <2>1. ASSUME NEW k \in 0 .. s - 1 PROVE m[a + k] = ByteOf(v, s, k)
    <3>1. a + k \in Bytes(a, s) /\ (a + k) - a = k
      BY DEF Bytes, Sizes, Byte, Word, Long
    <3>2. a + k \in Written(a, s) /\ a + k \in Ram
      BY <1>1, <1>3, <1>7, <3>1, Zenon
    <3>3. byte(a + k) = ByteOf(v, s, k)
      BY <3>1, <3>2
    <3> HIDE DEF byte
    <3> QED
      BY <1>2, <3>2, <3>3
  <2> HIDE DEF m
  <2> QED
    BY <2>1, JoinedIs
<1> HIDE DEF byte
<1>8. m \in [Ram -> 0 .. Base - 1] /\ \A b \in Ram : m[b] = byte(b)
  BY <1>2, <1>5
<1> QED
  BY <1>3, <1>6, <1>7, <1>8

\* The same for the registers of a list.
LEMMA MovemMemoryIs ==
  ASSUME MachineOK(regs, mem, mapped), NEW first, NEW list, NEW size, Region(first, list, size)
  PROVE  /\ MovemMemory(first, list, size) \in [Ram -> 0 .. Base - 1]
         /\ \A b \in Ram : b >= first + size * Cardinality(list) => MovemMemory(first, list, size)[b] = mem[b]
         /\ Failing(first, list, size) = {} =>
              \A r \in list :
                 /\ Bytes(At(first, list, size, r), size) \subseteq mapped
                 /\ Joined(MovemMemory(first, list, size), At(first, list, size, r), size) = Low(regs[r], size)
<1> DEFINE m == MovemMemory(first, list, size)
           place(r) == At(first, list, size, r)
           hit(b) == \E r \in Reached(first, list, size, TRUE) : b \in Written(place(r), size)
           of(b) == CHOOSE q \in list : b \in Bytes(place(q), size)
           byte(b) == IF hit(b) THEN ByteOf(Low(regs[of(b)], size), size, b - place(of(b))) ELSE mem[b]
<1>1. mem \in [Ram -> 0 .. Base - 1] /\ mapped \subseteq Ram /\ Ram \subseteq Nat /\ regs \in [Registers -> Value]
  BY TransfersAssumption DEF MachineOK, Address
<1>2. m = [b \in Ram |-> byte(b)]
  BY DEF MovemMemory
<1>3. list \subseteq Registers /\ size \in Sizes /\ first \in Nat
  BY DEF Region
<1>4. \A r \in list : place(r) \in Nat /\ place(r) \in Int /\ place(r) + size <= first + size * Cardinality(list)
  BY AtIs
<1>5. Reached(first, list, size, TRUE) \subseteq list
  BY DEF Reached
<1>6. \A r \in list : regs[r] \in Int /\ Low(regs[r], size) \in Int /\ Low(regs[r], size) \in 0 .. Mod(size) - 1
  <2> SUFFICES ASSUME NEW r \in list
               PROVE  regs[r] \in Int /\ Low(regs[r], size) \in Int /\ Low(regs[r], size) \in 0 .. Mod(size) - 1
    OBVIOUS
  <2>1. regs[r] \in Value
    BY <1>1, <1>3
  <2>2. regs[r] \in Int
    BY <2>1, ValueIs
  <2> QED
    BY <1>3, <2>2, LowIs
<1> HIDE DEF m, place
<1>7. ASSUME NEW b, hit(b)
      PROVE  of(b) \in list /\ b \in Bytes(place(of(b)), size)
  <2>1. PICK r \in Reached(first, list, size, TRUE) : b \in Written(place(r), size)
    BY <1>7
  <2>2. r \in list /\ b \in Bytes(place(r), size)
    BY <1>3, <1>4, <1>5, <2>1, WrittenIs
  <2> QED
    BY <2>2
<1>8. \A r \in list : \A b \in Bytes(place(r), size) :
        b \in place(r) .. place(r) + size - 1 /\ b - place(r) \in 0 .. size - 1
  BY <1>3, <1>4 DEF Bytes, Sizes, Byte, Word, Long
<1> HIDE DEF hit, of
<1>9. ASSUME NEW b \in Ram PROVE byte(b) \in 0 .. Base - 1
  <2>1. CASE hit(b)
    <3>1. ByteOf(Low(regs[of(b)], size), size, b - place(of(b))) \in 0 .. Base - 1
      BY <1>3, <1>6, <1>7, <1>8, <2>1, ByteType
    <3> QED
      BY <2>1, <3>1
  <2>2. CASE ~hit(b)
    BY <1>1, <2>2
  <2> QED
    BY <2>1, <2>2
<1>10. ASSUME NEW b \in Ram, b >= first + size * Cardinality(list) PROVE byte(b) = mem[b]
  <2>1. ASSUME hit(b) PROVE FALSE
    <3>1. of(b) \in list /\ b \in place(of(b)) .. place(of(b)) + size - 1
      BY <1>7, <1>8, <2>1
    <3> DEFINE c == Cardinality(list)
               a == place(of(b))
    <3>2. c \in Nat /\ a \in Nat /\ a + size <= first + size * c /\ b >= first + size * c /\ b \in a .. a + size - 1
      BY <1>3, <1>4, <1>10, <3>1, ListIs
    <3> HIDE DEF c, a
    <3> QED
      BY <1>3, <3>2 DEF Sizes, Byte, Word, Long
  <2> QED
    BY <2>1
<1>11. ASSUME Failing(first, list, size) = {}, NEW r \in list
       PROVE  Bytes(place(r), size) \subseteq mapped /\ Joined(m, place(r), size) = Low(regs[r], size)
  <2>1. ~Faults(place(r), size)
    BY <1>11 DEF Failing, place
  <2>2. Written(place(r), size) = Bytes(place(r), size) /\ Bytes(place(r), size) \subseteq mapped
    BY <1>3, <1>4, <2>1, WrittenIs
  <2>3. r \in Reached(first, list, size, TRUE)
    BY <1>11 DEF Reached
  <2>4. ASSUME NEW k \in 0 .. size - 1 PROVE m[place(r) + k] = ByteOf(Low(regs[r], size), size, k)
    <3> DEFINE b == place(r) + k
    <3>1. b \in Bytes(place(r), size) /\ b - place(r) = k
      BY <1>3, <1>4 DEF Bytes, Sizes, Byte, Word, Long
    <3> HIDE DEF b
    <3>2. hit(b) /\ b \in Ram
      BY <1>1, <2>2, <2>3, <3>1 DEF hit
    <3>3. of(b) = r
      <4>1. of(b) \in list /\ b \in Bytes(place(of(b)), size)
        BY <1>7, <3>2
      <4> QED
        BY <3>1, <4>1, AtApart DEF place
    <3>4. byte(b) = ByteOf(Low(regs[r], size), size, k)
      BY <3>1, <3>2, <3>3
    <3> HIDE DEF byte
    <3> QED
      BY <1>2, <3>2, <3>4 DEF b
  <2>5. Joined(m, place(r), size) = Low(Low(regs[r], size), size)
    BY <1>3, <1>4, <1>6, <2>4, JoinedIs
  <2>6. Low(Low(regs[r], size), size) = Low(regs[r], size)
    BY <1>3, <1>6, LowIs
  <2> QED
    BY <2>2, <2>5, <2>6
<1> HIDE DEF byte
<1>12. m \in [Ram -> 0 .. Base - 1] /\ \A b \in Ram : m[b] = byte(b)
  BY <1>2, <1>9
<1> QED
  BY <1>10, <1>11, <1>12 DEF m, place

(* What is loaded is a value, wherever it comes from.                       *)
LEMMA MovemRegistersIs ==
  ASSUME MachineOK(regs, mem, mapped), NEW first \in Int, NEW list \in SUBSET Registers, NEW size \in Sizes
  PROVE  /\ MovemRegisters(first, list, size) \in [Registers -> Value]
         /\ \A r \in Registers \ list : MovemRegisters(first, list, size)[r] = regs[r]
         /\ Failing(first, list, size) = {} =>
              \A r \in list : MovemRegisters(first, list, size)[r]
                              = SignExtended(Joined(mem, At(first, list, size, r), size), size)
<1> DEFINE g == MovemRegisters(first, list, size)
           place(r) == At(first, list, size, r)
           loaded == Reached(first, list, size, FALSE) \ Failing(first, list, size)
           value(r) == IF r \in loaded THEN SignExtended(Joined(mem, place(r), size), size) ELSE regs[r]
<1>1. mem \in [Ram -> 0 .. Base - 1] /\ mapped \subseteq Ram /\ regs \in [Registers -> Value]
  BY DEF MachineOK
<1>2. g = [r \in Registers |-> value(r)]
  BY DEF MovemRegisters
<1>3. loaded \subseteq list
  BY DEF Reached
<1>4. \A r \in list : place(r) \in Int
  <2> SUFFICES ASSUME NEW r \in list PROVE place(r) \in Int
    OBVIOUS
  <2>1. Slot(list, r) \in Nat
    BY SlotIs
  <2>2. first + size * Slot(list, r) \in Int
    BY <2>1 DEF Sizes, Byte, Word, Long
  <2>3. Wrap32(first + size * Slot(list, r)) \in Nat
    BY <2>2, WrapIs, ValueIs
  <2>4. \A n \in Nat : Wrap(n) \in Int
    BY SpaceAssumption, Remainder DEF Wrap
  <2> QED
    BY <2>3, <2>4 DEF At
<1>5. ASSUME NEW r \in Registers PROVE value(r) \in Value
  <2>1. CASE r \in loaded
    <3>1. ~Faults(place(r), size) /\ r \in list
      BY <1>3, <2>1 DEF Failing
    <3>2. Bytes(place(r), size) \subseteq Ram
      BY <1>1, <3>1 DEF Faults
    <3>3. Joined(mem, place(r), size) \in 0 .. Mod(size) - 1
      BY <1>1, <1>4, <3>1, <3>2, JoinedType
    <3>4. Joined(mem, place(r), size) \in Int
      BY <3>3, ModIs
    <3>5. SignExtended(Joined(mem, place(r), size), size) \in Value
      BY <3>4, SignExtendedType
    <3> QED
      BY <2>1, <3>5
  <2>2. CASE r \notin loaded
    BY <1>1, <2>2
  <2> QED
    BY <2>1, <2>2
<1>6. \A r \in Registers \ list : value(r) = regs[r]
  BY <1>3
<1>7. Failing(first, list, size) = {} =>
        \A r \in list : value(r) = SignExtended(Joined(mem, place(r), size), size)
  <2> SUFFICES ASSUME Failing(first, list, size) = {}, NEW r \in list PROVE r \in loaded
    BY Zenon
  <2> QED
    BY DEF Reached
<1> HIDE DEF value, loaded
<1>8. g \in [Registers -> Value] /\ \A r \in Registers : g[r] = value(r)
  BY <1>2, <1>5
<1> QED
  BY <1>6, <1>7, <1>8
-----------------------------------------------------------------------------
\* The stack of blocks.

LEMMA EvenOffset ==
  ASSUME NEW a \in Int, a % 2 = 0
  PROVE  /\ (a + 2) % 2 = 0 /\ (a - 2) % 2 = 0 /\ (a + 4) % 2 = 0 /\ (a - 4) % 2 = 0
         /\ \A d \in Int : d % 2 = 0 => (a + d) % 2 = 0
  OBVIOUS

(* Where a block lies.                                                     *)
LEMMA BlockIs ==
  ASSUME NEW f, Block(f)
  PROVE  /\ Region(f.low, f.list, f.size)
         /\ f.low \in Nat /\ f.top \in Nat /\ f.low \in Value /\ f.top \in Value
         /\ f.size \in Sizes /\ f.list \subseteq Registers
         /\ f.by # "movem" => \E r \in Registers : f.list = {r} /\ At(f.low, f.list, f.size, r) = f.low
<1>1. /\ f.low \in Value /\ f.top \in Value /\ f.size \in Sizes /\ f.list \in SUBSET Registers
      /\ f.by \in {"movem", "move", "link"}
  BY DEF Block, Frame
<1>2. f.low \in Nat /\ f.top \in Nat
  BY <1>1, ValueIs
<1>3. f.low + Extent(f) = f.top /\ f.top <= StackTop
  BY DEF Block
<1>4. \A r : f.list = {r} => Cardinality(f.list) = 1
  BY FS_Singleton
<1>5. f.size * Cardinality(f.list) \in Nat /\ f.size * Cardinality(f.list) <= Extent(f) /\ Extent(f) \in Nat
  <2>1. CASE f.by = "movem"
    <3>1. Cardinality(f.list) \in Nat /\ Extent(f) = f.size * Cardinality(f.list)
      BY <1>1, <2>1, ListIs DEF Extent
    <3> QED
      BY <1>1, <3>1 DEF Sizes, Byte, Word, Long
  <2>2. CASE f.by # "movem"
    <3>1. Cardinality(f.list) = 1 /\ Extent(f) = AddressRegisterStep(SP, f.size)
      BY <1>4, <2>2 DEF Block, Extent
    <3>2. f.size \in Nat /\ AddressRegisterStep(SP, f.size) \in Nat /\ f.size <= AddressRegisterStep(SP, f.size)
      BY <1>1 DEF AddressRegisterStep, Sizes, Byte, Word, Long
    <3> QED
      BY <3>1, <3>2
  <2> QED
    BY <2>1, <2>2
<1>6. Region(f.low, f.list, f.size)
  <2> DEFINE n == f.size * Cardinality(f.list)
             e == Extent(f)
  <2>1. n \in Nat /\ e \in Nat /\ n <= e /\ f.low + e <= StackTop
    BY <1>3, <1>5
  <2> HIDE DEF n, e
  <2>2. f.low + n <= StackTop
    BY <1>2, <2>1, StackTopIs
  <2> QED
    BY <1>1, <1>2, <2>2 DEF Region, n
<1>7. ASSUME f.by # "movem"
      PROVE  \E r \in Registers : f.list = {r} /\ At(f.low, f.list, f.size, r) = f.low
  <2>1. PICK r \in Registers : f.list = {r}
    BY <1>7 DEF Block
  <2>2. Slot(f.list, r) \in Nat /\ Slot(f.list, r) + 1 <= 1
    BY <1>1, <1>4, <2>1, SlotIs
  <2>3. Slot(f.list, r) = 0
    BY <2>2
  <2>4. At(f.low, f.list, f.size, r) = f.low + f.size * 0
    BY <1>6, <2>1, <2>3, AtIs
  <2> QED
    BY <1>1, <1>2, <2>1, <2>4 DEF Sizes, Byte, Word, Long
<1> QED
  BY <1>1, <1>2, <1>6, <1>7

(* A block stays as long as what lies at and above its start does.          *)
LEMMA HeldStays ==
  ASSUME NEW f, Block(f), NEW m, NEW n, NEW p, NEW o, Held(f, m, p), p \subseteq o, p \subseteq Ram,
         \A b \in Ram : b >= f.low => n[b] = m[b]
  PROVE  Held(f, n, o)
<1>1. Region(f.low, f.list, f.size) /\ f.low \in Nat /\ f.size \in Sizes
  BY BlockIs
<1> SUFFICES ASSUME NEW r \in f.list
             PROVE  LET a == At(f.low, f.list, f.size, r)
                    IN Bytes(a, f.size) \subseteq o /\ Joined(n, a, f.size) = Low(f.saved[r], f.size)
  BY DEF Held
<1> DEFINE a == At(f.low, f.list, f.size, r)
<1>2. a \in Nat /\ f.low <= a
  BY <1>1, AtIs
<1>3. Bytes(a, f.size) \subseteq p /\ Joined(m, a, f.size) = Low(f.saved[r], f.size)
  BY DEF Held
<1> HIDE DEF a
<1>4. \A b \in a .. a + f.size - 1 : n[b] = m[b]
  <2> SUFFICES ASSUME NEW b \in a .. a + f.size - 1 PROVE n[b] = m[b]
    OBVIOUS
  <2>1. b \in Ram
    BY <1>3 DEF Bytes
  <2>2. b >= f.low
    BY <1>1, <1>2 DEF Sizes, Byte, Word, Long
  <2> QED
    BY <2>1, <2>2
<1>5. Joined(n, a, f.size) = Joined(m, a, f.size)
  BY <1>1, <1>2, <1>4, JoinedSame
<1> QED
  BY <1>3, <1>5 DEF a

\* So does the stack of them.
LEMMA FramesStay ==
  ASSUME NEW s, NEW m, NEW n, NEW p, NEW o, FramesOK(s, m, p), p \subseteq o, p \subseteq Ram,
         \A i \in DOMAIN s : \A b \in Ram : b >= s[i].low => n[b] = m[b]
  PROVE  FramesOK(s, n, o)
<1>1. \A i \in DOMAIN s : Held(s[i], n, o)
  <2> SUFFICES ASSUME NEW i \in DOMAIN s PROVE Held(s[i], n, o)
    OBVIOUS
  <2>1. Block(s[i]) /\ Held(s[i], m, p)
    BY DEF FramesOK
  <2>2. \A b \in Ram : b >= s[i].low => n[b] = m[b]
    OBVIOUS
  <2> QED
    BY <2>1, <2>2, HeldStays
<1> QED
  BY <1>1 DEF FramesOK

\* One more block below the others.
LEMMA FramesGrow ==
  ASSUME NEW s, NEW m, NEW p, NEW f, FramesOK(s, m, p), Block(f), Held(f, m, p),
         \A i \in DOMAIN s : f.top <= s[i].low
  PROVE  FramesOK(Append(s, f), m, p) /\ Len(Append(s, f)) = Len(s) + 1
<1> DEFINE t == Append(s, f)
<1>1. s \in Seq(Frame) /\ f \in Frame
  BY DEF FramesOK, Block
<1>2. /\ t \in Seq(Frame) /\ Len(t) = Len(s) + 1 /\ DOMAIN t = 1 .. Len(s) + 1
      /\ t[Len(s) + 1] = f /\ \A i \in 1 .. Len(s) : t[i] = s[i]
  BY <1>1, AppendProperties
<1>3. DOMAIN s = 1 .. Len(s) /\ Len(s) \in Nat
  BY <1>1
<1> HIDE DEF t
<1>4. ASSUME NEW i \in DOMAIN t PROVE Block(t[i]) /\ Held(t[i], m, p)
  <2>1. i \in DOMAIN s \/ i = Len(s) + 1
    BY <1>2, <1>3
  <2> QED
    BY <1>2, <1>3, <2>1 DEF FramesOK
<1>5. Stacked(t)
  <2> SUFFICES ASSUME NEW i \in DOMAIN t, NEW j \in DOMAIN t, j < i PROVE t[i].top <= t[j].low
    BY DEF Stacked
  <2>1. j \in DOMAIN s
    BY <1>2, <1>3
  <2>2. CASE i = Len(s) + 1
    BY <1>2, <1>3, <2>1, <2>2
  <2>3. CASE i # Len(s) + 1
    <3>1. i \in DOMAIN s
      BY <1>2, <1>3, <2>3
    <3> QED
      BY <1>2, <1>3, <2>1, <3>1 DEF FramesOK, Stacked
  <2> QED
    BY <2>2, <2>3
<1> QED
  BY <1>2, <1>4, <1>5 DEF FramesOK, t

\* One block less.
LEMMA FramesShrink ==
  ASSUME NEW s, NEW m, NEW p, FramesOK(s, m, p), s # <<>>
  PROVE  /\ Len(s) \in DOMAIN s /\ Block(s[Len(s)]) /\ Held(s[Len(s)], m, p)
         /\ FramesOK(SubSeq(s, 1, Len(s) - 1), m, p)
<1> DEFINE t == SubSeq(s, 1, Len(s) - 1)
<1>1. s \in Seq(Frame) /\ Len(s) \in Nat /\ DOMAIN s = 1 .. Len(s) /\ Len(s) # 0
  BY EmptySeq DEF FramesOK
<1>2. t \in Seq(Frame) /\ DOMAIN t = 1 .. Len(s) - 1 /\ \A i \in 1 .. Len(s) - 1 : t[i] = s[i]
  BY <1>1, SubSeqProperties
<1> HIDE DEF t
<1>3. \A i \in DOMAIN t : i \in DOMAIN s /\ t[i] = s[i]
  BY <1>1, <1>2
<1>4. FramesOK(t, m, p)
  BY <1>2, <1>3 DEF FramesOK, Stacked
<1>5. Len(s) \in DOMAIN s
  BY <1>1
<1> QED
  BY <1>4, <1>5 DEF FramesOK, t
-----------------------------------------------------------------------------
\* Saving.

(* What an instruction that moves the stack pointer down and does not pass  *)
(* StackTop above finds there.                                              *)
LEMMA Unwrapped ==
  ASSUME NEW v \in Value, NEW n \in Nat, Wrap32(v - n) + n <= StackTop
  PROVE  v = Wrap32(v - n) + n
<1> DEFINE m == Mod(Long)
           w == Wrap32(v - n)
           q == (v - n) \div m
<1>1. m \in Nat \ {0} /\ v \in 0 .. m - 1 /\ v \in Int /\ v - n \in Int
  BY ModIs, ValueIs DEF Value, Sizes
<1>2. w = (v - n) % m
  BY DEF Wrap32, Low
<1>3. w \in Value /\ w \in Nat
  BY <1>1, WrapIs, ValueIs
<1>4. w + n \in Value
  BY <1>3, StackTopIs
<1> HIDE DEF m
<1>5. v - n = m * q + w /\ q \in Int
  <2> DEFINE u == v - n
  <2>1. u \in Int
    BY <1>1
  <2> HIDE DEF u
  <2>2. u = m * (u \div m) + (u % m) /\ u \div m \in Int
    BY <1>1, <2>1, DivMod
  <2> QED
    BY <1>2, <2>2 DEF u
<1>6. w + n \in 0 .. m - 1
  BY <1>4 DEF Value, m
<1> HIDE DEF m, w, q
<1>7. v = m * q + (w + n)
  BY <1>1, <1>3, <1>5
<1>8. v % m = w + n
  BY <1>1, <1>5, <1>6, <1>7, Packed
<1>9. v % m = v
  BY <1>1, Remainder
<1> QED
  BY <1>8, <1>9 DEF w

LEMMA StepIs ==
  /\ \A s \in Sizes : AddressRegisterStep(SP, s) \in {2, 4} /\ s <= AddressRegisterStep(SP, s)
  /\ AddressRegisterStep(SP, Long) = Long
BY DEF AddressRegisterStep, Sizes, Byte, Word, Long

NewBlock(by, list, size, top, low) ==
  [by |-> by, list |-> list, size |-> size, saved |-> [r \in list |-> regs[r]], top |-> top, low |-> low]

IsBlockOf(f, by, list, size, top, low) ==
  /\ f \in Frame /\ f.by = by /\ f.list = list /\ f.size = size /\ f.top = top /\ f.low = low
  /\ f.saved \in [list -> Value] /\ \A r \in list : f.saved[r] = regs[r]

LEMMA NewBlockIs ==
  ASSUME MachineOK(regs, mem, mapped), NEW by \in {"movem", "move", "link"}, NEW list \in SUBSET Registers,
         NEW size \in Sizes, NEW top \in Value, NEW low \in Value
  PROVE  IsBlockOf(NewBlock(by, list, size, top, low), by, list, size, top, low)
<1> DEFINE f == NewBlock(by, list, size, top, low)
           saved == [r \in list |-> regs[r]]
<1>1. saved \in [list -> Value] /\ \A r \in list : saved[r] = regs[r]
  BY DEF MachineOK
<1>2. saved \in UNION {[l -> Value] : l \in SUBSET Registers}
  BY <1>1, Zenon
<1> HIDE DEF saved
<1>3. f = [by |-> by, list |-> list, size |-> size, saved |-> saved, top |-> top, low |-> low]
  BY DEF NewBlock, saved
<1> HIDE DEF f
<1>4. f \in Frame
  BY <1>2, <1>3 DEF Frame
<1>5. f.by = by /\ f.list = list /\ f.size = size /\ f.top = top /\ f.low = low /\ f.saved = saved
  BY <1>3
<1> QED
  BY <1>1, <1>4, <1>5 DEF f, IsBlockOf

(* The stack pointer before a push of one register.                         *)
PushedTo(size) == Wrap32(regs[SP] - AddressRegisterStep(SP, size))

(* The stack pointer is even, and so is what bounds a push from above: a    *)
(* byte finds room for the two by which A7 moves.                           *)
LEMMA PushedIs ==
  ASSUME MachineOK(regs, mem, mapped), FramesOK(frames, mem, mapped),
         NEW size \in Sizes, Below(PushedTo(size), size)
  PROVE  LET low == PushedTo(size)
         IN /\ low \in Value /\ low \in Nat /\ low % 2 = 0 /\ Wrap(low) = low
            /\ regs[SP] = low + AddressRegisterStep(SP, size)
            /\ regs[SP] <= StackTop
            /\ \A i \in DOMAIN frames : low + size <= frames[i].low /\ regs[SP] <= frames[i].low
<1> DEFINE low == PushedTo(size)
           step == AddressRegisterStep(SP, size)
<1>1. regs[SP] \in Value /\ regs[SP] \in Nat /\ regs[SP] % 2 = 0
  BY TransfersAssumption, ValueIs DEF MachineOK
<1>2. step \in {2, 4} /\ size <= step /\ (step = 2 \/ size = step)
  BY DEF AddressRegisterStep, Sizes, Byte, Word, Long
<1>3. low \in Value /\ low \in Nat /\ low = Wrap32(regs[SP] - step)
  <2>1. regs[SP] - step \in Int
    BY <1>1, <1>2
  <2> QED
    BY <2>1, WrapIs, ValueIs DEF PushedTo
<1>4. low % 2 = 0
  <2>1. regs[SP] - step \in Int /\ (regs[SP] - step) % 2 = 0
    BY <1>1, <1>2, EvenOffset
  <2> QED
    BY <1>3, <2>1, EvenWrap
<1>5. low + size <= StackTop /\ \A i \in DOMAIN frames : low + size <= frames[i].low
  BY DEF Below
<1> HIDE DEF low, step
<1>6. \A x \in Nat : x % 2 = 0 /\ low + size <= x => low + step <= x
  BY <1>2, <1>3, <1>4 DEF Sizes, Byte, Word, Long
<1>7. low + step <= StackTop
  BY <1>5, <1>6, StackTopIs
<1>8. regs[SP] = low + step
  BY <1>1, <1>2, <1>3, <1>7, Unwrapped
<1>9. \A i \in DOMAIN frames : low + step <= frames[i].low
  <2> SUFFICES ASSUME NEW i \in DOMAIN frames PROVE low + step <= frames[i].low
    OBVIOUS
  <2>1. Block(frames[i])
    BY DEF FramesOK
  <2>2. frames[i].low \in Nat /\ frames[i].low % 2 = 0
    BY <2>1, BlockIs DEF Block
  <2> QED
    BY <1>5, <1>6, <2>2
<1>10. Wrap(low) = low
  BY <1>2, <1>3, <1>7, StackTopIs
<1> QED
  BY <1>3, <1>4, <1>5, <1>7, <1>8, <1>9, <1>10 DEF low, step

\* Saving one register, by MOVE or LINK.
LEMMA Pushed ==
  ASSUME MachineOK(regs, mem, mapped), FramesOK(frames, mem, mapped),
         NEW by \in {"move", "link"}, NEW r \in Registers \ {SP}, NEW size \in Sizes,
         by = "link" => size = Long /\ ~IsData(r),
         NEW v \in Int, Low(v, size) = Low(regs[r], size),
         Below(PushedTo(size), size)
  PROVE  LET low == PushedTo(size)
             m == MemoryAfter(low, size, v)
         IN /\ MachineOK(regs, m, mapped)
            /\ FramesOK(frames, m, mapped)
            /\ ~Faults(low, size) => FramesOK(Append(frames, NewBlock(by, {r}, size, regs[SP], low)), m, mapped)
<1> DEFINE low == PushedTo(size)
           m == MemoryAfter(low, size, v)
           f == NewBlock(by, {r}, size, regs[SP], low)
<1>1. /\ low \in Value /\ low \in Nat /\ low % 2 = 0 /\ regs[SP] = low + AddressRegisterStep(SP, size)
      /\ regs[SP] <= StackTop
      /\ \A i \in DOMAIN frames : low + size <= frames[i].low /\ regs[SP] <= frames[i].low
  BY PushedIs
<1> HIDE DEF low
<1>2. /\ m \in [Ram -> 0 .. Base - 1] /\ \A b \in Ram : b >= low + size => m[b] = mem[b]
      /\ ~Faults(low, size) => Bytes(low, size) \subseteq mapped /\ Joined(m, low, size) = Low(v, size)
  <2>1. low \in Int
    BY <1>1
  <2> QED
    BY <2>1, MemoryAfterIs, ZenonT(60)
<1> HIDE DEF m
<1>3. MachineOK(regs, m, mapped) /\ mapped \subseteq Ram /\ Ram \subseteq Nat
  BY <1>2, TransfersAssumption DEF MachineOK, Address
<1>4. FramesOK(frames, m, mapped)
  <2>1. ASSUME NEW i \in DOMAIN frames, NEW b \in Ram, b >= frames[i].low PROVE m[b] = mem[b]
    <3>1. Block(frames[i])
      BY DEF FramesOK
    <3>2. frames[i].low \in Nat
      BY <3>1, BlockIs
    <3>3. b \in Nat
      BY <1>3
    <3>4. b >= low + size
      BY <1>1, <2>1, <3>2, <3>3 DEF Sizes, Byte, Word, Long
    <3> QED
      BY <1>2, <3>4
  <2> QED
    BY <1>3, <2>1, FramesStay
<1>5. ASSUME ~Faults(low, size) PROVE FramesOK(Append(frames, f), m, mapped)
  <2>1. regs[SP] \in Value /\ regs[SP] % 2 = 0 /\ {r} \in SUBSET Registers /\ SP \notin {r}
    BY TransfersAssumption DEF MachineOK
  <2>2. /\ f \in Frame /\ f.by = by /\ f.list = {r} /\ f.size = size /\ f.top = regs[SP] /\ f.low = low
        /\ f.saved \in [{r} -> Value] /\ \A q \in {r} : f.saved[q] = regs[q]
    <3>1. by \in {"movem", "move", "link"}
      OBVIOUS
    <3>2. IsBlockOf(f, by, {r}, size, regs[SP], low)
      BY <1>1, <2>1, <3>1, NewBlockIs
    <3> HIDE DEF f
    <3> QED
      BY <3>2, Zenon DEF IsBlockOf
  <2> HIDE DEF f
  <2>3. Extent(f) = AddressRegisterStep(SP, size)
    BY <2>2 DEF Extent
  <2>4. Block(f)
    BY <1>1, <2>1, <2>2, <2>3 DEF Block
  <2>5. Held(f, m, mapped)
    <3>1. At(f.low, f.list, f.size, r) = low
      BY <2>2, <2>4, BlockIs
    <3>2. Bytes(low, size) \subseteq mapped /\ Joined(m, low, size) = Low(f.saved[r], size)
      BY <1>2, <1>5, <2>2
    <3> QED
      BY <2>2, <3>1, <3>2 DEF Held
  <2>6. \A i \in DOMAIN frames : f.top <= frames[i].low
    BY <1>1, <2>2
  <2> QED
    BY <1>4, <2>4, <2>5, <2>6, FramesGrow
<1> QED
  BY <1>3, <1>4, <1>5 DEF low, m, f

(* The same for a list of registers.                                        *)
LEMMA Listed ==
  ASSUME MachineOK(regs, mem, mapped), FramesOK(frames, mem, mapped),
         NEW list \in SUBSET Registers, SP \notin list, NEW size \in {Word, Long}, NEW first,
         first = Wrap32(regs[SP] - size * Cardinality(list)),
         Below(first, size * Cardinality(list))
  PROVE  LET m == MovemMemory(first, list, size)
         IN /\ first \in Value /\ first % 2 = 0 /\ Region(first, list, size)
            /\ MachineOK(regs, m, mapped)
            /\ FramesOK(frames, m, mapped)
            /\ Failing(first, list, size) = {} =>
                 FramesOK(Append(frames, NewBlock("movem", list, size, regs[SP], first)), m, mapped)
<1> DEFINE m == MovemMemory(first, list, size)
           f == NewBlock("movem", list, size, regs[SP], first)
           n == size * Cardinality(list)
<1>1. regs[SP] \in Value /\ regs[SP] \in Nat /\ regs[SP] % 2 = 0
  BY TransfersAssumption, ValueIs DEF MachineOK
<1>2. n \in Nat /\ n % 2 = 0 /\ size \in Sizes /\ size # Byte
  <2>1. Cardinality(list) \in Nat
    BY ListIs
  <2> QED
    BY <2>1 DEF Sizes, Byte, Word, Long
<1>3. first = Wrap32(regs[SP] - n) /\ first + n <= StackTop /\ \A i \in DOMAIN frames : first + n <= frames[i].low
  BY DEF Below
<1>4. Region(first, list, size) /\ first \in Value /\ first \in Nat /\ first % 2 = 0 /\ regs[SP] = first + n
  <2> HIDE DEF n
  <2>1. regs[SP] - n \in Int /\ (regs[SP] - n) % 2 = 0
    BY <1>1, <1>2
  <2>2. first \in Value /\ first \in Nat
    BY <1>3, <2>1, WrapIs, ValueIs
  <2>3. first % 2 = 0
    BY <1>3, <2>1, EvenWrap
  <2>4. regs[SP] = first + n
    BY <1>1, <1>2, <1>3, Unwrapped
  <2> QED
    BY <1>2, <1>3, <2>2, <2>3, <2>4 DEF Region, n
<1>5. /\ m \in [Ram -> 0 .. Base - 1] /\ \A b \in Ram : b >= first + n => m[b] = mem[b]
      /\ Failing(first, list, size) = {} =>
           \A r \in list : Bytes(At(first, list, size, r), size) \subseteq mapped
                           /\ Joined(m, At(first, list, size, r), size) = Low(regs[r], size)
  BY <1>4, MovemMemoryIs
<1> HIDE DEF m
<1>6. MachineOK(regs, m, mapped) /\ mapped \subseteq Ram /\ Ram \subseteq Nat
  BY <1>5, TransfersAssumption DEF MachineOK, Address
<1>7. FramesOK(frames, m, mapped)
  <2>1. ASSUME NEW i \in DOMAIN frames, NEW b \in Ram, b >= frames[i].low PROVE m[b] = mem[b]
    <3>1. Block(frames[i])
      BY DEF FramesOK
    <3>2. frames[i].low \in Nat
      BY <3>1, BlockIs
    <3>3. b \in Nat
      BY <1>6
    <3> HIDE DEF n
    <3>4. b >= first + n
      BY <1>2, <1>3, <1>4, <2>1, <3>2, <3>3
    <3> QED
      BY <1>5, <3>4 DEF n
  <2> QED
    BY <1>6, <2>1, FramesStay
<1>8. ASSUME Failing(first, list, size) = {} PROVE FramesOK(Append(frames, f), m, mapped)
  <2>2. /\ f \in Frame /\ f.by = "movem" /\ f.list = list /\ f.size = size /\ f.top = regs[SP] /\ f.low = first
        /\ f.saved \in [list -> Value] /\ \A q \in list : f.saved[q] = regs[q]
    <3>1. "movem" \in {"movem", "move", "link"}
      OBVIOUS
    <3>2. IsBlockOf(f, "movem", list, size, regs[SP], first)
      BY <1>1, <1>2, <1>4, <3>1, NewBlockIs
    <3> HIDE DEF f
    <3> QED
      BY <3>2, Zenon DEF IsBlockOf
  <2> HIDE DEF f
  <2>3. Extent(f) = n
    BY <2>2 DEF Extent
  <2>4. Block(f)
    <3>1. f.top = f.low + Extent(f) /\ f.top <= StackTop
      BY <1>3, <1>4, <2>2, <2>3
    <3> HIDE DEF n
    <3> QED
      BY <1>1, <1>2, <1>4, <2>2, <3>1 DEF Block
  <2>5. Held(f, m, mapped)
    BY <1>5, <1>8, <2>2, Zenon DEF Held
  <2>6. \A i \in DOMAIN frames : f.top <= frames[i].low
    BY <1>3, <1>4, <2>2
  <2> QED
    BY <1>7, <2>4, <2>5, <2>6, FramesGrow
<1> QED
  BY <1>4, <1>6, <1>7, <1>8 DEF m, f
-----------------------------------------------------------------------------
\* Steps: what each of them keeps, and what a step that takes a block back restores.

Retaken ==
  Len(frames') < Len(frames) =>
    regs' = [r \in Registers |-> CASE r = SP -> Top.top
                                   [] r \in Top.list -> Restored(Top, r)
                                   [] OTHER -> regs[r]]

LEMMA LongerIs ==
  ASSUME NEW S, NEW s \in Seq(S), NEW x
  PROVE  Len(Append(s, x)) = Len(s) + 1 /\ Len(s) \in Nat
<1>1. s \in Seq(S \cup {x}) /\ x \in S \cup {x} /\ Len(s) \in Nat
  OBVIOUS
<1> QED
  BY <1>1, AppendProperties

LEMMA LowLow == \A s \in Sizes : \A v \in Value : Low(v, s) \in Int /\ Low(Low(v, s), s) = Low(v, s)
<1> SUFFICES ASSUME NEW s \in Sizes, NEW v \in Value PROVE Low(v, s) \in Int /\ Low(Low(v, s), s) = Low(v, s)
  BY Zenon
<1>1. v \in Int
  BY ValueIs
<1>2. Low(v, s) \in 0 .. Mod(s) - 1 /\ Low(v, s) \in Int
  BY <1>1, LowIs
<1> QED
  BY <1>2, LowIs

LEMMA SPIs == SP \in Registers /\ Long \in Sizes /\ Word \in Sizes
BY TransfersAssumption DEF Sizes

LEMMA MovesAre ==
  \A m \in Moves : m[1] \in Registers \ {SP} /\ m[2] \in Sizes /\ (IsData(m[1]) \/ m[2] # Byte)
BY TransfersAssumption

LEMMA ListsAre == \A list \in Lists : list \in SUBSET Registers /\ SP \notin list
BY TransfersAssumption

(* No instruction is left half done.                                        *)
LEMMA Forgotten == ASSUME NEW g, NEW m PROVE AttemptOK(NoAttempt, g, m)
BY Zenon DEF AttemptOK

LEMMA PushStep ==
  ASSUME IInv, NEW r \in Registers \ {SP}, NEW size \in Sizes, Push(r, size)
  PROVE  IInv' /\ Retaken
<1> DEFINE to == PreDecrement(SP, size)
           low == PushedTo(size)
           v == Low(regs[r], size)
           m == MemoryAfter(low, size, v)
           f == NewBlock("move", {r}, size, regs[SP], low)
<1>1. MachineOK(regs, mem, mapped) /\ FramesOK(frames, mem, mapped)
  BY DEF IInv
<1>2. regs \in [Registers -> Value]
  BY <1>1 DEF MachineOK
<1>3. to[SP] = low
  BY <1>2, SPIs DEF PreDecrement, PushedTo
<1>4. Below(low, size)
  BY <1>3 DEF Push
<1>5. low \in Value /\ low % 2 = 0 /\ Wrap(low) = low
  BY <1>1, <1>4, PushedIs
<1>6. to \in [Registers -> Value]
  BY <1>2, <1>5, SPIs DEF PreDecrement, PushedTo
<1>7. /\ mem' = m /\ regs' = to /\ attempt' = NoAttempt /\ mapped' = mapped
      /\ IF Faults(low, size) THEN frames' = frames ELSE frames' = Append(frames, f)
  BY <1>3, <1>5 DEF Push, Moved, Saves, NewBlock
<1>8. v \in Int /\ Low(v, size) = Low(regs[r], size)
  BY <1>2, LowLow
<1> HIDE DEF to, low, v
<1>9. /\ MachineOK(regs, m, mapped) /\ FramesOK(frames, m, mapped)
      /\ ~Faults(low, size) => FramesOK(Append(frames, f), m, mapped)
  BY <1>1, <1>4, <1>8, Pushed DEF low
<1> HIDE DEF m, f
<1>10. MachineOK(regs', mem', mapped')
  BY <1>3, <1>5, <1>6, <1>7, <1>9 DEF MachineOK
<1>11. FramesOK(frames', mem', mapped')
  BY <1>7, <1>9
<1>12. AttemptOK(attempt', regs', mem')
  BY <1>7, Forgotten
<1>13. Retaken
  <2>1. Len(frames') = Len(frames) \/ Len(frames') = Len(frames) + 1
    BY <1>1, <1>7, LongerIs DEF FramesOK
  <2>2. Len(frames) \in Nat
    BY <1>1 DEF FramesOK
  <2> QED
    BY <2>1, <2>2 DEF Retaken
<1> QED
  BY <1>10, <1>11, <1>12, <1>13 DEF IInv

LEMMA LinkStep ==
  ASSUME IInv, NEW reg \in Registers, NEW displacement \in Displacements, Link(reg, displacement)
  PROVE  IInv' /\ Retaken
<1> DEFINE pushed == PreDecrement(SP, Long)
           low == PushedTo(Long)
           m == MemoryAfter(low, Long, regs[reg])
           f == NewBlock("link", {reg}, Long, regs[SP], low)
           next == Wrap32(low + displacement)
           linked == [pushed EXCEPT ![reg] = pushed[SP], ![SP] = next]
<1>1. MachineOK(regs, mem, mapped) /\ FramesOK(frames, mem, mapped)
  BY DEF IInv
<1>2. regs \in [Registers -> Value] /\ reg \in Registers \ {SP} /\ ~IsData(reg)
  BY <1>1 DEF MachineOK, Link
<1>3. pushed[SP] = low
  BY <1>2, SPIs DEF PreDecrement, PushedTo
<1>4. Below(low, Long)
  BY <1>3 DEF Link
<1>5. low \in Value /\ low \in Nat /\ low % 2 = 0 /\ Wrap(low) = low
  BY <1>1, <1>4, SPIs, PushedIs
<1>6. pushed \in [Registers -> Value]
  BY <1>2, <1>5, SPIs DEF PreDecrement, PushedTo
<1>7. /\ mem' = m /\ attempt' = NoAttempt /\ mapped' = mapped
      /\ IF Faults(low, Long) THEN regs' = pushed /\ frames' = frames
         ELSE regs' = linked /\ frames' = Append(frames, f)
  BY <1>3, <1>5 DEF Link, Moved, Saves, NewBlock
<1>8. regs[reg] \in Int
  BY <1>2, ValueIs
<1>9. next \in Value /\ next % 2 = 0
  <2>1. displacement \in Int /\ displacement % 2 = 0
    BY TransfersAssumption
  <2>2. low + displacement \in Int /\ (low + displacement) % 2 = 0
    BY <1>5, <2>1, EvenOffset
  <2> QED
    BY <2>2, WrapIs, EvenWrap
<1> HIDE DEF pushed, low, next
<1>10. linked \in [Registers -> Value] /\ linked[SP] = next
  BY <1>2, <1>3, <1>5, <1>6, <1>9, SPIs
<1> HIDE DEF linked
<1>11. /\ MachineOK(regs, m, mapped) /\ FramesOK(frames, m, mapped)
       /\ ~Faults(low, Long) => FramesOK(Append(frames, f), m, mapped)
  BY <1>1, <1>2, <1>4, <1>8, SPIs, Pushed DEF low
<1> HIDE DEF m, f
<1>12. MachineOK(regs', mem', mapped')
  BY <1>3, <1>5, <1>6, <1>7, <1>9, <1>10, <1>11 DEF MachineOK
<1>13. FramesOK(frames', mem', mapped')
  BY <1>7, <1>11
<1>14. AttemptOK(attempt', regs', mem')
  BY <1>7, Forgotten
<1>15. Retaken
  <2>1. Len(frames') = Len(frames) \/ Len(frames') = Len(frames) + 1
    BY <1>1, <1>7, LongerIs DEF FramesOK
  <2>2. Len(frames) \in Nat
    BY <1>1 DEF FramesOK
  <2> QED
    BY <2>1, <2>2 DEF Retaken
<1> QED
  BY <1>12, <1>13, <1>14, <1>15 DEF IInv

LEMMA LoadStep ==
  ASSUME IInv, NEW r \in Registers, NEW value \in Immediates, Load(r, value)
  PROVE  IInv' /\ Retaken
<1>1. MachineOK(regs, mem, mapped) /\ FramesOK(frames, mem, mapped)
  BY DEF IInv
<1>2. r # SP /\ regs' = [regs EXCEPT ![r] = value] /\ attempt' = NoAttempt
      /\ mem' = mem /\ mapped' = mapped /\ frames' = frames
  BY DEF Load, Moved
<1>3. value \in Value
  BY TransfersAssumption DEF Value
<1>4. MachineOK(regs', mem', mapped')
  BY <1>1, <1>2, <1>3, SPIs DEF MachineOK
<1>5. AttemptOK(attempt', regs', mem')
  BY <1>2, Forgotten
<1>6. Retaken
  <2>1. Len(frames) \in Nat
    BY <1>1 DEF FramesOK
  <2> QED
    BY <1>2, <2>1 DEF Retaken
<1> QED
  BY <1>1, <1>2, <1>4, <1>5, <1>6 DEF IInv

(* The last block can be read back.                                         *)
Readable(f) ==
  \A r \in f.list : LET a == At(f.low, f.list, f.size, r)
                    IN ~Faults(a, f.size) /\ Joined(mem, a, f.size) = Low(f.saved[r], f.size)

LEMMA TopIs ==
  ASSUME MachineOK(regs, mem, mapped), FramesOK(frames, mem, mapped), frames # <<>>
  PROVE  Block(Top) /\ Readable(Top) /\ FramesOK(Tail1, mem, mapped)
<1>1. Block(Top) /\ Held(Top, mem, mapped) /\ FramesOK(Tail1, mem, mapped)
  BY FramesShrink DEF Top, Tail1
<1> DEFINE f == Top
<1>2. Region(f.low, f.list, f.size) /\ f.low \in Nat /\ f.size \in Sizes /\ f.low % 2 = 0 /\ f.list \in SUBSET Registers
  BY <1>1, BlockIs DEF Block
<1>3. ASSUME NEW r \in f.list PROVE ~Misaligned(At(f.low, f.list, f.size, r), f.size)
  <2>1. At(f.low, f.list, f.size, r) = f.low + f.size * Slot(f.list, r)
    BY <1>2, AtIs
  <2>2. Slot(f.list, r) \in Nat
    BY <1>2, SlotIs
  <2> DEFINE k == Slot(f.list, r)
             l == f.low
             s == f.size
  <2>3. k \in Nat /\ l \in Nat /\ l % 2 = 0 /\ s \in Sizes
    BY <1>2, <2>2
  <2> HIDE DEF k, l, s
  <2>4. ~Misaligned(l + s * k, s)
    <3>1. CASE s = Byte
      BY <3>1 DEF Misaligned
    <3>2. CASE s = Word
      <4>1. (l + 2 * k) % 2 = 0
        BY <2>3
      <4> QED
        BY <3>2, <4>1 DEF Misaligned, Word
    <3>3. CASE s = Long
      <4>1. (l + 4 * k) % 2 = 0
        BY <2>3
      <4> QED
        BY <3>3, <4>1 DEF Misaligned, Long
    <3> QED
      BY <2>3, <3>1, <3>2, <3>3 DEF Sizes
  <2> QED
    BY <2>1, <2>4 DEF k, l, s
<1> HIDE DEF f
<1>4. Held(f, mem, mapped)
  BY <1>1 DEF f
<1>5. Readable(f)
  BY <1>3, <1>4, Zenon DEF Readable, Held, Faults
<1> QED
  BY <1>1, <1>5 DEF f

\* Taking a block back.
LEMMA TailIs ==
  ASSUME FramesOK(frames, mem, mapped), frames # <<>>
  PROVE  Len(Tail1) < Len(frames) /\ Len(frames) \in Nat
<1>1. frames \in Seq(Frame) /\ Len(frames) \in Nat /\ Len(frames) # 0
  BY EmptySeq DEF FramesOK
<1>2. \A i \in 1 .. Len(frames) - 1 : frames[i] \in Frame
  BY <1>1
<1>3. Len(Tail1) = IF 1 <= Len(frames) - 1 THEN Len(frames) - 1 - 1 + 1 ELSE 0
  BY <1>1, <1>2, SubSeqProperties DEF Tail1
<1> QED
  BY <1>1, <1>3

LEMMA DropStep ==
  ASSUME IInv, Drop
  PROVE  IInv' /\ Retaken
<1>1. MachineOK(regs, mem, mapped) /\ FramesOK(frames, mem, mapped)
  BY DEF IInv
<1>2. /\ frames # <<>> /\ regs' = [regs EXCEPT ![SP] = Top.low] /\ attempt' = NoAttempt
      /\ mem' = mem /\ mapped' = mapped /\ frames' = frames
  BY DEF Drop, Moved
<1>3. Top.low \in Value /\ Top.low % 2 = 0
  <2>1. Block(Top)
    BY <1>1, <1>2, TopIs
  <2> QED
    BY <2>1, BlockIs DEF Block
<1>4. MachineOK(regs', mem', mapped')
  BY <1>1, <1>2, <1>3, SPIs DEF MachineOK
<1>5. AttemptOK(attempt', regs', mem')
  BY <1>2, Forgotten
<1>6. Retaken
  <2>1. Len(frames) \in Nat
    BY <1>1 DEF FramesOK
  <2> QED
    BY <1>2, <2>1 DEF Retaken
<1> QED
  BY <1>1, <1>2, <1>4, <1>5, <1>6 DEF IInv

(* The last block, when it holds one register.                              *)
LEMMA SingleTop ==
  ASSUME MachineOK(regs, mem, mapped), FramesOK(frames, mem, mapped), frames # <<>>,
         NEW r, Top.list = {r}, Top.by # "movem"
  PROVE  /\ r \in Registers \ {SP} /\ Top.size \in Sizes
         /\ Wrap(Top.low) = Top.low /\ ~Faults(Top.low, Top.size)
         /\ Top.saved[r] \in Value
         /\ Joined(mem, Top.low, Top.size) = Low(Top.saved[r], Top.size)
         /\ Wrap32(Top.low + AddressRegisterStep(SP, Top.size)) = Top.top
         /\ Top.top \in Value /\ Top.top % 2 = 0 /\ Top.low \in Value /\ Top.low % 2 = 0
<1> DEFINE f == Top
<1>1. Block(f) /\ Readable(f)
  BY TopIs
<1>2. f.list = {r} /\ f.by # "movem"
  OBVIOUS
<1> HIDE DEF f
<1>3. /\ f.low \in Nat /\ f.top \in Nat /\ f.low \in Value /\ f.top \in Value /\ f.size \in Sizes
      /\ f.low % 2 = 0 /\ f.top % 2 = 0 /\ r \in Registers /\ SP # r /\ f.saved[r] \in Value
  BY <1>1, <1>2, BlockIs DEF Block
<1>4. At(f.low, f.list, f.size, r) = f.low
  BY <1>1, <1>2, BlockIs
<1>5. ~Faults(f.low, f.size) /\ Joined(mem, f.low, f.size) = Low(f.saved[r], f.size)
  BY <1>1, <1>2, <1>4 DEF Readable
<1>6. f.top = f.low + AddressRegisterStep(SP, f.size) /\ f.top <= StackTop
  BY <1>1, <1>2 DEF Block, Extent
<1>7. f.low <= StackTop
  <2>1. AddressRegisterStep(SP, f.size) \in {2, 4}
    BY <1>3, StepIs
  <2> QED
    BY <1>3, <1>6, <2>1, StackTopIs
<1>8. Wrap(f.low) = f.low /\ Wrap32(f.top) = f.top
  BY <1>3, <1>6, <1>7, StackTopIs
<1>9. Wrap32(f.low + AddressRegisterStep(SP, f.size)) = f.top
  BY <1>6, <1>8
<1> QED
  BY <1>3, <1>5, <1>8, <1>9 DEF f

LEMMA PopStep ==
  ASSUME IInv, NEW r \in Registers \ {SP}, NEW size \in Sizes, Pop(r, size)
  PROVE  IInv' /\ Retaken
<1> DEFINE low == Top.low
           to == PostIncrement(SP, size)
           value == Joined(mem, low, size)
           loaded == Loaded(r, size, value)
           after == [to EXCEPT ![r] = loaded]
<1>1. MachineOK(regs, mem, mapped) /\ FramesOK(frames, mem, mapped)
  BY DEF IInv
<1>2. regs \in [Registers -> Value]
  BY <1>1 DEF MachineOK
<1>3. /\ frames # <<>> /\ Top.by = "move" /\ Top.list = {r} /\ Top.size = size /\ low = regs[SP]
      /\ IF Faults(Wrap(low), size) THEN Moved(to) /\ frames' = frames
         ELSE Moved([to EXCEPT ![r] = Loaded(r, size, Joined(mem, Wrap(low), size))]) /\ frames' = Tail1
      /\ mem' = mem /\ mapped' = mapped
  BY DEF Pop
<1>4. Top.by # "movem"
  BY <1>3
<1>5. /\ Wrap(low) = low /\ ~Faults(low, size) /\ Top.saved[r] \in Value
      /\ value = Low(Top.saved[r], size) /\ Wrap32(low + AddressRegisterStep(SP, size)) = Top.top
      /\ Top.top \in Value /\ Top.top % 2 = 0
  BY <1>1, <1>3, <1>4, SingleTop
<1>6. regs' = after /\ attempt' = NoAttempt /\ frames' = Tail1
  BY <1>3, <1>5 DEF Moved
<1>7. to = [regs EXCEPT ![SP] = Top.top]
  BY <1>3, <1>5 DEF PostIncrement
<1>8. /\ loaded \in Value
      /\ loaded = IF IsData(r) THEN regs[r] - Low(regs[r], size) + Low(Top.saved[r], size)
                  ELSE SignExtended(Top.saved[r], size)
  <2>1. Top.saved[r] \in Int
    BY <1>5, ValueIs
  <2>2. value \in 0 .. Mod(size) - 1 /\ value \in Int
    BY <1>5, <2>1, LowIs
  <2>3. regs[r] \in Value
    BY <1>2
  <2>4. CASE IsData(r)
    <3>1. loaded = regs[r] - Low(regs[r], size) + value
      BY <2>4 DEF Loaded
    <3>2. regs[r] - Low(regs[r], size) + value \in Value
      BY <2>2, <2>3, LoadedType
    <3> QED
      BY <1>5, <2>4, <3>1, <3>2
  <2>5. CASE ~IsData(r)
    <3>1. loaded = SignExtended(value, size)
      BY <2>5 DEF Loaded
    <3>2. SignExtended(value, size) = SignExtended(Top.saved[r], size)
      BY <1>5, <2>1, SignExtendedLow
    <3>3. SignExtended(value, size) \in Value
      BY <2>2, SignExtendedType
    <3> QED
      BY <2>5, <3>1, <3>2, <3>3
  <2> QED
    BY <2>4, <2>5
<1> HIDE DEF loaded, value
<1>9. after \in [Registers -> Value] /\ after[SP] = Top.top
  BY <1>2, <1>5, <1>7, <1>8, SPIs
<1>10. MachineOK(regs', mem', mapped')
  BY <1>1, <1>3, <1>5, <1>6, <1>9 DEF MachineOK
<1>11. FramesOK(frames', mem', mapped')
  <2>1. FramesOK(Tail1, mem, mapped)
    BY <1>1, <1>3, TopIs
  <2> QED
    BY <1>3, <1>6, <2>1
<1>12. AttemptOK(attempt', regs', mem')
  BY <1>6, Forgotten
<1>13. Retaken
  <2>1. Restored(Top, r) = loaded
    BY <1>3, <1>4, <1>8, Zenon DEF Restored
  <2>2. after = [q \in Registers |-> CASE q = SP -> Top.top [] q \in Top.list -> Restored(Top, q) [] OTHER -> regs[q]]
    <3> DEFINE g == [q \in Registers |-> CASE q = SP -> Top.top [] q \in Top.list -> Restored(Top, q) [] OTHER -> regs[q]]
    <3>1. after = [q \in Registers |-> IF q = SP THEN Top.top ELSE IF q = r THEN loaded ELSE regs[q]]
      BY <1>2, <1>7, SPIs
    <3>2. \A q \in Registers : (IF q = SP THEN Top.top ELSE IF q = r THEN loaded ELSE regs[q])
                               = CASE q = SP -> Top.top [] q \in Top.list -> Restored(Top, q) [] OTHER -> regs[q]
      BY <1>3, <2>1
    <3> QED
      BY <3>1, <3>2, Zenon
  <2> QED
    BY <1>6, <2>2, Zenon DEF Retaken
<1> QED
  BY <1>10, <1>11, <1>12, <1>13 DEF IInv

LEMMA UnlkStep ==
  ASSUME IInv, NEW reg \in Registers, Unlk(reg)
  PROVE  IInv' /\ Retaken
<1> DEFINE low == Top.low
           to == [regs EXCEPT ![SP] = low]
           value == Joined(mem, low, Long)
           after == [to EXCEPT ![SP] = Wrap32(low + Long), ![reg] = value]
<1>1. MachineOK(regs, mem, mapped) /\ FramesOK(frames, mem, mapped)
  BY DEF IInv
<1>2. regs \in [Registers -> Value]
  BY <1>1 DEF MachineOK
<1>3. /\ frames # <<>> /\ Top.by = "link" /\ Top.list = {reg} /\ low = regs[reg]
      /\ IF Faults(Wrap(low), Long) THEN Moved(to) /\ frames' = frames
         ELSE Moved([to EXCEPT ![SP] = Wrap32(low + Long), ![reg] = Joined(mem, Wrap(low), Long)]) /\ frames' = Tail1
      /\ mem' = mem /\ mapped' = mapped
  BY DEF Unlk
<1>4. Top.by # "movem"
  BY <1>3
<1>5. Top.size = Long /\ ~IsData(reg)
  <2>1. Block(Top)
    BY <1>1, <1>3, TopIs
  <2> QED
    BY <1>3, <2>1 DEF Block
<1>6. /\ reg # SP /\ Wrap(low) = low /\ ~Faults(low, Long) /\ Top.saved[reg] \in Value
      /\ value = Low(Top.saved[reg], Long) /\ Wrap32(low + Long) = Top.top
      /\ Top.top \in Value /\ Top.top % 2 = 0
  BY <1>1, <1>3, <1>4, <1>5, StepIs, SingleTop
<1>7. regs' = after /\ attempt' = NoAttempt /\ frames' = Tail1
  BY <1>3, <1>6 DEF Moved
<1>8. value = Top.saved[reg] /\ SignExtended(Top.saved[reg], Long) = value
  BY <1>6, ValueIs, SignExtendedLong
<1> HIDE DEF value
<1>9. after \in [Registers -> Value] /\ after[SP] = Top.top
  BY <1>2, <1>6, <1>8, SPIs
<1>10. MachineOK(regs', mem', mapped')
  BY <1>1, <1>3, <1>6, <1>7, <1>9 DEF MachineOK
<1>11. FramesOK(frames', mem', mapped')
  <2>1. FramesOK(Tail1, mem, mapped)
    BY <1>1, <1>3, TopIs
  <2> QED
    BY <1>3, <1>7, <2>1
<1>12. AttemptOK(attempt', regs', mem')
  BY <1>7, Forgotten
<1>13. Retaken
  <2>1. Restored(Top, reg) = value
    BY <1>5, <1>8, Zenon DEF Restored
  <2>2. after = [q \in Registers |-> CASE q = SP -> Top.top [] q \in Top.list -> Restored(Top, q) [] OTHER -> regs[q]]
    <3>1. after = [q \in Registers |-> IF q = SP THEN Top.top ELSE IF q = reg THEN value ELSE regs[q]]
      BY <1>2, <1>6, SPIs
    <3>2. \A q \in Registers : (IF q = SP THEN Top.top ELSE IF q = reg THEN value ELSE regs[q])
                               = CASE q = SP -> Top.top [] q \in Top.list -> Restored(Top, q) [] OTHER -> regs[q]
      <4> SUFFICES ASSUME NEW q \in Registers
                   PROVE  (IF q = SP THEN Top.top ELSE IF q = reg THEN value ELSE regs[q])
                          = CASE q = SP -> Top.top [] q \in Top.list -> Restored(Top, q) [] OTHER -> regs[q]
        BY Zenon
      <4>1. q \in Top.list <=> q = reg
        BY <1>3
      <4>2. CASE q = SP
        BY <1>6, <4>1, <4>2
      <4>3. CASE q # SP /\ q = reg
        BY <2>1, <4>1, <4>3
      <4>4. CASE q # SP /\ q # reg
        BY <4>1, <4>4
      <4> QED
        BY <4>2, <4>3, <4>4
    <3> QED
      BY <3>1, <3>2, Zenon
  <2> QED
    BY <1>7, <2>2, Zenon DEF Retaken
<1> QED
  BY <1>10, <1>11, <1>12, <1>13 DEF IInv

LEMMA AttachStep ==
  ASSUME IInv, Attach
  PROVE  IInv' /\ Retaken
<1>1. MachineOK(regs, mem, mapped) /\ FramesOK(frames, mem, mapped) /\ mapped \subseteq Ram
  BY DEF IInv, MachineOK
<1>2. mapped' = Ram /\ regs' = regs /\ mem' = mem /\ frames' = frames /\ attempt' = attempt
  BY DEF Attach
<1>3. FramesOK(frames, mem, Ram)
  BY <1>1, FramesStay
<1>4. MachineOK(regs', mem', mapped')
  BY <1>1, <1>2 DEF MachineOK
<1>5. Retaken
  <2>1. Len(frames) \in Nat
    BY <1>1 DEF FramesOK
  <2> QED
    BY <1>2, <2>1 DEF Retaken
<1> QED
  BY <1>2, <1>3, <1>4, <1>5 DEF IInv
-----------------------------------------------------------------------------
\* MOVEM, and executing it again.

\* After a MOVEM that has faulted.
LEMMA Remembered ==
  ASSUME MachineOK(regs, mem, mapped), AttemptOK(attempt, regs, mem),
         NEW i \in Instruction, NEW first \in Value, Remember(i, first), NEW g, NEW m,
         i.to = "memory" => i.reg = SP /\ SP \notin i.list /\ g = regs
                            /\ first = Wrap32(regs[SP] - i.size * Cardinality(i.list)),
         i.to = "registers" /\ i.reg \notin i.list =>
           first = regs[i.reg] /\ \A r \in Registers \ i.list : g[r] = regs[r]
  PROVE  AttemptOK(attempt', g, m)
<1>1. regs \in [Registers -> Value]
  BY DEF MachineOK
<1>2. CASE attempt # NoAttempt /\ attempt.of = i /\ ~attempt.done
  <2>1. attempt' = attempt
    BY <1>2 DEF Remember
  <2>2. attempt \in Attempt /\ Underway(attempt, regs)
    BY <1>2 DEF AttemptOK
  <2>3. Underway(attempt, g)
    BY <1>2, <2>2 DEF Underway
  <2> QED
    BY <1>2, <2>1, <2>2, <2>3, Zenon DEF AttemptOK
<1>3. CASE ~(attempt # NoAttempt /\ attempt.of = i /\ ~attempt.done)
  <2> DEFINE a == [of |-> i, from |-> regs, first |-> first, done |-> FALSE]
  <2>1. attempt' = a
    BY <1>3 DEF Remember
  <2>2. a \in Attempt /\ a.of = i /\ a.from = regs /\ a.first = first /\ ~a.done
    BY <1>1 DEF Attempt
  <2> HIDE DEF a
  <2>3. Underway(a, g)
    BY <2>2 DEF Underway
  <2> QED
    BY <2>1, <2>2, <2>3, Zenon DEF AttemptOK
<1> QED
  BY <1>2, <1>3

\* After a MOVEM that has been executed again, to the end.
LEMMA Completed ==
  ASSUME AttemptOK(attempt, regs, mem), NEW i \in Instruction, Completes(i), NEW g, NEW m,
         \A a \in Attempt : a.of = i /\ Underway(a, regs) => Does(a.of, a.from, a.first, g, m)
  PROVE  AttemptOK(attempt', g, m)
<1>1. CASE attempt # NoAttempt /\ attempt.of = i /\ ~attempt.done
  <2> DEFINE a == [attempt EXCEPT !.done = TRUE]
  <2>1. attempt' = a
    BY <1>1 DEF Completes
  <2>2. attempt \in Attempt /\ Underway(attempt, regs)
    BY <1>1 DEF AttemptOK
  <2>3. Does(attempt.of, attempt.from, attempt.first, g, m)
    BY <1>1, <2>2
  <2>4. a \in Attempt /\ a.of = attempt.of /\ a.from = attempt.from /\ a.first = attempt.first /\ a.done = TRUE
    BY <2>2 DEF Attempt
  <2> HIDE DEF a
  <2>5. Does(a.of, a.from, a.first, g, m)
    BY <2>3, <2>4, Zenon
  <2> QED
    BY <2>1, <2>4, <2>5, Zenon DEF AttemptOK
<1>2. CASE ~(attempt # NoAttempt /\ attempt.of = i /\ ~attempt.done)
  <2>1. attempt' = NoAttempt
    BY <1>2 DEF Completes
  <2> QED
    BY <2>1, Forgotten
<1> QED
  BY <1>1, <1>2

LEMMA MovemIs ==
  ASSUME NEW to \in {"memory", "registers"}, NEW reg \in Registers, NEW list \in SUBSET Registers, NEW size \in Sizes
  PROVE  LET i == Movem(to, reg, list, size)
         IN i \in Instruction /\ i.to = to /\ i.reg = reg /\ i.list = list /\ i.size = size
BY DEF Movem, Instruction

LEMMA MovemStoreStep ==
  ASSUME IInv, NEW list \in SUBSET Registers, SP \notin list, NEW size \in {Word, Long}, MovemStore(list, size)
  PROVE  IInv' /\ Retaken
<1> DEFINE first == Wrap32(regs[SP] - size * Cardinality(list))
           i == Movem("memory", SP, list, size)
           m == MovemMemory(first, list, size)
           f == NewBlock("movem", list, size, regs[SP], first)
           to == [regs EXCEPT ![SP] = first]
<1>1. MachineOK(regs, mem, mapped) /\ FramesOK(frames, mem, mapped) /\ AttemptOK(attempt, regs, mem)
  BY DEF IInv
<1>2. regs \in [Registers -> Value]
  BY <1>1 DEF MachineOK
<1>3. /\ Below(first, size * Cardinality(list)) /\ mem' = m /\ mapped' = mapped
      /\ IF Failing(first, list, size) = {}
         THEN regs' = to /\ frames' = Append(frames, f) /\ Completes(i)
         ELSE regs' = regs /\ frames' = frames /\ Remember(i, first)
  BY DEF MovemStore, Saves, NewBlock, BaseAfterFault
<1>4. size \in Sizes
  BY DEF Sizes
<1>5. /\ first \in Value /\ first % 2 = 0 /\ Region(first, list, size)
      /\ MachineOK(regs, m, mapped) /\ FramesOK(frames, m, mapped)
      /\ Failing(first, list, size) = {} => FramesOK(Append(frames, f), m, mapped)
  BY <1>1, <1>3, Listed
<1>6. Failing(first, list, size) = {} =>
        \A r \in list : Joined(m, At(first, list, size, r), size) = Low(regs[r], size)
  BY <1>1, <1>5, MovemMemoryIs
<1>7. i \in Instruction /\ i.to = "memory" /\ i.reg = SP /\ i.list = list /\ i.size = size
  <2>1. "memory" \in {"memory", "registers"}
    OBVIOUS
  <2> QED
    BY <1>4, <2>1, SPIs, MovemIs
<1>8. first = Wrap32(regs[SP] - i.size * Cardinality(i.list))
  BY <1>7
<1> HIDE DEF first, i, m, f
<1>9. to \in [Registers -> Value] /\ to[SP] = first
  BY <1>2, <1>5, SPIs
<1>10. MachineOK(regs', mem', mapped')
  BY <1>3, <1>5, <1>9 DEF MachineOK
<1>11. FramesOK(frames', mem', mapped')
  BY <1>3, <1>5
<1>12. AttemptOK(attempt', regs', mem')
  <2>1. CASE Failing(first, list, size) = {}
    <3>1. ASSUME NEW a \in Attempt, a.of = i, Underway(a, regs) PROVE Does(a.of, a.from, a.first, to, m)
      <4>1. regs = a.from /\ a.first = first
        BY <1>7, <1>8, <3>1 DEF Underway
      <4>2. a.of.to = "memory" /\ a.of.reg = SP /\ a.of.list = list /\ a.of.size = size
        BY <1>7, <3>1
      <4>3. "memory" # "registers"
        OBVIOUS
      <4>4. to = [a.from EXCEPT ![a.of.reg] = a.first]
        BY <4>1, <4>2
      <4>5. \A r \in list : Joined(m, At(a.first, a.of.list, a.of.size, r), a.of.size) = Low(a.from[r], a.of.size)
        BY <1>6, <2>1, <4>1, <4>2, Zenon
      <4> HIDE DEF to
      <4> QED
        BY <4>2, <4>3, <4>4, <4>5, Zenon DEF Does
    <3>2. Completes(i) /\ regs' = to /\ mem' = m
      BY <1>3, <2>1
    <3> QED
      BY <1>1, <1>7, <3>1, <3>2, Completed
  <2>2. CASE Failing(first, list, size) # {}
    <3>1. Remember(i, first) /\ regs' = regs
      BY <1>3, <2>2
    <3>2. i.to # "registers"
      BY <1>7
    <3> QED
      BY <1>1, <1>5, <1>7, <1>8, <3>1, <3>2, Remembered
  <2> QED
    BY <2>1, <2>2
<1>13. Retaken
  <2>1. Len(frames') = Len(frames) \/ Len(frames') = Len(frames) + 1
    BY <1>1, <1>3, LongerIs DEF FramesOK
  <2>2. Len(frames) \in Nat
    BY <1>1 DEF FramesOK
  <2> QED
    BY <2>1, <2>2 DEF Retaken
<1> QED
  BY <1>10, <1>11, <1>12, <1>13 DEF IInv

LEMMA MovemLoadStep ==
  ASSUME IInv, NEW list \in SUBSET Registers, SP \notin list, NEW size \in {Word, Long},
         NEW reg \in Registers, MovemLoad(reg, list, size)
  PROVE  IInv' /\ Retaken
<1> DEFINE first == regs[reg]
           i == Movem("registers", reg, list, size)
           to == MovemRegisters(first, list, size)
           end == Wrap32(first + size * Cardinality(list))
           moved == [to EXCEPT ![reg] = end]
           value(r) == SignExtended(Joined(mem, At(first, list, size, r), size), size)
<1>1. MachineOK(regs, mem, mapped) /\ FramesOK(frames, mem, mapped) /\ AttemptOK(attempt, regs, mem)
  BY DEF IInv
<1>2. regs \in [Registers -> Value] /\ first \in Value /\ first \in Int /\ first \in Nat
  BY <1>1, ValueIs DEF MachineOK
<1>3. /\ reg = SP => frames # <<>> /\ Top.by = "movem" /\ Top.list = list /\ Top.size = size /\ Top.low = regs[SP]
      /\ IF Failing(first, list, size) = {}
         THEN /\ regs' = IF reg \in list THEN to ELSE moved
              /\ frames' = IF reg = SP THEN Tail1 ELSE frames
              /\ Completes(i)
         ELSE regs' = to /\ Remember(i, first) /\ frames' = frames
      /\ mem' = mem /\ mapped' = mapped
  BY DEF MovemLoad
<1>4. size \in Sizes
  BY DEF Sizes
<1>5. /\ to \in [Registers -> Value] /\ \A r \in Registers \ list : to[r] = regs[r]
      /\ Failing(first, list, size) = {} => \A r \in list : to[r] = value(r)
  BY <1>1, <1>2, <1>4, MovemRegistersIs
<1>6. i \in Instruction /\ i.to = "registers" /\ i.reg = reg /\ i.list = list /\ i.size = size
  <2>1. "registers" \in {"memory", "registers"}
    OBVIOUS
  <2> QED
    BY <1>4, <2>1, MovemIs
<1>7. end \in Value
  <2>1. size * Cardinality(list) \in Nat
    <3>1. Cardinality(list) \in Nat
      BY ListIs
    <3> QED
      BY <3>1 DEF Word, Long
  <2> HIDE DEF first
  <2>2. first + size * Cardinality(list) \in Int
    BY <1>2, <2>1
  <2> QED
    BY <2>2, WrapIs
\* The block taken back.
<1>8. ASSUME reg = SP
      PROVE  /\ frames # <<>> /\ Failing(first, list, size) = {} /\ reg \notin list
             /\ end = Top.top /\ Top.top % 2 = 0
             /\ \A r \in list : value(r) = SignExtended(Top.saved[r], size)
             /\ Top.list = list /\ Top.size = size /\ Top.by = "movem"
  <2> DEFINE t == Top
  <2>1. frames # <<>> /\ t.by = "movem" /\ t.list = list /\ t.size = size /\ t.low = first
    BY <1>3, <1>8
  <2>2. Block(t) /\ Readable(t)
    BY <1>1, <2>1, TopIs
  <2> HIDE DEF t
  <2>3. \A r \in list : ~Faults(At(first, list, size, r), size) /\ Joined(mem, At(first, list, size, r), size) = Low(t.saved[r], size)
    BY <2>1, <2>2, Zenon DEF Readable
  <2>4. Failing(first, list, size) = {}
    BY <2>3 DEF Failing
  <2>5. \A r \in list : value(r) = SignExtended(t.saved[r], size)
    <3> SUFFICES ASSUME NEW r \in list PROVE value(r) = SignExtended(t.saved[r], size)
      BY Zenon
    <3>1. t.saved[r] \in Value
      BY <2>1, <2>2 DEF Block
    <3>2. t.saved[r] \in Int
      BY <3>1, ValueIs
    <3>3. SignExtended(Low(t.saved[r], size), size) = SignExtended(t.saved[r], size)
      BY <1>4, <3>2, SignExtendedLow
    <3> QED
      BY <2>3, <3>3, Zenon
  <2>6. t.top = first + size * Cardinality(list) /\ t.top <= StackTop /\ t.top \in Nat /\ t.top % 2 = 0
    BY <2>1, <2>2, BlockIs DEF Block, Extent
  <2>7. end = t.top
    BY <2>6, StackTopIs
  <2> QED
    BY <1>8, <2>1, <2>4, <2>5, <2>6, <2>7, Zenon DEF t
<1> HIDE DEF first, i, to, end, value
<1>9. moved \in [Registers -> Value] /\ moved[reg] = end /\ \A r \in Registers \ {reg} : moved[r] = to[r]
  BY <1>5, <1>7
<1>10. MachineOK(regs', mem', mapped')
  <2>1. to[SP] % 2 = 0
    BY <1>1, <1>5, SPIs DEF MachineOK
  <2>2. regs' = to \/ regs' = moved
    BY <1>3
  <2>3. moved[SP] % 2 = 0
    <3>1. CASE reg = SP
      BY <1>8, <1>9, <3>1
    <3>2. CASE reg # SP
      BY <1>9, <2>1, <3>2, SPIs
    <3> QED
      BY <3>1, <3>2
  <2> HIDE DEF moved
  <2> QED
    BY <1>1, <1>3, <1>5, <1>9, <2>1, <2>2, <2>3 DEF MachineOK
<1>11. FramesOK(frames', mem', mapped')
  <2>1. frames' = frames \/ (frames # <<>> /\ frames' = Tail1)
    BY <1>3
  <2>2. frames # <<>> => FramesOK(Tail1, mem, mapped)
    BY <1>1, TopIs
  <2> QED
    BY <1>1, <1>3, <2>1, <2>2
<1>12. AttemptOK(attempt', regs', mem')
  <2>1. CASE Failing(first, list, size) = {}
    <3>1. ASSUME NEW a \in Attempt, a.of = i, Underway(a, regs) PROVE Does(a.of, a.from, a.first, regs', mem)
      <4>1. a.of.to = "registers" /\ a.of.reg = reg /\ a.of.list = list /\ a.of.size = size /\ "memory" # "registers"
        BY <1>6, <3>1
      <4>2. CASE reg \in list
        BY <4>1, <4>2, Zenon DEF Does
      <4>3. CASE reg \notin list
        <5>1. a.first = a.from[reg] /\ \A r \in Registers \ list : regs[r] = a.from[r]
          BY <3>1, <4>1, <4>3 DEF Underway
        <5>2. a.first = first /\ a.from[reg] = first
          BY <4>3, <5>1 DEF first
        <5>3. regs' = moved
          BY <1>3, <2>1, <4>3
        <5> DEFINE over == Wrap32(a.from[reg] + size * Cardinality(list))
                   read(r) == SignExtended(Joined(mem, At(a.first, list, size, r), size), size)
                   g == moved
        <5>4. end = over /\ \A r : value(r) = read(r)
          BY <5>2, Zenon DEF end, value
        <5> HIDE DEF over, read
        <5>5. ASSUME NEW r \in Registers
              PROVE  g[r] = CASE r = reg -> over [] r \in list -> read(r) [] OTHER -> a.from[r]
          <6>1. CASE r = reg
            BY <1>9, <4>3, <5>4, <6>1
          <6>2. CASE r # reg /\ r \in list
            BY <1>5, <1>9, <2>1, <5>4, <6>2
          <6>3. CASE r # reg /\ r \notin list
            BY <1>5, <1>9, <5>1, <6>3
          <6> QED
            BY <6>1, <6>2, <6>3
        <5>6. g = [r \in Registers |-> g[r]]
          BY <1>9
        <5> HIDE DEF g
        <5>7. g = [r \in Registers |-> CASE r = reg -> over [] r \in list -> read(r) [] OTHER -> a.from[r]]
          BY <5>5, <5>6, Zenon
        <5>8. regs' = [r \in Registers |-> CASE r = reg -> over [] r \in list -> read(r) [] OTHER -> a.from[r]]
          BY <5>3, <5>7 DEF g
        <5> QED
          BY <4>1, <5>8, Zenon DEF Does, over, read
      <4> QED
        BY <4>2, <4>3
    <3>2. Completes(i) /\ mem' = mem
      BY <1>3, <2>1
    <3> QED
      BY <1>1, <1>6, <3>1, <3>2, Completed
  <2>2. CASE Failing(first, list, size) # {}
    <3>1. Remember(i, first) /\ regs' = to
      BY <1>3, <2>2
    <3>2. i.to # "memory"
      BY <1>6
    <3>3. first = regs[i.reg] /\ \A r \in Registers \ i.list : to[r] = regs[r]
      BY <1>5, <1>6 DEF first
    <3> QED
      BY <1>1, <1>2, <1>6, <3>1, <3>2, <3>3, Remembered
  <2> QED
    BY <2>1, <2>2
<1>13. Retaken
  <2>1. CASE reg # SP
    <3>1. Len(frames') = Len(frames) /\ Len(frames) \in Nat
      BY <1>1, <1>3, <2>1 DEF FramesOK
    <3> QED
      BY <3>1 DEF Retaken
  <2>2. CASE reg = SP
    <3>1. regs' = moved
      BY <1>3, <1>8, <2>2
    <3>2. ASSUME NEW r \in Registers
          PROVE  moved[r] = CASE r = SP -> Top.top
                              [] r \in Top.list -> Restored(Top, r)
                              [] OTHER -> regs[r]
      <4>1. CASE r = SP
        BY <1>8, <1>9, <2>2, <4>1
      <4>2. CASE r # SP /\ r \in list
        <5>1. moved[r] = SignExtended(Top.saved[r], size)
          BY <1>5, <1>8, <1>9, <2>2, <4>2
        <5>2. Restored(Top, r) = SignExtended(Top.saved[r], size)
          BY <1>8, <2>2, Zenon DEF Restored
        <5> QED
          BY <1>8, <2>2, <4>2, <5>1, <5>2
      <4>3. CASE r # SP /\ r \notin list
        BY <1>5, <1>8, <1>9, <2>2, <4>3
      <4> QED
        BY <4>1, <4>2, <4>3
    <3> DEFINE g == moved
    <3>3. g = [r \in Registers |-> g[r]]
      BY <1>9
    <3> HIDE DEF g
    <3>4. \A r \in Registers : g[r] = CASE r = SP -> Top.top [] r \in Top.list -> Restored(Top, r) [] OTHER -> regs[r]
      BY <3>2 DEF g
    <3>5. g = [r \in Registers |-> CASE r = SP -> Top.top [] r \in Top.list -> Restored(Top, r) [] OTHER -> regs[r]]
      BY <3>3, <3>4, Zenon
    <3> QED
      BY <3>1, <3>5, Zenon DEF Retaken, g
  <2> QED
    BY <2>1, <2>2
<1> QED
  BY <1>10, <1>11, <1>12, <1>13 DEF IInv
-----------------------------------------------------------------------------
\* The invariant is inductive.

LEMMA InitInvariant == Init => IInv
<1> SUFFICES ASSUME Init PROVE IInv
  OBVIOUS
<1>1. StackTop \in Value /\ 0 \in Value /\ StackTop % 2 = 0
  <2>1. StackTop \in Nat /\ StackTop <= StackTop /\ StackTop % 2 = 0
    BY StackTopIs
  <2>2. 0 \in Value
    BY ModIs DEF Value, Sizes
  <2> QED
    BY <2>1, <2>2, StackTopIs
<1>2. MachineOK(regs, mem, mapped)
  <2>1. regs \in [Registers -> Value] /\ regs[SP] % 2 = 0
    BY <1>1, SPIs DEF Init
  <2>2. mem \in [Ram -> 0 .. Base - 1]
    BY BaseIs DEF Init
  <2> QED
    BY <2>1, <2>2 DEF Init, MachineOK
<1>3. FramesOK(frames, mem, mapped)
  <2>1. frames = <<>> /\ frames \in Seq(Frame) /\ DOMAIN frames = {}
    BY EmptySeq DEF Init
  <2> QED
    BY <2>1 DEF FramesOK, Stacked
<1>4. AttemptOK(attempt, regs, mem)
  BY Forgotten DEF Init
<1> QED
  BY <1>2, <1>3, <1>4 DEF IInv

LEMMA NextInvariant ==
  ASSUME IInv, Next
  PROVE  IInv' /\ Retaken
<1>1. ASSUME NEW m \in Moves, Push(m[1], m[2]) PROVE IInv' /\ Retaken
  BY <1>1, MovesAre, PushStep
<1>2. ASSUME NEW m \in Moves, Pop(m[1], m[2]) PROVE IInv' /\ Retaken
  BY <1>2, MovesAre, PopStep
<1>3. ASSUME NEW r \in Registers, NEW value \in Immediates, Load(r, value) PROVE IInv' /\ Retaken
  BY <1>3, LoadStep
<1>4. CASE Drop
  BY <1>4, DropStep
<1>5. ASSUME NEW list \in Lists, NEW size \in {Word, Long}, MovemStore(list, size) PROVE IInv' /\ Retaken
  BY <1>5, ListsAre, MovemStoreStep
<1>6. ASSUME NEW list \in Lists, NEW size \in {Word, Long}, NEW reg \in Registers, MovemLoad(reg, list, size)
      PROVE  IInv' /\ Retaken
  BY <1>6, ListsAre, MovemLoadStep
<1>7. ASSUME NEW reg \in Registers, Unlk(reg) PROVE IInv' /\ Retaken
  BY <1>7, UnlkStep
<1>8. ASSUME NEW reg \in Registers, NEW displacement \in Displacements, Link(reg, displacement)
      PROVE  IInv' /\ Retaken
  BY <1>8, LinkStep
<1>9. CASE Attach
  BY <1>9, AttachStep
<1> QED
  BY <1>1, <1>2, <1>3, <1>4, <1>5, <1>6, <1>7, <1>8, <1>9 DEF Next

LEMMA StutterInvariant ==
  ASSUME IInv, UNCHANGED vars
  PROVE  IInv'
BY DEF IInv, vars

LEMMA Invariance == Spec => []IInv
<1>1. IInv /\ [Next]_vars => IInv'
  BY NextInvariant, StutterInvariant
<1> QED
  BY <1>1, InitInvariant, PTL DEF Spec

LEMMA InvariantType == IInv => TypeOK
<1> SUFFICES ASSUME IInv PROVE TypeOK
  OBVIOUS
<1>1. MachineOK(regs, mem, mapped) /\ FramesOK(frames, mem, mapped) /\ AttemptOK(attempt, regs, mem)
  BY DEF IInv
<1>2. ASSUME NEW i \in DOMAIN frames
      PROVE  /\ frames[i].by \in {"movem", "move", "link"} /\ frames[i].size \in Sizes
             /\ frames[i].saved \in [frames[i].list -> Value] /\ frames[i].list \subseteq Registers
             /\ {frames[i].top, frames[i].low} \subseteq Value
  <2> DEFINE f == frames[i]
  <2>1. Block(f)
    BY <1>1 DEF FramesOK
  <2> HIDE DEF f
  <2>2. /\ f.by \in {"movem", "move", "link"} /\ f.size \in Sizes /\ f.list \in SUBSET Registers
        /\ f.top \in Value /\ f.low \in Value /\ f.saved \in [f.list -> Value]
    BY <2>1 DEF Block, Frame
  <2> QED
    BY <2>2 DEF f
<1>3. attempt # NoAttempt => attempt.from \in [Registers -> Value] /\ attempt.first \in Value
  BY <1>1 DEF AttemptOK, Attempt
<1> QED
  BY <1>1, <1>2, <1>3 DEF TypeOK, MachineOK

LEMMA InvariantSaved == IInv => SavedIntact
<1> SUFFICES ASSUME IInv, NEW i \in DOMAIN frames
             PROVE  LET f == frames[i]
                    IN /\ \A r \in f.list :
                            Joined(mem, At(f.low, f.list, f.size, r), f.size) = Low(f.saved[r], f.size)
                       /\ i > 1 => f.top <= frames[i - 1].low
  BY DEF SavedIntact
<1>1. FramesOK(frames, mem, mapped)
  BY DEF IInv
<1>2. Held(frames[i], mem, mapped)
  BY <1>1 DEF FramesOK
<1>3. i > 1 => i - 1 \in DOMAIN frames /\ i - 1 < i
  BY <1>1 DEF FramesOK
<1>4. i > 1 => frames[i].top <= frames[i - 1].low
  BY <1>1, <1>3 DEF FramesOK, Stacked
<1> QED
  BY <1>2, <1>4 DEF Held

LEMMA InvariantRetries == IInv => RetriesExact
<1> SUFFICES ASSUME IInv, attempt # NoAttempt, attempt.done
             PROVE  Does(attempt.of, attempt.from, attempt.first, regs, mem)
  BY Zenon DEF RetriesExact, Does
<1> QED
  BY DEF IInv, AttemptOK

-----------------------------------------------------------------------------
\* Theorems.

(* Registers hold longs and memory bytes, and the stack pointer stays even  *)
(* whatever is pushed, linked or faults.                                    *)
THEOREM TypeCorrect == Spec => []TypeOK
BY Invariance, InvariantType, PTL

(* What the code has saved by MOVE, MOVEM or LINK lies on its stack          *)
(* unchanged, block upon block, whatever completes, faults half-way or is   *)
(* tried again above it.                                                    *)
THEOREM SavedCorrect == Spec => []SavedIntact
BY Invariance, InvariantSaved, PTL

(* A MOVEM that faulted half-way and is executed again to its end does what *)
(* it would have done at once: a store always, a load unless it replaces    *)
(* its own base register.                                                   *)
THEOREM RetriesCorrect == Spec => []RetriesExact
BY Invariance, InvariantRetries, PTL

(* MOVE, MOVEM and UNLK take back exactly what was saved: the registers of  *)
(* the block and the stack pointer above it, and nothing else changes.      *)
THEOREM RestoredCorrect == Spec => BlocksRestored
<1> DEFINE Restores ==
      Len(frames') < Len(frames) =>
        regs' = [r \in Registers |-> CASE r = SP -> Top.top
                                       [] r \in Top.list -> Restored(Top, r)
                                       [] OTHER -> regs[r]]
<1>1. IInv /\ [Next]_vars => [Restores]_vars
  BY NextInvariant DEF Retaken
<1> QED
  BY <1>1, Invariance, PTL DEF Spec, BlocksRestored
=============================================================================
