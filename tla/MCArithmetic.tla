---------------------------- MODULE MCArithmetic ----------------------------
(***************************************************************************)
(* Narrow words for TLC: two, three and six bits, so that a long has room  *)
(* for a quotient and a remainder, with all bytes and words, and longs at  *)
(* the edges of all three sizes.  Decimals have their eight bits.          *)
(***************************************************************************)
EXTENDS Arithmetic

MCBits == [byte |-> 2, word |-> 3, long |-> 6]
MCSignBit == [byte |-> 2, word |-> 4, long |-> 32]
MCOperands ==
  [byte |-> 0 .. 3, word |-> 0 .. 7,
   long |-> {0, 1, 2, 3, 7, 8, 13, 28, 31, 32, 33, 37, 50, 60, 62, 63}]
MCCounts == 0 .. 9
MCDecimals == {16 * t + u : t \in {0, 1, 5, 9}, u \in {0, 1, 4, 5, 9}}
=============================================================================
