SPECIFICATION Spec
CONSTANTS
  Bits <- MCBits
  SignBit <- MCSignBit
  Operands <- MCOperands
  Counts <- MCCounts
  Decimals <- MCDecimals
INVARIANTS
  ComparisonsDecide
  NumbersExact
  ShiftsExact
  DivisionsExact
