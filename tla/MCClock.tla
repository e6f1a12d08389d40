------------------------------ MODULE MCClock ------------------------------
(***************************************************************************)
(* A small instance of the clock for TLC.  The program has a short         *)
(* instruction, STOP, a move to SR that masks everything, and a division   *)
(* by zero (158 cycles in the code, 38 for the exception and 50 for a bus  *)
(* error after it: each exception costs less than the table entry).        *)
(***************************************************************************)
EXTENDS Clock

CONSTANT nil

MCInstruction(cost, does, arg) == [cost |-> cost, does |-> does, arg |-> arg]

MCProgram ==
  {MCInstruction(1, "plain", 0), MCInstruction(1, "stop", 0), MCInstruction(1, "mask", 7),
   MCInstruction(3, "raise", 1)}
MCScheduling == {"schedule"}
MCConsuming == {"schedule", "advance"}
MCWaits == {1}
MCDelays == {2}
MCBudgets == {2}
MCLevels == {4}
MCNoVectors == {}
=============================================================================
