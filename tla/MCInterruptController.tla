----------------------- MODULE MCInterruptController -----------------------
(* A small instance of the interrupt controller for TLC.                   *)
EXTENDS InterruptController

CONSTANT nil

MCRequestLevels == {0, 2, 5, 7, 8}
MCVectors == {64}
=============================================================================
