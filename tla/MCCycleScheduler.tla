-------------------------- MODULE MCCycleScheduler --------------------------
(* Small instances of the cycle scheduler for TLC.                         *)
EXTENDS CycleScheduler

MCScheduling == {"schedule"}
MCReentrant == {"schedule", "past", "advance", "reset"}
MCNested == {"advance"}
MCNothing == {}
=============================================================================
