---------------------------- MODULE MCTransfers ----------------------------
(***************************************************************************)
(* A small machine for TLC: bytes of one bit, D0, A0 and A7, a stack of   *)
(* eight bytes whose lower half is attached later.                        *)
(***************************************************************************)
EXTENDS Transfers

MCRegisters == {0, 8, 15}
MCRam == 6 .. 13
MCLate == 6 .. 9
MCMoves == {<<0, 1>>, <<8, 2>>}
MCLists == {{0, 8}}
MCImmediates == {11}
MCDisplacements == {-2}
=============================================================================
