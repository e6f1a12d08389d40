------------------------------- MODULE Devices -------------------------------
(***************************************************************************)
(* What a bus knows of the devices attached to it: the bytes a device      *)
(* covers, the range it advertises to the index of the bus, and the        *)
(* accesses it accepts.  A device is one of three kinds:                   *)
(*   ram     a RAM of memory.go;                                           *)
(*   mapped  a device wrapped by MapDevice (the wrapped device accepts     *)
(*           what its wrapper lets through);                               *)
(*   plain   a device of the host that has Contains but no AddressRange    *)
(*           and no Peek.                                                  *)
(***************************************************************************)
EXTENDS Integers

CONSTANT Space  \* the size of the address space; 2^24 in the code

ASSUME SpaceAssumption == Space \in Nat /\ Space > 0 /\ Space % 2 = 0

Address == 0 .. Space - 1
Wrap(a) == a % Space

(* The sizes of an access: Byte, Word and Long.                            *)
Byte == 1
Word == 2
Long == 4
Sizes == {Byte, Word, Long}

(* waits is what WaitStates reports; 0 stands for a device without it.     *)
Device == [kind : {"ram", "mapped", "plain"}, first : Address, size : Nat, waits : Nat]

End(d) == d.first + d.size

(* RAM has no WaitStates.  A device ends inside the address space.         *)
WellFormed(d) ==
  /\ d \in Device
  /\ d.kind = "ram" => d.waits = 0
  /\ End(d) <= Space

Covers(d, a) == d.first <= a /\ a < End(d)

(* A device takes an access only when all of its bytes are its own.        *)
Accepts(d, size, a) == Covers(d, a) /\ a + size <= End(d)

(* An empty RAM advertises one byte; a MapDevice whose end is before its   *)
(* start is skipped by the index.                                          *)
RangeEnd(d) == IF d.kind = "ram" /\ d.size = 0 THEN d.first ELSE End(d) - 1
HasRange(d) == d.kind # "plain" /\ d.first <= RangeEnd(d)

Advertises(d, a) == HasRange(d) /\ d.first <= a /\ a <= RangeEnd(d)
=============================================================================
