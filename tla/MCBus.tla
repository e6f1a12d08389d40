-------------------------------- MODULE MCBus --------------------------------
(* A small instance of the bus for TLC: two pages of four addresses.       *)
EXTENDS Bus

MCDevice(kind, first, size, waits) ==
  [kind |-> kind, first |-> first, size |-> size, waits |-> waits]

(* RAMs that touch, cross the page boundary at an odd address or are       *)
(* empty; windows of one byte, across the pages and of the whole space;    *)
(* devices without a range.                                                *)
MCAvailable == {
  MCDevice("ram", 0, 2, 0), MCDevice("ram", 3, 4, 0), MCDevice("ram", 4, 0, 0),
  MCDevice("mapped", 1, 1, 0), MCDevice("mapped", 2, 4, 2), MCDevice("mapped", 0, 8, 0),
  MCDevice("plain", 2, 2, 0), MCDevice("plain", 5, 2, 1)}

MCWaitSettings == {0, 1}
MCTags == {1}
=============================================================================
