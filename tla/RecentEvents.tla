----------------------------- MODULE RecentEvents -----------------------------
(***************************************************************************)
(* What a history promises: of the events that happened, which are         *)
(* numbered, the latest in their order, as many as its limit.              *)
(***************************************************************************)
EXTENDS Naturals, Sequences

CONSTANT Limits

VARIABLES
  limit,   \* how many events are kept; 0 keeps none
  recent,  \* the events kept, oldest first
  last     \* the number of the last event

vars == <<limit, recent, last>>

Latest(n, seq) == IF Len(seq) <= n THEN seq ELSE SubSeq(seq, Len(seq) - n + 1, Len(seq))

Init == limit = 0 /\ recent = <<>> /\ last = 0

(* No event passes without being recorded.                                 *)
Happen ==
  /\ last' = last + 1
  /\ recent' = Latest(limit, Append(recent, last'))
  /\ UNCHANGED limit

Resize(n) ==
  /\ limit' = n
  /\ recent' = Latest(n, recent)
  /\ UNCHANGED last

Clear == recent' = <<>> /\ last' = 0 /\ UNCHANGED limit

Next == Happen \/ Clear \/ \E n \in Limits : Resize(n)

Spec == Init /\ [][Next]_vars
=============================================================================
