------------------------ MODULE PrioritizedRequests ------------------------
(***************************************************************************)
(* What the interrupt controller promises, without its queues, its cache   *)
(* and its scan: a set of pending requests out of which the CPU is given   *)
(* the oldest of the most urgent ones above its mask.                      *)
(***************************************************************************)
EXTENDS Naturals

CONSTANTS RequestLevels, Vectors, NoVector, MaxRequests

VARIABLES
  pending,   \* the set of [level, request] that were accepted and not delivered
  grant,     \* the answer to the CPU's last question
  issued     \* the number of requests accepted so far, the next ticket

vars == <<pending, grant, issued>>

Init == pending = {} /\ grant = [ok |-> FALSE] /\ issued = 0

Arrive(level, vector) ==
  /\ level \in 1 .. 7
  /\ issued < MaxRequests
  /\ pending' = pending \cup
       {[level   |-> level,
         request |-> [vector     |-> IF vector = NoVector THEN 24 + level ELSE vector,
                      autoVector |-> vector = NoVector,
                      ticket     |-> issued]]}
  /\ issued' = issued + 1
  /\ UNCHANGED grant

\* p is at least as urgent as q: of a higher level, or of the same and older.
Precedes(p, q) ==
  \/ p.level > q.level
  \/ p.level = q.level /\ p.request.ticket <= q.request.ticket

Deliver(mask) ==
  \E p \in pending :
    /\ p.level > mask
    /\ \A q \in pending : Precedes(p, q)
    /\ grant' = [ok |-> TRUE, level |-> p.level, request |-> p.request]
    /\ pending' = pending \ {p}
    /\ UNCHANGED issued

Refuse(mask) ==
  /\ \A p \in pending : p.level <= mask
  /\ grant' = [ok |-> FALSE]
  /\ UNCHANGED <<pending, issued>>

Clear == pending' = {} /\ UNCHANGED <<grant, issued>>

Next ==
  \/ \E level \in RequestLevels, vector \in Vectors \cup {NoVector} : Arrive(level, vector)
  \/ \E mask \in 0 .. 7 : Deliver(mask) \/ Refuse(mask)
  \/ Clear

Spec == Init /\ [][Next]_vars
=============================================================================
