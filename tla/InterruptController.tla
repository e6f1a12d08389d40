------------------------ MODULE InterruptController ------------------------
(***************************************************************************)
(* The interrupt controller of interrupts.go: one FIFO of pending requests *)
(* per interrupt level and a cache, maxLevel, of the highest level that    *)
(* has a request.  Devices call Request (usually from a scheduler event or *)
(* a cycle listener); the CPU asks HasPending and Pending between          *)
(* instructions; CPU reset and the RESET instruction call Reset.           *)
(*                                                                         *)
(* Every accepted request is stamped with a ghost ticket, its position in  *)
(* the order of arrival, so that requests can be told apart.  The ticket   *)
(* never influences a guard, except for the bound MaxRequests.             *)
(***************************************************************************)
EXTENDS Naturals, Sequences, FiniteSetsExt

CONSTANTS
  RequestLevels,  \* the levels devices pass to Request, legal or not
  Vectors,        \* the vectors devices supply
  NoVector,       \* the nil vector pointer: ask for the autovector
  MaxRequests     \* bound: requests accepted in a behaviour

AutoVectorBase == 24
Levels == 1 .. 7
Masks == 0 .. 7

ASSUME RequestLevelsAssumption == RequestLevels \subseteq Nat
ASSUME VectorsAssumption == Vectors \subseteq 0 .. 255 /\ NoVector \notin Vectors
ASSUME MaxRequestsAssumption == MaxRequests \in Nat

VARIABLES
  requests,   \* [Levels -> Seq(Request record)]; requests[0] of the code is never filled
  maxLevel,   \* cache: the highest level with a pending request, 0 when there is none
  grant,      \* what the last call of Pending returned
  issued      \* ghost: the number of requests accepted so far

vars == <<requests, maxLevel, grant, issued>>

PendingInterrupt == [vector : 0 .. 255, autoVector : BOOLEAN, ticket : Nat]

NoGrant == [ok |-> FALSE]
Grants == [ok : {TRUE}, level : Levels, request : PendingInterrupt]

TypeOK ==
  /\ requests \in [Levels -> Seq(PendingInterrupt)]
  /\ maxLevel \in 0 .. 7
  /\ grant \in Grants \cup {NoGrant}
  /\ issued \in Nat

Init ==
  /\ requests = [l \in Levels |-> <<>>]
  /\ maxLevel = 0
  /\ grant = NoGrant
  /\ issued = 0

-----------------------------------------------------------------------------
\* Queries.

HighestNonEmpty(queues) ==
  LET waiting == {l \in Levels : queues[l] # <<>>}
  IN  IF waiting = {} THEN 0 ELSE Max(waiting)

HasPending(mask) == maxLevel > mask

\* The levels the scan from 7 down to 1 would stop at.
Acceptable(mask) == {l \in Levels : requests[l] # <<>> /\ l > mask}

-----------------------------------------------------------------------------
\* Operations.

NewRequest(level, vector) ==
  [vector     |-> IF vector = NoVector THEN AutoVectorBase + level ELSE vector,
   autoVector |-> vector = NoVector,
   ticket     |-> issued]

\* Mutants of Accept: no range check; the newest request first.
AcceptAnyLevel(level, vector) ==
  /\ level > 0
  /\ issued < MaxRequests
  /\ maxLevel' = IF level > maxLevel THEN level ELSE maxLevel
  /\ requests' = [l \in Levels |-> IF l = level THEN Append(requests[l], NewRequest(level, vector))
                                               ELSE requests[l]]
  /\ issued' = issued + 1
  /\ UNCHANGED grant

AcceptInFront(level, vector) ==
  /\ level \in Levels
  /\ issued < MaxRequests
  /\ maxLevel' = IF level > maxLevel THEN level ELSE maxLevel
  /\ requests' = [requests EXCEPT ![level] = <<NewRequest(level, vector)>> \o @]
  /\ issued' = issued + 1
  /\ UNCHANGED grant

\* Request of a legal level, 1 to 7.
Accept(level, vector) ==
  /\ level \in Levels
  /\ issued < MaxRequests
  /\ maxLevel' = IF level > maxLevel THEN level ELSE maxLevel
  /\ requests' = [requests EXCEPT ![level] = Append(@, NewRequest(level, vector))]
  /\ issued' = issued + 1
  /\ UNCHANGED grant

\* Request of level 0 (silently ignored) or above 7 (an error is returned).
Ignore(level) ==
  /\ level \notin Levels
  /\ UNCHANGED vars

Request(level, vector) == Accept(level, vector) \/ Ignore(level)

\* Pending finds nothing above the mask, by its cache or by its scan.
Refuse(mask) ==
  /\ maxLevel <= mask \/ Acceptable(mask) = {}
  /\ grant' = NoGrant
  /\ UNCHANGED <<requests, maxLevel, issued>>

\* Mutants of Deliver: the cache is not recomputed; the least urgent queue is served.
DeliverKeepingCache(mask) ==
  /\ maxLevel > mask
  /\ Acceptable(mask) # {}
  /\ LET level == Max(Acceptable(mask)) IN
       /\ grant' = [ok |-> TRUE, level |-> level, request |-> Head(requests[level])]
       /\ requests' = [requests EXCEPT ![level] = Tail(@)]
  /\ UNCHANGED <<maxLevel, issued>>

DeliverLeastUrgent(mask) ==
  /\ maxLevel > mask
  /\ Acceptable(mask) # {}
  /\ LET level == Min(Acceptable(mask)) IN
       /\ grant' = [ok |-> TRUE, level |-> level, request |-> Head(requests[level])]
       /\ requests' = [requests EXCEPT ![level] = Tail(@)]
  /\ maxLevel' = HighestNonEmpty(requests')
  /\ UNCHANGED issued

\* Pending removes and returns the head of the highest acceptable queue.
Deliver(mask) ==
  /\ maxLevel > mask
  /\ Acceptable(mask) # {}
  /\ LET level == Max(Acceptable(mask)) IN
       /\ grant' = [ok |-> TRUE, level |-> level, request |-> Head(requests[level])]
       /\ requests' = [requests EXCEPT ![level] = Tail(@)]
  /\ maxLevel' = HighestNonEmpty(requests')
  /\ UNCHANGED issued

Pending(mask) == Refuse(mask) \/ Deliver(mask)

Reset ==
  /\ requests' = [l \in Levels |-> <<>>]
  /\ maxLevel' = 0
  /\ UNCHANGED <<grant, issued>>

Next ==
  \/ \E level \in RequestLevels, vector \in Vectors \cup {NoVector} : Request(level, vector)
  \/ \E mask \in Masks : Pending(mask)
  \/ Reset

Spec == Init /\ [][Next]_vars

-----------------------------------------------------------------------------
\* Properties.

(* The cache that HasPending and the early return of Pending trust is      *)
(* never stale: it names the highest level that really has a request, so   *)
(* no pending request above the mask is overlooked and Pending never scans *)
(* in vain.                                                                *)
CacheExact == maxLevel = HighestNonEmpty(requests)

(* Requests wait in the order they arrived, at every level, and none is    *)
(* queued twice.                                                           *)
ArrivalOrder ==
  /\ \A l \in Levels : \A i \in DOMAIN requests[l] : requests[l][i].ticket < issued
  /\ \A l \in Levels : \A i, j \in DOMAIN requests[l] :
        i < j => requests[l][i].ticket < requests[l][j].ticket
  /\ \A k, l \in Levels : \A i \in DOMAIN requests[k], j \in DOMAIN requests[l] :
        requests[k][i].ticket = requests[l][j].ticket => k = l /\ i = j

(* The controller implements the abstract priority queue: Pending answers  *)
(* with the oldest request of the most urgent level above the mask, and    *)
(* refuses only when there is none.                                        *)
Waiting ==
  UNION {{[level |-> l, request |-> requests[l][i]] : i \in DOMAIN requests[l]} : l \in Levels}

Abstract == INSTANCE PrioritizedRequests WITH pending <- Waiting
ImplementsPrioritizedRequests == Abstract!Spec
=============================================================================
