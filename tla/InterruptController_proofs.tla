--------------------- MODULE InterruptController_proofs ---------------------
(***************************************************************************)
(* Proofs about the interrupt controller, for every set of levels, every   *)
(* set of vectors and every number of requests.                            *)
(***************************************************************************)
EXTENDS InterruptController, SequenceTheorems, TLAPS

-----------------------------------------------------------------------------
\* Facts about the highest level of a set.

(* A non-empty set of levels has a highest one, and Max names it.          *)
LEMMA MaxOfLevels ==
  ASSUME NEW S \in SUBSET Levels, S # {}
  PROVE  Max(S) \in S /\ \A l \in S : Max(S) >= l
<1>1. \E m \in S : \A l \in S : m >= l
  <2> SUFFICES ASSUME \A m \in S : \E l \in S : ~(m >= l) PROVE FALSE
    OBVIOUS
  <2>1. S \subseteq 1 .. 6
    BY DEF Levels
  <2>2. S \subseteq 1 .. 5
    BY <2>1
  <2>3. S \subseteq 1 .. 4
    BY <2>2
  <2>4. S \subseteq 1 .. 3
    BY <2>3
  <2>5. S \subseteq 1 .. 2
    BY <2>4
  <2>6. S \subseteq {1}
    BY <2>5
  <2>7. 1 >= 1
    OBVIOUS
  <2> QED
    BY <2>6, <2>7
<1> QED
  BY <1>1 DEF Max

(* HighestNonEmpty is a level with a request above which there is none, or *)
(* zero when no level has a request.                                       *)
LEMMA HighestIsMax ==
  ASSUME NEW queues
  PROVE  /\ HighestNonEmpty(queues) \in 0 .. 7
         /\ \A l \in Levels : queues[l] # <<>> => l <= HighestNonEmpty(queues)
         /\ HighestNonEmpty(queues) # 0 => queues[HighestNonEmpty(queues)] # <<>>
<1> DEFINE waiting == {l \in Levels : queues[l] # <<>>}
<1>1. CASE waiting = {}
  BY <1>1 DEF HighestNonEmpty, Levels
<1>2. CASE waiting # {}
  <2> HIDE DEF waiting
  <2>1. waiting \in SUBSET Levels
    BY DEF waiting
  <2>2. Max(waiting) \in waiting /\ \A l \in waiting : Max(waiting) >= l
    BY <1>2, <2>1, MaxOfLevels
  <2>3. HighestNonEmpty(queues) = Max(waiting)
    BY <1>2 DEF HighestNonEmpty, waiting
  <2> QED
    BY <2>2, <2>3 DEF waiting, Levels
<1> QED
  BY <1>1, <1>2

(* The two clauses above determine the number.                             *)
LEMMA HighestUnique ==
  ASSUME NEW queues, NEW m \in 0 .. 7,
         \A l \in Levels : queues[l] # <<>> => l <= m,
         m # 0 => queues[m] # <<>>
  PROVE  m = HighestNonEmpty(queues)
<1> DEFINE h == HighestNonEmpty(queues)
<1>1. /\ h \in 0 .. 7
      /\ \A l \in Levels : queues[l] # <<>> => l <= h
      /\ h # 0 => queues[h] # <<>>
  BY HighestIsMax
<1> HIDE DEF h
<1>2. m <= h
  BY <1>1 DEF Levels
<1>3. h <= m
  BY <1>1 DEF Levels
<1> QED
  BY <1>1, <1>2, <1>3 DEF h

-----------------------------------------------------------------------------
\* Type correctness.

(* A request is stored with a vector that fits the code's uint8.           *)
LEMMA NewRequestType ==
  ASSUME TypeOK, NEW level \in Levels, NEW vector \in Vectors \cup {NoVector}
  PROVE  NewRequest(level, vector) \in PendingInterrupt
BY VectorsAssumption DEF NewRequest, PendingInterrupt, AutoVectorBase, Levels, TypeOK

(* The level Pending scans for is a level whose queue has a head.          *)
LEMMA ScanFinds ==
  ASSUME TypeOK, NEW mask \in Masks, Acceptable(mask) # {}
  PROVE  /\ Max(Acceptable(mask)) \in Levels
         /\ Max(Acceptable(mask)) > mask
         /\ requests[Max(Acceptable(mask))] # <<>>
         /\ \A l \in Levels : requests[l] # <<>> /\ l > mask => l <= Max(Acceptable(mask))
<1>1. Acceptable(mask) \in SUBSET Levels
  BY DEF Acceptable
<1>2. /\ Max(Acceptable(mask)) \in Acceptable(mask)
      /\ \A l \in Acceptable(mask) : Max(Acceptable(mask)) >= l
  BY <1>1, MaxOfLevels
<1> QED
  BY <1>2 DEF Acceptable, Levels, Masks

LEMMA TypeInit == Init => TypeOK
BY DEF Init, TypeOK, Levels, NoGrant

LEMMA TypeNext == TypeOK /\ [Next]_vars => TypeOK'
<1> SUFFICES ASSUME TypeOK, [Next]_vars PROVE TypeOK'
  OBVIOUS
<1>1. ASSUME NEW level \in RequestLevels, NEW vector \in Vectors \cup {NoVector},
             Accept(level, vector)
      PROVE  TypeOK'
  <2>1. level \in Levels
    BY <1>1 DEF Accept
  <2>2. NewRequest(level, vector) \in PendingInterrupt
    BY <2>1, NewRequestType
  <2>3. requests' \in [Levels -> Seq(PendingInterrupt)]
    BY <1>1, <2>1, <2>2 DEF Accept, TypeOK
  <2> QED
    BY <1>1, <2>1, <2>3, SMTT(40) DEF Accept, TypeOK, Levels
<1>2. ASSUME NEW level \in RequestLevels, Ignore(level) PROVE TypeOK'
  BY <1>2 DEF Ignore, vars, TypeOK
<1>3. ASSUME NEW mask \in Masks, Refuse(mask) PROVE TypeOK'
  BY <1>3 DEF Refuse, TypeOK
<1>4. ASSUME NEW mask \in Masks, Deliver(mask) PROVE TypeOK'
  <2> DEFINE level == Max(Acceptable(mask))
  <2>1. level \in Levels /\ requests[level] # <<>>
    BY <1>4, ScanFinds DEF Deliver
  <2>2. /\ grant' = [ok |-> TRUE, level |-> level, request |-> Head(requests[level])]
        /\ requests' = [requests EXCEPT ![level] = Tail(@)]
        /\ issued' = issued
    BY <1>4 DEF Deliver
  <2> HIDE DEF level
  <2>3. /\ Head(requests[level]) \in PendingInterrupt
        /\ Tail(requests[level]) \in Seq(PendingInterrupt)
    BY <2>1 DEF TypeOK
  <2>4. grant' \in Grants
    BY <2>1, <2>2, <2>3 DEF Grants
  <2>5. requests' \in [Levels -> Seq(PendingInterrupt)]
    BY <2>1, <2>2, <2>3 DEF TypeOK
  <2>6. maxLevel' \in 0 .. 7
    BY <1>4, HighestIsMax DEF Deliver
  <2> QED
    BY <2>2, <2>4, <2>5, <2>6 DEF TypeOK
<1>5. CASE Reset
  BY <1>5 DEF Reset, TypeOK, Levels
<1>6. CASE UNCHANGED vars
  BY <1>6 DEF vars, TypeOK
<1> QED
  BY <1>1, <1>2, <1>3, <1>4, <1>5, <1>6 DEF Next, Request, Pending

(* Requests stay within levels 1 to 7 and vectors within a byte, whatever  *)
(* levels and vectors the devices pass.                                    *)
THEOREM TypeCorrect == Spec => []TypeOK
BY TypeInit, TypeNext, PTL DEF Spec

-----------------------------------------------------------------------------
\* The cache.

LEMMA CacheNext == TypeOK /\ CacheExact /\ [Next]_vars => CacheExact'
<1> SUFFICES ASSUME TypeOK, CacheExact, [Next]_vars PROVE CacheExact'
  OBVIOUS
<1>1. ASSUME NEW level \in RequestLevels, NEW vector \in Vectors \cup {NoVector},
             Accept(level, vector)
      PROVE  CacheExact'
  <2> DEFINE m == IF level > maxLevel THEN level ELSE maxLevel
  <2>1. level \in Levels /\ maxLevel' = m
    BY <1>1 DEF Accept
  <2>2. /\ maxLevel \in 0 .. 7
        /\ \A l \in Levels : requests[l] # <<>> => l <= maxLevel
        /\ maxLevel # 0 => requests[maxLevel] # <<>>
    BY HighestIsMax DEF CacheExact
  <2>3. /\ requests'[level] # <<>>
        /\ \A l \in Levels : l # level => requests'[l] = requests[l]
    <3>1. requests' = [requests EXCEPT ![level] = Append(@, NewRequest(level, vector))]
      BY <1>1 DEF Accept
    <3>2. Append(requests[level], NewRequest(level, vector)) # <<>>
      <4>1. requests[level] \in Seq(PendingInterrupt)
        BY <2>1 DEF TypeOK
      <4> QED
        BY <2>1, <4>1, NewRequestType, AppendProperties
    <3> QED
      BY <2>1, <3>1, <3>2 DEF TypeOK
  <2>4. /\ m \in 0 .. 7
        /\ \A l \in Levels : requests'[l] # <<>> => l <= m
        /\ m # 0 => requests'[m] # <<>>
    BY <2>1, <2>2, <2>3 DEF Levels
  <2> HIDE DEF m
  <2>5. m = HighestNonEmpty(requests')
    BY <2>4, HighestUnique
  <2> QED
    BY <2>1, <2>5 DEF CacheExact
<1>2. ASSUME NEW level \in RequestLevels, Ignore(level) PROVE CacheExact'
  BY <1>2 DEF Ignore, vars, CacheExact
<1>3. ASSUME NEW mask \in Masks, Refuse(mask) PROVE CacheExact'
  BY <1>3 DEF Refuse, CacheExact
<1>4. ASSUME NEW mask \in Masks, Deliver(mask) PROVE CacheExact'
  BY <1>4 DEF Deliver, CacheExact
<1>5. CASE Reset
  <2>1. 0 = HighestNonEmpty(requests')
    BY <1>5, HighestUnique DEF Reset
  <2> QED
    BY <1>5, <2>1 DEF Reset, CacheExact
<1>6. CASE UNCHANGED vars
  BY <1>6 DEF vars, CacheExact
<1> QED
  BY <1>1, <1>2, <1>3, <1>4, <1>5, <1>6 DEF Next, Request, Pending

(* maxLevel is exact in every reachable state: HasPending never hides a    *)
(* request from the CPU and never promises one that is not there.          *)
THEOREM CacheCorrect == Spec => []CacheExact
<1>1. Init => CacheExact
  <2> SUFFICES ASSUME Init PROVE 0 = HighestNonEmpty(requests)
    BY DEF Init, CacheExact
  <2> QED
    BY HighestUnique DEF Init
<1> QED
  BY <1>1, TypeCorrect, CacheNext, PTL DEF Spec

-----------------------------------------------------------------------------
\* The order of the queues.

(* Queues stay sorted by arrival and free of duplicates under each call.   *)
LEMMA OrderNext == TypeOK /\ ArrivalOrder /\ [Next]_vars => ArrivalOrder'
<1> SUFFICES ASSUME TypeOK, ArrivalOrder, [Next]_vars PROVE ArrivalOrder'
  OBVIOUS
<1>1. ASSUME NEW level \in RequestLevels, NEW vector \in Vectors \cup {NoVector},
             Accept(level, vector)
      PROVE  ArrivalOrder'
  <2> DEFINE r == NewRequest(level, vector)
             q == requests[level]
  <2>1. level \in Levels /\ r \in PendingInterrupt /\ q \in Seq(PendingInterrupt)
    BY <1>1, NewRequestType DEF Accept, TypeOK
  <2>2. r.ticket = issued
    BY DEF NewRequest
  <2> HIDE DEF r
  <2>3. /\ requests'[level] = Append(q, r)
        /\ \A l \in Levels : l # level => requests'[l] = requests[l]
        /\ issued' = issued + 1
    BY <1>1, <2>1 DEF Accept, TypeOK, r
  <2>4. /\ Len(q) \in Nat
        /\ DOMAIN q = 1 .. Len(q)
        /\ DOMAIN requests'[level] = 1 .. (Len(q) + 1)
        /\ \A i \in 1 .. Len(q) : requests'[level][i] = q[i]
        /\ requests'[level][Len(q) + 1] = r
    BY <2>1, <2>3, AppendProperties
  <2> DEFINE old(l, i) == i \in DOMAIN requests[l] /\ requests'[l][i] = requests[l][i]
             new(l, i) == l = level /\ i = Len(q) + 1 /\ requests'[l][i].ticket = issued
  <2>5. \A l \in Levels : \A i \in DOMAIN requests'[l] : old(l, i) \/ new(l, i)
    BY <2>2, <2>3, <2>4
  <2>6. \A l \in Levels : \A i \in DOMAIN requests[l] :
          requests[l][i].ticket \in Nat /\ requests[l][i].ticket < issued
    <3> SUFFICES ASSUME NEW l \in Levels, NEW i \in DOMAIN requests[l]
                 PROVE  requests[l][i].ticket \in Nat /\ requests[l][i].ticket < issued
      OBVIOUS
    <3>1. requests[l] \in Seq(PendingInterrupt)
      BY DEF TypeOK
    <3>2. requests[l][i] \in PendingInterrupt
      BY <3>1, ElementOfSeq
    <3> QED
      BY <3>2 DEF ArrivalOrder, PendingInterrupt
  <2>7. issued \in Nat
    BY DEF TypeOK
  <2>8. \A l \in Levels : \A i \in DOMAIN requests'[l] : requests'[l][i].ticket < issued'
    BY <2>3, <2>5, <2>6, <2>7
  <2>9. ASSUME NEW l \in Levels, NEW i \in DOMAIN requests'[l], NEW j \in DOMAIN requests'[l],
               i < j
        PROVE  requests'[l][i].ticket < requests'[l][j].ticket
    <3>1. old(l, i)
      BY <2>4, <2>5, <2>9
    <3>2. CASE old(l, j)
      BY <2>9, <3>1, <3>2 DEF ArrivalOrder
    <3>3. CASE new(l, j)
      BY <2>6, <3>1, <3>3
    <3> QED
      BY <2>5, <3>2, <3>3
  <2>10. ASSUME NEW k \in Levels, NEW l \in Levels,
                NEW i \in DOMAIN requests'[k], NEW j \in DOMAIN requests'[l],
                requests'[k][i].ticket = requests'[l][j].ticket
         PROVE  k = l /\ i = j
    <3>1. CASE old(k, i) /\ old(l, j)
      BY <2>10, <3>1 DEF ArrivalOrder
    <3>2. CASE old(k, i) /\ new(l, j)
      BY <2>6, <2>7, <2>10, <3>2
    <3>3. CASE new(k, i) /\ old(l, j)
      BY <2>6, <2>7, <2>10, <3>3
    <3>4. CASE new(k, i) /\ new(l, j)
      BY <3>4
    <3> QED
      BY <2>5, <3>1, <3>2, <3>3, <3>4
  <2> QED
    BY <2>8, <2>9, <2>10 DEF ArrivalOrder
<1>2. ASSUME NEW level \in RequestLevels, Ignore(level) PROVE ArrivalOrder'
  BY <1>2 DEF Ignore, vars, ArrivalOrder
<1>3. ASSUME NEW mask \in Masks, Refuse(mask) PROVE ArrivalOrder'
  BY <1>3 DEF Refuse, ArrivalOrder
<1>4. ASSUME NEW mask \in Masks, Deliver(mask) PROVE ArrivalOrder'
  <2> DEFINE level == Max(Acceptable(mask))
             q == requests[level]
             shift(l) == IF l = level THEN 1 ELSE 0
  <2>1. level \in Levels /\ q # <<>>
    BY <1>4, ScanFinds DEF Deliver
  <2>2. requests' = [requests EXCEPT ![level] = Tail(@)] /\ issued' = issued
    BY <1>4 DEF Deliver
  <2> HIDE DEF level
  <2>3. q \in Seq(PendingInterrupt)
    BY <2>1 DEF TypeOK
  <2>4. /\ Len(q) \in Nat \ {0}
        /\ DOMAIN q = 1 .. Len(q)
        /\ DOMAIN Tail(q) = 1 .. (Len(q) - 1)
        /\ \A i \in 1 .. (Len(q) - 1) : Tail(q)[i] = q[i + 1]
    BY <2>1, <2>3, HeadTailProperties
  <2>5. \A l \in Levels : l # level => requests'[l] = requests[l]
    BY <2>2 DEF TypeOK
  <2>6. requests'[level] = Tail(q)
    BY <2>1, <2>2 DEF TypeOK
  <2>7. \A l \in Levels : DOMAIN requests[l] \subseteq Nat
    BY DEF TypeOK
  <2>8. \A l \in Levels : \A i \in DOMAIN requests'[l] :
          /\ i \in Nat
          /\ i + shift(l) \in DOMAIN requests[l]
          /\ requests'[l][i] = requests[l][i + shift(l)]
    <3> SUFFICES ASSUME NEW l \in Levels, NEW i \in DOMAIN requests'[l]
                 PROVE  /\ i \in Nat
                        /\ i + shift(l) \in DOMAIN requests[l]
                        /\ requests'[l][i] = requests[l][i + shift(l)]
      OBVIOUS
    <3>1. CASE l = level
      <4>1. requests'[l] = Tail(q) /\ requests[l] = q /\ shift(l) = 1
        BY <2>6, <3>1
      <4>2. i \in 1 .. (Len(q) - 1) /\ i + 1 \in 1 .. Len(q)
        BY <2>4, <4>1
      <4> HIDE DEF q, shift
      <4> QED
        BY <2>4, <4>1, <4>2
    <3>2. CASE l # level
      <4>1. requests'[l] = requests[l] /\ i \in Nat /\ i + 0 = i
        BY <2>5, <2>7, <3>2
      <4> QED
        BY <3>2, <4>1
    <3> QED
      BY <3>1, <3>2
  <2>9. \A l \in Levels : shift(l) \in Nat
    OBVIOUS
  <2> HIDE DEF shift, q
  <2>10. \A l \in Levels : \A i \in DOMAIN requests'[l] : requests'[l][i].ticket < issued'
    BY <2>2, <2>8 DEF ArrivalOrder
  <2>11. \A l \in Levels : \A i, j \in DOMAIN requests'[l] :
           i < j => requests'[l][i].ticket < requests'[l][j].ticket
    <3> SUFFICES ASSUME NEW l \in Levels, NEW i \in DOMAIN requests'[l],
                        NEW j \in DOMAIN requests'[l], i < j
                 PROVE  requests'[l][i].ticket < requests'[l][j].ticket
      OBVIOUS
    <3>1. i + shift(l) < j + shift(l)
      BY <2>8, <2>9
    <3> QED
      BY <2>8, <3>1 DEF ArrivalOrder
  <2>12. \A k, l \in Levels : \A i \in DOMAIN requests'[k], j \in DOMAIN requests'[l] :
           requests'[k][i].ticket = requests'[l][j].ticket => k = l /\ i = j
    <3> SUFFICES ASSUME NEW k \in Levels, NEW l \in Levels,
                        NEW i \in DOMAIN requests'[k], NEW j \in DOMAIN requests'[l],
                        requests'[k][i].ticket = requests'[l][j].ticket
                 PROVE  k = l /\ i = j
      OBVIOUS
    <3>1. k = l /\ i + shift(k) = j + shift(l)
      BY <2>8 DEF ArrivalOrder
    <3> QED
      BY <2>8, <2>9, <3>1
  <2> QED
    BY <2>10, <2>11, <2>12 DEF ArrivalOrder
<1>5. CASE Reset
  BY <1>5 DEF Reset, ArrivalOrder
<1>6. CASE UNCHANGED vars
  BY <1>6 DEF vars, ArrivalOrder
<1> QED
  BY <1>1, <1>2, <1>3, <1>4, <1>5, <1>6 DEF Next, Request, Pending

(* At every level requests are served in the order in which they arrived.  *)
THEOREM OrderCorrect == Spec => []ArrivalOrder
<1>1. Init => ArrivalOrder
  BY DEF Init, ArrivalOrder
<1> QED
  BY <1>1, TypeCorrect, OrderNext, PTL DEF Spec

-----------------------------------------------------------------------------
\* Refinement of the abstract priority queue.

Entry(l, r) == [level |-> l, request |-> r]

LEMMA InWaiting ==
  ASSUME NEW x
  PROVE  x \in Waiting <=>
           \E l \in Levels : \E i \in DOMAIN requests[l] : x = Entry(l, requests[l][i])
BY DEF Waiting, Entry

LEMMA InWaitingNext ==
  ASSUME NEW x
  PROVE  x \in Waiting' <=>
           \E l \in Levels : \E i \in DOMAIN requests'[l] : x = Entry(l, requests'[l][i])
BY DEF Waiting, Entry

LEMMA EntryFields ==
  ASSUME NEW k, NEW l, NEW r, NEW s
  PROVE  /\ Entry(k, r).level = k
         /\ Entry(k, r).request = r
         /\ Entry(k, r) = Entry(l, s) => k = l /\ r = s
BY DEF Entry

(* An accepted request is added to the abstract set.                       *)
LEMMA AcceptRefines ==
  ASSUME TypeOK, NEW level \in RequestLevels, NEW vector \in Vectors \cup {NoVector},
         Accept(level, vector)
  PROVE  Abstract!Arrive(level, vector)
<1> DEFINE r == NewRequest(level, vector)
           q == requests[level]
<1>1. level \in Levels /\ r \in PendingInterrupt /\ q \in Seq(PendingInterrupt)
  BY NewRequestType DEF Accept, TypeOK
<1> HIDE DEF r
<1>2. /\ requests'[level] = Append(q, r)
      /\ \A l \in Levels : l # level => requests'[l] = requests[l]
  BY <1>1 DEF Accept, TypeOK, r
<1>3. /\ Len(q) \in Nat
      /\ DOMAIN q = 1 .. Len(q)
      /\ DOMAIN requests'[level] = 1 .. (Len(q) + 1)
      /\ \A i \in 1 .. Len(q) : requests'[level][i] = q[i]
      /\ requests'[level][Len(q) + 1] = r
  BY <1>1, <1>2, AppendProperties
<1>4. ASSUME NEW x \in Waiting' PROVE x \in Waiting \cup {Entry(level, r)}
  <2>1. PICK l \in Levels : \E i \in DOMAIN requests'[l] : x = Entry(l, requests'[l][i])
    BY <1>4, InWaitingNext
  <2>2. PICK i \in DOMAIN requests'[l] : x = Entry(l, requests'[l][i])
    BY <2>1
  <2>3. CASE l = level /\ i = Len(q) + 1
    BY <1>3, <2>2, <2>3
  <2>4. CASE ~(l = level /\ i = Len(q) + 1)
    <3>1. i \in DOMAIN requests[l] /\ requests'[l][i] = requests[l][i]
      BY <1>2, <1>3, <2>4
    <3> QED
      BY <2>2, <3>1, InWaiting
  <2> QED
    BY <2>3, <2>4
<1>5. ASSUME NEW x \in Waiting PROVE x \in Waiting'
  <2>1. PICK l \in Levels : \E i \in DOMAIN requests[l] : x = Entry(l, requests[l][i])
    BY <1>5, InWaiting
  <2>2. PICK i \in DOMAIN requests[l] : x = Entry(l, requests[l][i])
    BY <2>1
  <2>3. i \in DOMAIN requests'[l] /\ requests'[l][i] = requests[l][i]
    BY <1>2, <1>3, SMTT(40)
  <2> QED
    BY <2>2, <2>3, InWaitingNext
<1>6. Entry(level, r) \in Waiting'
  <2>1. Len(q) + 1 \in DOMAIN requests'[level]
    BY <1>3
  <2> QED
    BY <1>1, <1>3, <2>1, InWaitingNext
<1>7. Waiting' = Waiting \cup {Entry(level, r)}
  BY <1>4, <1>5, <1>6
<1>8. Entry(level, r) =
        [level   |-> level,
         request |-> [vector     |-> IF vector = NoVector THEN 24 + level ELSE vector,
                      autoVector |-> vector = NoVector,
                      ticket     |-> issued]]
  BY DEF Entry, r, NewRequest, AutoVectorBase
<1> QED
  BY <1>1, <1>7, <1>8 DEF Abstract!Arrive, Accept, Levels

(* What Pending hands out is the oldest request of the highest level, and  *)
(* only that request leaves the set.                                       *)
LEMMA DeliverRefines ==
  ASSUME TypeOK, ArrivalOrder, NEW mask \in Masks, Deliver(mask)
  PROVE  Abstract!Deliver(mask)
<1> DEFINE level == Max(Acceptable(mask))
           q == requests[level]
           p == Entry(level, q[1])
<1>1. /\ level \in Levels
      /\ level > mask
      /\ q # <<>>
      /\ \A l \in Levels : requests[l] # <<>> /\ l > mask => l <= level
  BY ScanFinds DEF Deliver
<1>2. /\ grant' = [ok |-> TRUE, level |-> level, request |-> Head(q)]
      /\ requests' = [requests EXCEPT ![level] = Tail(@)]
      /\ issued' = issued
  BY DEF Deliver
<1> HIDE DEF level
<1>3. \A l \in Levels : requests[l] \in Seq(PendingInterrupt)
  BY DEF TypeOK
<1>4. /\ Len(q) \in Nat \ {0}
      /\ DOMAIN q = 1 .. Len(q)
      /\ Head(q) = q[1]
      /\ DOMAIN Tail(q) = 1 .. (Len(q) - 1)
      /\ \A i \in 1 .. (Len(q) - 1) : Tail(q)[i] = q[i + 1]
  BY <1>1, <1>3, HeadTailProperties
<1>5. /\ \A l \in Levels : l # level => requests'[l] = requests[l]
      /\ requests'[level] = Tail(q)
  BY <1>1, <1>2 DEF TypeOK
<1>6. 1 \in DOMAIN q
  BY <1>4
<1>7. p \in Waiting
  BY <1>1, <1>6, InWaiting
<1>8. ASSUME NEW x \in Waiting PROVE Abstract!Precedes(p, x)
  <2>1. PICK l \in Levels : \E i \in DOMAIN requests[l] : x = Entry(l, requests[l][i])
    BY <1>8, InWaiting
  <2>2. PICK i \in DOMAIN requests[l] : x = Entry(l, requests[l][i])
    BY <2>1
  <2>3. x.level = l /\ x.request = requests[l][i] /\ p.level = level /\ p.request = q[1]
    BY <2>2, EntryFields
  <2>4. requests[l] # <<>>
    BY <1>3, EmptySeq
  <2>5. l <= level
    BY <1>1, <2>4 DEF Levels, Masks
  <2>6. CASE l < level
    BY <2>3, <2>6 DEF Abstract!Precedes
  <2>7. CASE l = level
    <3>1. CASE i = 1
      <4>1. q[1] \in PendingInterrupt
        BY <1>1, <1>3, <1>6, ElementOfSeq
      <4> QED
        BY <2>3, <2>7, <3>1, <4>1 DEF Abstract!Precedes, PendingInterrupt
    <3>2. CASE i # 1
      <4>1. 1 < i /\ i \in DOMAIN q
        BY <1>4, <2>7, <3>2
      <4>2. q[1].ticket < q[i].ticket
        BY <1>1, <1>6, <4>1 DEF ArrivalOrder
      <4>3. q[1] \in PendingInterrupt /\ q[i] \in PendingInterrupt
        BY <1>1, <1>3, <1>6, <4>1, ElementOfSeq
      <4> QED
        BY <2>3, <2>7, <4>2, <4>3 DEF Abstract!Precedes, PendingInterrupt
    <3> QED
      BY <3>1, <3>2
  <2> QED
    BY <1>1, <2>5, <2>6, <2>7 DEF Levels
<1>9. ASSUME NEW x \in Waiting' PROVE x \in Waiting \ {p}
  <2>1. PICK l \in Levels : \E i \in DOMAIN requests'[l] : x = Entry(l, requests'[l][i])
    BY <1>9, InWaitingNext
  <2>2. PICK i \in DOMAIN requests'[l] : x = Entry(l, requests'[l][i])
    BY <2>1
  <2>3. CASE l = level
    <3>1. /\ i + 1 \in DOMAIN q
          /\ i + 1 # 1
          /\ x = Entry(level, q[i + 1])
      <4>1. requests'[l] = Tail(q)
        BY <1>5, <2>3
      <4> HIDE DEF q
      <4>2. i \in 1 .. (Len(q) - 1)
        BY <1>4, <4>1
      <4>3. i + 1 \in 1 .. Len(q) /\ i + 1 # 1
        BY <1>4, <4>2
      <4> QED
        BY <1>4, <2>2, <2>3, <4>1, <4>2, <4>3
    <3>2. q[i + 1] # q[1]
      BY <1>1, <1>6, <3>1 DEF ArrivalOrder
    <3> QED
      BY <1>1, <3>1, <3>2, InWaiting, EntryFields
  <2>4. CASE l # level
    <3>1. i \in DOMAIN requests[l] /\ x = Entry(l, requests[l][i])
      BY <1>5, <2>2, <2>4
    <3> QED
      BY <2>4, <3>1, InWaiting, EntryFields
  <2> QED
    BY <2>3, <2>4
<1>10. ASSUME NEW x \in Waiting \ {p} PROVE x \in Waiting'
  <2>1. PICK l \in Levels : \E i \in DOMAIN requests[l] : x = Entry(l, requests[l][i])
    BY <1>10, InWaiting
  <2>2. PICK i \in DOMAIN requests[l] : x = Entry(l, requests[l][i])
    BY <2>1
  <2>3. CASE l = level
    <3>1. i # 1
      BY <1>10, <2>2, <2>3
    <3>2. i - 1 \in 1 .. (Len(q) - 1) /\ (i - 1) + 1 = i
      BY <1>4, <2>3, <3>1
    <3>3. x = Entry(level, Tail(q)[i - 1])
      BY <1>4, <2>2, <2>3, <3>2
    <3> QED
      BY <1>1, <1>4, <1>5, <3>2, <3>3, InWaitingNext
  <2>4. CASE l # level
    BY <1>5, <2>2, <2>4, InWaitingNext
  <2> QED
    BY <2>3, <2>4
<1>11. Waiting' = Waiting \ {p}
  BY <1>9, <1>10
<1>12. p.level = level /\ p.request = Head(q)
  BY <1>4, EntryFields
<1> HIDE DEF p, q
<1> QED
  BY <1>1, <1>2, <1>7, <1>8, <1>11, <1>12 DEF Abstract!Deliver

(* Pending answers no only when no request is above the mask.              *)
LEMMA RefuseRefines ==
  ASSUME TypeOK, CacheExact, NEW mask \in Masks, Refuse(mask)
  PROVE  Abstract!Refuse(mask)
<1>1. ASSUME NEW x \in Waiting PROVE x.level <= mask
  <2>1. PICK l \in Levels : \E i \in DOMAIN requests[l] : x = Entry(l, requests[l][i])
    BY <1>1, InWaiting
  <2>2. x.level = l
    BY <2>1, EntryFields
  <2>3. requests[l] # <<>>
    BY <2>1, EmptySeq DEF TypeOK
  <2>4. l <= maxLevel /\ maxLevel \in 0 .. 7
    BY <2>3, HighestIsMax DEF CacheExact
  <2>5. CASE maxLevel <= mask
    BY <2>2, <2>4, <2>5 DEF Levels, Masks
  <2>6. CASE Acceptable(mask) = {}
    BY <2>2, <2>3, <2>6 DEF Acceptable, Levels, Masks
  <2> QED
    BY <2>5, <2>6 DEF Refuse
<1>2. Waiting' = Waiting
  BY DEF Refuse, Waiting
<1> QED
  BY <1>1, <1>2 DEF Abstract!Refuse, Refuse, NoGrant

LEMMA StepRefines ==
  TypeOK /\ CacheExact /\ ArrivalOrder /\ [Next]_vars => [Abstract!Next]_(Abstract!vars)
<1> SUFFICES ASSUME TypeOK, CacheExact, ArrivalOrder, [Next]_vars
             PROVE  [Abstract!Next]_(Abstract!vars)
  OBVIOUS
<1>1. ASSUME NEW level \in RequestLevels, NEW vector \in Vectors \cup {NoVector},
             Accept(level, vector)
      PROVE  Abstract!Next
  BY <1>1, AcceptRefines DEF Abstract!Next
<1>2. ASSUME UNCHANGED vars PROVE UNCHANGED Abstract!vars
  BY <1>2 DEF vars, Abstract!vars, Waiting
<1>3. ASSUME NEW mask \in Masks, Refuse(mask) PROVE Abstract!Next
  BY <1>3, RefuseRefines DEF Abstract!Next, Masks
<1>4. ASSUME NEW mask \in Masks, Deliver(mask) PROVE Abstract!Next
  BY <1>4, DeliverRefines DEF Abstract!Next, Masks
<1>5. CASE Reset
  <2>1. Waiting' = {}
    BY <1>5 DEF Reset, Waiting
  <2> QED
    BY <1>5, <2>1 DEF Reset, Abstract!Clear, Abstract!Next
<1> QED
  BY <1>1, <1>2, <1>3, <1>4, <1>5 DEF Next, Request, Ignore, Pending

(* Queues, cache and scan together behave as one set of requests served by *)
(* urgency and age, for every set of levels and vectors.                   *)
THEOREM Refinement == Spec => ImplementsPrioritizedRequests
<1>1. Init => Abstract!Init
  BY DEF Init, Abstract!Init, Waiting, NoGrant
<1> QED
  BY <1>1, StepRefines, TypeCorrect, CacheCorrect, OrderCorrect, PTL
  DEF Spec, ImplementsPrioritizedRequests, Abstract!Spec
=============================================================================
