----------------------- MODULE CycleScheduler_proofs -----------------------
(***************************************************************************)
(* Proofs about the cycle scheduler, for every number of listeners, every  *)
(* number of events, any nesting of Advance, and events that call anything *)
(* of the scheduler.  Listeners schedule, and do nothing else: the code is *)
(* not correct for listeners that consume cycles.                          *)
(***************************************************************************)
EXTENDS CycleScheduler, WellFoundedInduction, SequenceTheorems, TLAPS

\* What hosts may do without breaking the scheduler: NewCPU's wait hook is the exception.
ListenersSchedule == ListenerMay \subseteq {"schedule"}

-----------------------------------------------------------------------------
\* The inductive invariant.

Calling == stack # <<>> /\ Top.at \in {"approach", "finish"}

\* Whoever called Advance again is an event: the frames below the top wait for one.
OuterFramesFire ==
  ~crashed /\ \A i \in 1 .. Len(stack) - 1 : stack[i].at = "fire"

TargetsInTime == \A i \in DOMAIN stack : stack[i].target \in Times

\* The event that was peeked is still the next one when the listeners have returned.
PeekedIsNext ==
  stack # <<>> /\ Top.at = "approach" =>
    Waiting # <<>> /\ Waiting[1] = Top.event /\ Top.event.At = now

\* What waits has not fired, and is due at its time, or now when that is past.
WaitingUnfired ==
  /\ \A i \in DOMAIN Waiting :
       /\ Waiting[i].id \in DOMAIN fires
       /\ fires[Waiting[i].id] = 0
       /\ due[Waiting[i].id] = IF Waiting[i].At >= now THEN Waiting[i].At ELSE now
  /\ \A i, j \in DOMAIN Waiting : i # j => Waiting[i].id # Waiting[j].id

\* The listeners that have been called know the time; the others lack one delta.
ListenersTold ==
  \A l \in Listeners :
    IF Calling /\ l > Top.called THEN clock[l] + Top.delta = now ELSE clock[l] = now

IInv ==
  /\ TypeOK
  /\ OuterFramesFire
  /\ TargetsInTime
  /\ PeekedIsNext
  /\ WaitingInOrder
  /\ WaitingUnfired
  /\ FiresOnce
  /\ ListenersTold

-----------------------------------------------------------------------------
\* Sequences and sets of indices.

(* A non-empty set of indices has a largest one, and Max names it.         *)
LEMMA MaxOfIndices ==
  ASSUME NEW n \in Nat, NEW S \in SUBSET (0 .. n), S # {}
  PROVE  Max(S) \in S /\ \A x \in S : Max(S) >= x
<1> DEFINE T == {n - x : x \in S}
<1>1. T \subseteq Nat /\ T # {}
  <2>1. ASSUME NEW x \in S PROVE n - x \in Nat
    <3>1. x \in 0 .. n
      OBVIOUS
    <3> QED
      BY <3>1
  <2>2. PICK x \in S : TRUE
    OBVIOUS
  <2>3. n - x \in T
    OBVIOUS
  <2> QED
    BY <2>1, <2>3
<1>2. PICK m \in T : \A y \in T : ~(<<y, m>> \in OpToRel(<, Nat))
  BY <1>1, WFMin, NatLessThanWellFounded
<1>3. \A y \in T : ~(y < m)
  BY <1>1, <1>2 DEF OpToRel
<1>4. PICK k \in S : m = n - k
  OBVIOUS
<1>5. ASSUME NEW x \in S PROVE k >= x
  <2>1. n - x \in T
    OBVIOUS
  <2>2. ~(n - x < n - k) /\ x \in 0 .. n /\ k \in 0 .. n
    BY <1>3, <1>4, <2>1
  <2> QED
    BY <2>2
<1> QED
  BY <1>5 DEF Max

(* t is the sequence s over S with e put at place i, what InsertAt returns. *)
Inserted(t, s, i, e, S) ==
  /\ t \in Seq(S) /\ Len(t) = Len(s) + 1
  /\ \A j \in 1 .. Len(s) + 1 : t[j] = IF j < i THEN s[j] ELSE IF j = i THEN e ELSE s[j - 1]

LEMMA InsertAtProperties ==
  ASSUME NEW S, NEW s \in Seq(S), NEW i \in 1 .. Len(s) + 1, NEW e \in S
  PROVE  Inserted(InsertAt(s, i, e), s, i, e, S)
<1> DEFINE front == SubSeq(s, 1, i - 1)
           back == SubSeq(s, i, Len(s))
           t == InsertAt(s, i, e)
<1>1. /\ front \in Seq(S) /\ Len(front) = i - 1
      /\ \A j \in 1 .. i - 1 : front[j] = s[j]
  BY SubSeqProperties
<1>2. /\ back \in Seq(S) /\ Len(back) = Len(s) + 1 - i
      /\ \A j \in 1 .. Len(s) + 1 - i : back[j] = s[i + j - 1]
  BY SubSeqProperties
<1> HIDE DEF front, back
<1> DEFINE c == front \o <<e>>
<1>3. /\ c \in Seq(S) /\ Len(c) = i /\ c[i] = e
      /\ \A j \in 1 .. i - 1 : c[j] = s[j]
  BY <1>1
<1> HIDE DEF c
<1>4. /\ c \o back \in Seq(S) /\ Len(c \o back) = Len(s) + 1
      /\ \A j \in 1 .. i : (c \o back)[j] = c[j]
      /\ \A j \in i + 1 .. Len(s) + 1 : (c \o back)[j] = s[j - 1]
  <2>1. /\ c \o back \in Seq(S) /\ Len(c \o back) = Len(s) + 1
        /\ \A j \in 1 .. i : (c \o back)[j] = c[j]
    BY <1>2, <1>3
  <2>2. ASSUME NEW j \in i + 1 .. Len(s) + 1 PROVE (c \o back)[j] = s[j - 1]
    <3>1. (c \o back)[j] = back[j - i] /\ j - i \in 1 .. Len(s) + 1 - i
      BY <1>2, <1>3
    <3>2. i + (j - i) - 1 = j - 1
      OBVIOUS
    <3> QED
      BY <1>2, <3>1, <3>2
  <2> QED
    BY <2>1, <2>2
<1>5. t = c \o back
  BY DEF InsertAt, front, back, c
<1> HIDE DEF t
<1>6. ASSUME NEW j \in 1 .. Len(s) + 1
      PROVE  t[j] = IF j < i THEN s[j] ELSE IF j = i THEN e ELSE s[j - 1]
  <2>1. CASE j \in 1 .. i
    BY <1>3, <1>4, <1>5, <2>1
  <2>2. CASE j \in i + 1 .. Len(s) + 1
    BY <1>4, <1>5, <2>2
  <2> QED
    BY <2>1, <2>2
<1>7. Inserted(t, s, i, e, S)
  BY <1>4, <1>5, <1>6 DEF Inserted
<1> QED
  BY <1>7 DEF t

(* What is left of a slice behind a head index.                            *)
LEMMA SuffixProperties ==
  ASSUME NEW S, NEW s \in Seq(S), NEW h \in 0 .. Len(s)
  PROVE  /\ SubSeq(s, h + 1, Len(s)) \in Seq(S)
         /\ Len(SubSeq(s, h + 1, Len(s))) = Len(s) - h
         /\ DOMAIN SubSeq(s, h + 1, Len(s)) = 1 .. Len(s) - h
         /\ \A j \in 1 .. Len(s) - h : SubSeq(s, h + 1, Len(s))[j] = s[h + j]
<1>1. \A i \in h + 1 .. Len(s) : s[i] \in S
  BY ElementOfSeq
<1> QED
  BY <1>1, SubSeqProperties

-----------------------------------------------------------------------------
\* How the waiting events change.

LEMMA WaitingIs ==
  ASSUME TypeOK
  PROVE  /\ Waiting \in Seq(Event)
         /\ Len(Waiting) = Len(events) - eventHead
         /\ DOMAIN Waiting = 1 .. Len(Waiting)
         /\ \A j \in 1 .. Len(Waiting) : Waiting[j] = events[eventHead + j]
BY SuffixProperties DEF TypeOK, Waiting

(* The same of the next state, where its parts are known.                  *)
LEMMA WaitingNext ==
  ASSUME events' \in Seq(Event), eventHead' \in 0 .. Len(events')
  PROVE  /\ Waiting' \in Seq(Event)
         /\ Len(Waiting') = Len(events') - eventHead'
         /\ DOMAIN Waiting' = 1 .. Len(Waiting')
         /\ \A j \in 1 .. Len(Waiting') : Waiting'[j] = events'[eventHead' + j]
BY SuffixProperties DEF Waiting

(* The slot of a new event is behind the head and behind all events that   *)
(* are not later.                                                          *)
LEMMA SlotProperties ==
  ASSUME TypeOK, NEW at \in Nat
  PROVE  /\ Slot(at) \in eventHead .. Len(events)
         /\ Slot(at) > eventHead => events[Slot(at)].At <= at
         /\ \A i \in Slot(at) + 1 .. Len(events) : ~(events[i].At <= at)
<1> DEFINE S == {i \in 0 .. Len(events) : i <= eventHead \/ events[i].At <= at}
<1>1. Slot(at) = Max(S)
  BY DEF Slot
<1>2. Len(events) \in Nat /\ eventHead \in 0 .. Len(events)
  BY DEF TypeOK
<1>3. S \in SUBSET (0 .. Len(events)) /\ eventHead \in S
  BY <1>2
<1>4. Max(S) \in S /\ \A x \in S : Max(S) >= x
  BY <1>2, <1>3, MaxOfIndices
<1> HIDE DEF S
<1>5. ASSUME NEW i \in 0 .. Len(events)
      PROVE  i \in S <=> (i <= eventHead \/ events[i].At <= at)
  BY DEF S
<1>6. Slot(at) \in 0 .. Len(events) /\ Slot(at) \in S
  BY <1>1, <1>3, <1>4
<1>7. Slot(at) >= eventHead
  BY <1>1, <1>3, <1>4
<1>8. ASSUME NEW i \in Slot(at) + 1 .. Len(events) PROVE ~(events[i].At <= at)
  <2>1. i \in 0 .. Len(events) /\ ~(Slot(at) >= i)
    BY <1>2, <1>6
  <2> QED
    BY <1>1, <1>4, <1>5, <2>1
<1> QED
  BY <1>2, <1>5, <1>6, <1>7, <1>8

NewEvent(at) == [At |-> at, id |-> Len(due) + 1]

LEMMA ScheduleWaiting ==
  ASSUME TypeOK, WaitingInOrder, NEW at \in Times, Schedule(at)
  PROVE  /\ events' \in Seq(Event) /\ eventHead' \in 0 .. Len(events')
         /\ Len(Waiting') = Len(Waiting) + 1
         /\ \E p \in 1 .. Len(Waiting) + 1 :
              /\ \A j \in 1 .. Len(Waiting') :
                   Waiting'[j] = IF j < p THEN Waiting[j]
                                 ELSE IF j = p THEN NewEvent(at) ELSE Waiting[j - 1]
              /\ \A j \in 1 .. p - 1 : Waiting[j].At <= at
              /\ \A j \in p .. Len(Waiting) : at < Waiting[j].At
<1> DEFINE n == Slot(at)
           p == n + 1 - eventHead
<1>1. at \in Nat /\ Len(due) \in Nat /\ NewEvent(at) \in Event
  BY BoundsAssumption DEF TypeOK, Times, NewEvent, Event
<1>2. /\ n \in eventHead .. Len(events)
      /\ n > eventHead => events[n].At <= at
      /\ \A i \in n + 1 .. Len(events) : ~(events[i].At <= at)
  BY <1>1, SlotProperties
<1> HIDE DEF n
<1>3. /\ events \in Seq(Event) /\ Len(events) \in Nat /\ eventHead \in 0 .. Len(events)
      /\ eventHead' = eventHead
  BY DEF TypeOK, Schedule
<1>4. events' = InsertAt(events, n + 1, NewEvent(at))
  BY DEF Schedule, NewEvent, n
<1>5. /\ events' \in Seq(Event) /\ Len(events') = Len(events) + 1
      /\ \A j \in 1 .. Len(events) + 1 :
           events'[j] = IF j < n + 1 THEN events[j]
                        ELSE IF j = n + 1 THEN NewEvent(at) ELSE events[j - 1]
  <2>1. n + 1 \in 1 .. Len(events) + 1
    BY <1>2, <1>3
  <2> QED
    <3>1. Inserted(InsertAt(events, n + 1, NewEvent(at)), events, n + 1, NewEvent(at), Event)
      BY <1>1, <1>3, <2>1, InsertAtProperties
    <3>2. Inserted(events', events, n + 1, NewEvent(at), Event)
      BY <1>4, <3>1
    <3> QED
      BY <3>2 DEF Inserted
<1>6. eventHead' \in 0 .. Len(events')
  BY <1>3, <1>5
<1>7. /\ Len(Waiting') = Len(events') - eventHead'
      /\ \A j \in 1 .. Len(Waiting') : Waiting'[j] = events'[eventHead' + j]
  BY <1>5, <1>6, WaitingNext
<1>8. /\ Waiting \in Seq(Event) /\ Len(Waiting) = Len(events) - eventHead
      /\ DOMAIN Waiting = 1 .. Len(Waiting)
      /\ \A j \in 1 .. Len(Waiting) : Waiting[j] = events[eventHead + j]
  BY WaitingIs
<1>9. p \in 1 .. Len(Waiting) + 1
  BY <1>2, <1>3, <1>8
<1>10. Len(Waiting') = Len(Waiting) + 1
  BY <1>3, <1>5, <1>7, <1>8
<1>11. ASSUME NEW j \in 1 .. Len(Waiting')
       PROVE  Waiting'[j] = IF j < p THEN Waiting[j]
                            ELSE IF j = p THEN NewEvent(at) ELSE Waiting[j - 1]
  <2>1. /\ Waiting'[j] = events'[eventHead + j] /\ eventHead + j \in 1 .. Len(events) + 1
        /\ j \in 1 .. Len(Waiting) + 1
    BY <1>3, <1>7, <1>8, <1>10
  <2>2. j < p => Waiting[j] = events[eventHead + j]
    BY <1>8, <1>9
  <2>3. j > p => Waiting[j - 1] = events[eventHead + j - 1]
    BY <1>8, <1>9, <2>1
  <2> QED
    BY <1>2, <1>3, <1>5, <1>9, <2>1, <2>2, <2>3
<1>12. ASSUME NEW j \in 1 .. p - 1 PROVE Waiting[j].At <= at
  <2>1. n > eventHead /\ Waiting[p - 1].At <= at
    BY <1>2, <1>3, <1>8, <1>9
  <2>2. j \in DOMAIN Waiting /\ p - 1 \in DOMAIN Waiting
    BY <1>8, <1>9
  <2>3. Waiting[j] \in Event /\ Waiting[p - 1] \in Event
    BY <1>8, <2>2, ElementOfSeq
  <2>4. j = p - 1 \/ Waiting[j].At <= Waiting[p - 1].At
    BY <1>9, <2>2, <2>3 DEF WaitingInOrder, Event
  <2> QED
    BY <1>1, <2>1, <2>3, <2>4 DEF Event
<1>13. ASSUME NEW j \in p .. Len(Waiting) PROVE at < Waiting[j].At
  <2>1. eventHead + j \in n + 1 .. Len(events) /\ j \in 1 .. Len(Waiting)
    BY <1>2, <1>3, <1>8, <1>9
  <2>2. ~(Waiting[j].At <= at) /\ Waiting[j] \in Event
    BY <1>2, <1>8, <2>1, ElementOfSeq
  <2> QED
    BY <1>1, <2>2 DEF Event
<1> HIDE DEF p
<1> QED
  BY <1>5, <1>6, <1>9, <1>10, <1>11, <1>12, <1>13

LEMMA FireWaiting ==
  ASSUME TypeOK, Waiting # <<>>, eventHead' = eventHead + 1, events' = events
  PROVE  /\ eventHead' \in 0 .. Len(events')
         /\ Len(Waiting') = Len(Waiting) - 1
         /\ \A j \in 1 .. Len(Waiting') : Waiting'[j] = Waiting[j + 1]
<1>1. /\ Waiting \in Seq(Event) /\ Len(Waiting) = Len(events) - eventHead
      /\ \A j \in 1 .. Len(Waiting) : Waiting[j] = events[eventHead + j]
  BY WaitingIs
<1>2. Len(Waiting) > 0
  BY <1>1, EmptySeq
<1>3. events \in Seq(Event) /\ Len(events) \in Nat /\ eventHead \in 0 .. Len(events)
  BY DEF TypeOK
<1>4. eventHead' \in 0 .. Len(events')
  BY <1>1, <1>2, <1>3
<1>5. /\ Len(Waiting') = Len(events') - eventHead'
      /\ \A j \in 1 .. Len(Waiting') : Waiting'[j] = events'[eventHead' + j]
  BY <1>3, <1>4, WaitingNext
<1>6. Len(Waiting') = Len(Waiting) - 1
  BY <1>1, <1>3, <1>5
<1>7. ASSUME NEW j \in 1 .. Len(Waiting') PROVE Waiting'[j] = Waiting[j + 1]
  <2>1. j + 1 \in 1 .. Len(Waiting) /\ eventHead + 1 + j = eventHead + (j + 1)
    BY <1>1, <1>3, <1>6
  <2> QED
    BY <1>1, <1>3, <1>5, <2>1
<1> QED
  BY <1>4, <1>6, <1>7

(* Compaction is invisible, and its slice expression is in range.          *)
LEMMA CompactWaiting ==
  ASSUME TypeOK, ~crashed, CompactEvents
  PROVE  /\ events' \in Seq(Event) /\ eventHead' \in 0 .. Len(events')
         /\ Waiting' = Waiting
         /\ ~crashed' /\ crashed' \in BOOLEAN
<1>1. events \in Seq(Event) /\ Len(events) \in Nat /\ eventHead \in 0 .. Len(events)
  BY DEF TypeOK
<1>5. ASSUME UNCHANGED crashed PROVE ~crashed' /\ crashed' \in BOOLEAN
  BY <1>5 DEF TypeOK
<1>2. CASE UNCHANGED <<events, eventHead, crashed>>
  <2>1. Waiting' = Waiting
    BY <1>2 DEF Waiting
  <2>2. events' \in Seq(Event) /\ eventHead' \in 0 .. Len(events')
    BY <1>1, <1>2
  <2> QED
    BY <1>2, <1>5, <2>1, <2>2
<1>3. CASE events' = SubSeq(events, eventHead + 1, Len(events)) /\ eventHead' = 0 /\ UNCHANGED crashed
  <2>1. events' = Waiting /\ Waiting \in Seq(Event)
    BY <1>3, WaitingIs DEF Waiting
  <2>2. Len(Waiting) \in Nat
    BY <2>1
  <2>3. SubSeq(Waiting, 1, Len(Waiting)) = Waiting
    BY <2>1, SubSeqFull
  <2>4. Waiting' = SubSeq(Waiting, 0 + 1, Len(Waiting))
    BY <1>3, <2>1 DEF Waiting
  <2>5. Waiting' = Waiting
    BY <2>3, <2>4
  <2>6. events' \in Seq(Event) /\ eventHead' \in 0 .. Len(events')
    <3>1. eventHead' = 0
      BY <1>3
    <3> QED
      BY <2>1, <2>2, <3>1
  <2> QED
    BY <1>3, <1>5, <2>5, <2>6
<1>4. ~(eventHead > Len(events))
  BY <1>1
<1> QED
  BY <1>2, <1>3, <1>4 DEF CompactEvents

-----------------------------------------------------------------------------
\* The queue: what waits, and how often events have fired.

Queue == WaitingInOrder /\ WaitingUnfired /\ FiresOnce

LEMMA WaitingTypes ==
  ASSUME TypeOK, WaitingUnfired
  PROVE  /\ DOMAIN Waiting = 1 .. Len(Waiting) /\ Len(Waiting) \in Nat
         /\ DOMAIN fires = 1 .. Len(due) /\ DOMAIN due = 1 .. Len(due) /\ Len(due) \in Nat
         /\ \A i \in 1 .. Len(Waiting) :
              /\ Waiting[i] \in Event
              /\ Waiting[i].At \in Nat
              /\ Waiting[i].id \in 1 .. Len(due)
<1>1. /\ Waiting \in Seq(Event) /\ DOMAIN Waiting = 1 .. Len(Waiting)
  BY WaitingIs
<1>2. DOMAIN fires = 1 .. Len(due) /\ DOMAIN due = 1 .. Len(due) /\ Len(due) \in Nat
  BY DEF TypeOK
<1>3. \A i \in 1 .. Len(Waiting) : Waiting[i] \in Event /\ Waiting[i].id \in DOMAIN fires
  BY <1>1, ElementOfSeq DEF WaitingUnfired
<1> QED
  BY <1>1, <1>2, <1>3 DEF Event

LEMMA QueueSchedule ==
  ASSUME TypeOK, Queue, NEW at \in Times, Schedule(at)
  PROVE  Queue'
<1>1. /\ events' \in Seq(Event) /\ eventHead' \in 0 .. Len(events')
      /\ Len(Waiting') = Len(Waiting) + 1
  BY ScheduleWaiting DEF Queue
<1>2. PICK p \in 1 .. Len(Waiting) + 1 :
        /\ \A j \in 1 .. Len(Waiting') :
             Waiting'[j] = IF j < p THEN Waiting[j]
                           ELSE IF j = p THEN NewEvent(at) ELSE Waiting[j - 1]
        /\ \A j \in 1 .. p - 1 : Waiting[j].At <= at
        /\ \A j \in p .. Len(Waiting) : at < Waiting[j].At
  BY ScheduleWaiting DEF Queue
<1>3. /\ DOMAIN Waiting = 1 .. Len(Waiting) /\ Len(Waiting) \in Nat
      /\ DOMAIN fires = 1 .. Len(due) /\ DOMAIN due = 1 .. Len(due) /\ Len(due) \in Nat
      /\ \A i \in 1 .. Len(Waiting) :
           /\ Waiting[i] \in Event
           /\ Waiting[i].At \in Nat
           /\ Waiting[i].id \in 1 .. Len(due)
  BY WaitingTypes DEF Queue
<1>4. DOMAIN Waiting' = 1 .. Len(Waiting')
  BY <1>1, WaitingNext
<1>5. at \in Nat /\ now \in Nat /\ NewEvent(at).At = at /\ NewEvent(at).id = Len(due) + 1
  BY BoundsAssumption DEF NewEvent, Times, TypeOK
<1>6. /\ DOMAIN fires' = 1 .. Len(due) + 1
      /\ fires'[Len(due) + 1] = 0 /\ due'[Len(due) + 1] = (IF at < now THEN now ELSE at)
      /\ \A id \in 1 .. Len(due) : fires'[id] = fires[id] /\ due'[id] = due[id]
      /\ now' = now
  <2>1. /\ due \in Seq(Nat) /\ fires \in Seq(Nat) /\ Len(fires) = Len(due) /\ Len(due) \in Nat
        /\ due' = Append(due, IF at < now THEN now ELSE at)
        /\ fires' = Append(fires, 0) /\ now' = now
    BY DEF Schedule, TypeOK
  <2>2. (IF at < now THEN now ELSE at) \in Nat
    BY <1>5
  <2>3. /\ DOMAIN fires' = 1 .. Len(due) + 1 /\ fires'[Len(due) + 1] = 0
        /\ \A id \in 1 .. Len(due) : fires'[id] = fires[id]
    BY <2>1
  <2>4. /\ due'[Len(due) + 1] = (IF at < now THEN now ELSE at)
        /\ \A id \in 1 .. Len(due) : due'[id] = due[id]
    BY <2>1, <2>2
  <2> QED
    BY <2>1, <2>3, <2>4
<1>7. WaitingInOrder'
  <2> SUFFICES ASSUME NEW i \in 1 .. Len(Waiting'), NEW j \in 1 .. Len(Waiting'), i < j
               PROVE  \/ Waiting'[i].At < Waiting'[j].At
                      \/ Waiting'[i].At = Waiting'[j].At /\ Waiting'[i].id < Waiting'[j].id
    BY <1>4 DEF WaitingInOrder
  <2>1. \A k, l \in 1 .. Len(Waiting) : k < l =>
          \/ Waiting[k].At < Waiting[l].At
          \/ Waiting[k].At = Waiting[l].At /\ Waiting[k].id < Waiting[l].id
    BY <1>3 DEF Queue, WaitingInOrder
  <2>2. CASE j < p
    <3>1. /\ Waiting'[i] = Waiting[i] /\ Waiting'[j] = Waiting[j]
          /\ i \in 1 .. Len(Waiting) /\ j \in 1 .. Len(Waiting)
      BY <1>1, <1>2, <1>3, <2>2
    <3> QED
      BY <2>1, <3>1
  <2>3. CASE j = p
    <3>1. /\ Waiting'[j] = NewEvent(at) /\ Waiting'[i] = Waiting[i]
          /\ i \in 1 .. p - 1 /\ i \in 1 .. Len(Waiting)
      BY <1>1, <1>2, <1>3, <2>3
    <3> QED
      BY <1>2, <1>3, <1>5, <3>1
  <2>4. CASE j > p /\ i = p
    <3>1. /\ Waiting'[i] = NewEvent(at) /\ Waiting'[j] = Waiting[j - 1]
          /\ j - 1 \in p .. Len(Waiting)
      BY <1>1, <1>2, <1>3, <2>4
    <3> QED
      BY <1>2, <1>5, <3>1
  <2>5. CASE j > p /\ i < p
    <3>1. /\ Waiting'[i] = Waiting[i] /\ Waiting'[j] = Waiting[j - 1]
          /\ i < j - 1 /\ i \in 1 .. Len(Waiting) /\ j - 1 \in 1 .. Len(Waiting)
      BY <1>1, <1>2, <1>3, <2>5
    <3> QED
      BY <2>1, <3>1
  <2>6. CASE j > p /\ i > p
    <3>1. /\ Waiting'[i] = Waiting[i - 1] /\ Waiting'[j] = Waiting[j - 1]
          /\ i - 1 < j - 1 /\ i - 1 \in 1 .. Len(Waiting) /\ j - 1 \in 1 .. Len(Waiting)
      BY <1>1, <1>2, <1>3, <2>6
    <3> QED
      BY <2>1, <3>1
  <2> QED
    BY <1>1, <1>3, <2>2, <2>3, <2>4, <2>5, <2>6
<1>8. WaitingUnfired'
  <2>1. ASSUME NEW j \in 1 .. Len(Waiting')
        PROVE  \/ /\ j < p /\ j \in 1 .. Len(Waiting) /\ Waiting'[j] = Waiting[j]
               \/ /\ j = p /\ Waiting'[j] = NewEvent(at)
               \/ /\ j > p /\ j - 1 \in 1 .. Len(Waiting) /\ Waiting'[j] = Waiting[j - 1]
    BY <1>1, <1>2, <1>3
  <2>2. \A k \in 1 .. Len(Waiting) :
          /\ fires[Waiting[k].id] = 0
          /\ due[Waiting[k].id] = IF Waiting[k].At >= now THEN Waiting[k].At ELSE now
    BY <1>3 DEF Queue, WaitingUnfired
  <2>3. \A k, l \in 1 .. Len(Waiting) : k # l => Waiting[k].id # Waiting[l].id
    BY <1>3 DEF Queue, WaitingUnfired
  <2>4. ASSUME NEW j \in 1 .. Len(Waiting')
        PROVE  /\ Waiting'[j].id \in DOMAIN fires'
               /\ fires'[Waiting'[j].id] = 0
               /\ due'[Waiting'[j].id] = IF Waiting'[j].At >= now' THEN Waiting'[j].At ELSE now'
    <3>1. CASE j = p /\ Waiting'[j] = NewEvent(at)
      BY <1>3, <1>5, <1>6, <3>1
    <3>2. ASSUME NEW k \in 1 .. Len(Waiting), Waiting'[j] = Waiting[k] PROVE <2>4!2
      BY <1>3, <1>6, <2>2, <3>2
    <3> QED
      BY <2>1, <3>1, <3>2
  <2>5. ASSUME NEW i \in 1 .. Len(Waiting'), NEW j \in 1 .. Len(Waiting'), i # j
        PROVE  Waiting'[i].id # Waiting'[j].id
    <3>1. CASE i = p
      BY <1>3, <1>5, <2>1, <2>5, <3>1, SMTT(40)
    <3>2. CASE j = p
      BY <1>3, <1>5, <2>1, <2>5, <3>2
    <3>3. CASE i # p /\ j # p
      <4>1. PICK k \in 1 .. Len(Waiting) : Waiting'[i] = Waiting[k] /\ k = IF i < p THEN i ELSE i - 1
        BY <2>1, <3>3
      <4>2. PICK l \in 1 .. Len(Waiting) : Waiting'[j] = Waiting[l] /\ l = IF j < p THEN j ELSE j - 1
        BY <2>1, <3>3
      <4>3. k # l
        BY <1>1, <1>3, <2>5, <3>3, <4>1, <4>2
      <4> QED
        BY <2>3, <4>1, <4>2, <4>3
    <3> QED
      BY <3>1, <3>2, <3>3
  <2> QED
    BY <1>4, <2>4, <2>5 DEF WaitingUnfired
<1>9. FiresOnce'
  BY <1>3, <1>6 DEF Queue, FiresOnce
<1> QED
  BY <1>7, <1>8, <1>9 DEF Queue

(* The first waiting event is due now when it fires.                       *)
LEMMA QueueFire ==
  ASSUME TypeOK, Queue, Waiting # <<>>, Fire(Waiting[1])
  PROVE  Queue'
<1>1. /\ eventHead' \in 0 .. Len(events')
      /\ Len(Waiting') = Len(Waiting) - 1
      /\ \A j \in 1 .. Len(Waiting') : Waiting'[j] = Waiting[j + 1]
  BY FireWaiting DEF Fire
<1>2. /\ DOMAIN Waiting = 1 .. Len(Waiting) /\ Len(Waiting) \in Nat
      /\ DOMAIN fires = 1 .. Len(due) /\ DOMAIN due = 1 .. Len(due) /\ Len(due) \in Nat
      /\ \A i \in 1 .. Len(Waiting) :
           /\ Waiting[i] \in Event
           /\ Waiting[i].At \in Nat
           /\ Waiting[i].id \in 1 .. Len(due)
  BY WaitingTypes DEF Queue
<1>3. DOMAIN Waiting' = 1 .. Len(Waiting') /\ Len(Waiting) > 0
  BY <1>1, <1>2, WaitingNext, WaitingIs, EmptySeq DEF Fire, TypeOK
<1>4. now' = now /\ due' = due /\ fires' = [fires EXCEPT ![Waiting[1].id] = @ + 1]
  BY DEF Fire
<1>5. /\ \A k \in 1 .. Len(Waiting) :
           /\ fires[Waiting[k].id] = 0
           /\ due[Waiting[k].id] = IF Waiting[k].At >= now THEN Waiting[k].At ELSE now
      /\ \A k, l \in 1 .. Len(Waiting) : k # l => Waiting[k].id # Waiting[l].id
  BY <1>2 DEF Queue, WaitingUnfired
<1>6. WaitingInOrder'
  <2> SUFFICES ASSUME NEW i \in 1 .. Len(Waiting'), NEW j \in 1 .. Len(Waiting'), i < j
               PROVE  \/ Waiting'[i].At < Waiting'[j].At
                      \/ Waiting'[i].At = Waiting'[j].At /\ Waiting'[i].id < Waiting'[j].id
    BY <1>3 DEF WaitingInOrder
  <2>1. i + 1 \in DOMAIN Waiting /\ j + 1 \in DOMAIN Waiting /\ i + 1 < j + 1
    BY <1>1, <1>2
  <2>2. \/ Waiting[i + 1].At < Waiting[j + 1].At
        \/ Waiting[i + 1].At = Waiting[j + 1].At /\ Waiting[i + 1].id < Waiting[j + 1].id
    BY <2>1 DEF Queue, WaitingInOrder
  <2> QED
    BY <1>1, <2>2
<1>7. ASSUME NEW j \in 1 .. Len(Waiting')
      PROVE  /\ j + 1 \in 1 .. Len(Waiting) /\ Waiting'[j] = Waiting[j + 1]
             /\ Waiting[j + 1].id # Waiting[1].id
             /\ fires'[Waiting[j + 1].id] = fires[Waiting[j + 1].id]
  <2>1. j + 1 \in 1 .. Len(Waiting) /\ 1 \in 1 .. Len(Waiting) /\ j + 1 # 1
    BY <1>1, <1>2, <1>3
  <2>2. Waiting[j + 1].id # Waiting[1].id
    BY <1>5, <2>1
  <2> QED
    BY <1>1, <1>2, <1>4, <2>1, <2>2
<1>8. WaitingUnfired'
  <2>1. \A j \in 1 .. Len(Waiting') :
          /\ Waiting'[j].id \in DOMAIN fires'
          /\ fires'[Waiting'[j].id] = 0
          /\ due'[Waiting'[j].id] = IF Waiting'[j].At >= now' THEN Waiting'[j].At ELSE now'
    BY <1>2, <1>4, <1>5, <1>7
  <2>2. ASSUME NEW i \in 1 .. Len(Waiting'), NEW j \in 1 .. Len(Waiting'), i # j
        PROVE  Waiting'[i].id # Waiting'[j].id
    <3>1. i + 1 # j + 1
      BY <1>1, <1>2, <2>2
    <3> QED
      BY <1>5, <1>7, <3>1
  <2> QED
    BY <1>3, <2>1, <2>2 DEF WaitingUnfired
<1>9. FiresOnce'
  <2>1. \A id \in 1 .. Len(due) :
          fires'[id] = IF id = Waiting[1].id THEN fires[id] + 1 ELSE fires[id]
    BY <1>2, <1>3, <1>4
  <2>2. fires[Waiting[1].id] = 0
    BY <1>2, <1>3, <1>5
  <2> QED
    BY <1>2, <1>4, <2>1, <2>2 DEF Queue, FiresOnce
<1> QED
  BY <1>6, <1>8, <1>9 DEF Queue

LEMMA QueueKept ==
  ASSUME Queue, Waiting' = Waiting, UNCHANGED <<now, due, fires>>
  PROVE  Queue'
BY DEF Queue, WaitingInOrder, WaitingUnfired, FiresOnce

(* Time passes up to the first waiting event, at most.                     *)
LEMMA QueueElapse ==
  ASSUME TypeOK, Queue, UNCHANGED <<events, eventHead, due, fires>>,
         now' \in Nat, now' > now,
         \A i \in DOMAIN Waiting : now' <= Waiting[i].At
  PROVE  Queue'
<1>1. Waiting' = Waiting
  BY DEF Waiting
<1>2. now \in Nat
  BY BoundsAssumption DEF TypeOK, Times
<1>3. ASSUME NEW i \in DOMAIN Waiting
      PROVE  due[Waiting[i].id] = IF Waiting[i].At >= now' THEN Waiting[i].At ELSE now'
  <2>1. Waiting[i].At \in Nat
    BY WaitingTypes DEF Queue
  <2>2. due[Waiting[i].id] = IF Waiting[i].At >= now THEN Waiting[i].At ELSE now
    BY DEF Queue, WaitingUnfired
  <2>3. now' <= Waiting[i].At
    OBVIOUS
  <2> QED
    BY <1>2, <2>1, <2>2, <2>3
<1>4. WaitingUnfired'
  BY <1>1, <1>3 DEF Queue, WaitingUnfired
<1> QED
  BY <1>1, <1>4 DEF Queue, WaitingInOrder, FiresOnce

(* Events are in order, so that the first one bounds all.                  *)
LEMMA FirstIsEarliest ==
  ASSUME TypeOK, Queue, Waiting # <<>>
  PROVE  /\ 1 \in DOMAIN Waiting
         /\ \A i \in DOMAIN Waiting :
              \/ Waiting[1].At < Waiting[i].At
              \/ Waiting[1].At = Waiting[i].At /\ Waiting[1].id <= Waiting[i].id
<1>1. /\ DOMAIN Waiting = 1 .. Len(Waiting) /\ Len(Waiting) \in Nat
      /\ \A i \in 1 .. Len(Waiting) : Waiting[i].At \in Nat /\ Waiting[i].id \in 1 .. Len(due)
  BY WaitingTypes DEF Queue
<1>2. 1 \in DOMAIN Waiting
  BY <1>1, WaitingIs, EmptySeq
<1>3. ASSUME NEW i \in DOMAIN Waiting
      PROVE  \/ Waiting[1].At < Waiting[i].At
             \/ Waiting[1].At = Waiting[i].At /\ Waiting[1].id <= Waiting[i].id
  <2>1. CASE i = 1
    BY <1>1, <2>1
  <2>2. CASE i > 1
    <3>1. \/ Waiting[1].At < Waiting[i].At
          \/ Waiting[1].At = Waiting[i].At /\ Waiting[1].id < Waiting[i].id
      BY <1>2, <2>2 DEF Queue, WaitingInOrder
    <3> QED
      BY <1>1, <1>2, <3>1
  <2> QED
    BY <1>1, <2>1, <2>2
<1> QED
  BY <1>2, <1>3

-----------------------------------------------------------------------------
\* The stack of calls.

StackTypes == OuterFramesFire /\ TargetsInTime

LEMMA TopIs ==
  ASSUME TypeOK, TargetsInTime, stack # <<>>
  PROVE  /\ Len(stack) \in Nat /\ Len(stack) > 0
         /\ Top \in Frame /\ Top.target \in Times /\ Top.target \in Nat
<1>1. stack \in Seq(Frame) /\ Len(stack) \in Nat /\ Len(stack) > 0
  BY EmptySeq DEF TypeOK
<1>2. Len(stack) \in DOMAIN stack
  BY <1>1
<1> QED
  BY <1>1, <1>2, BoundsAssumption DEF Top, TargetsInTime, Times

(* What the steps of Advance make of the frame on top.                     *)
Moved(t, place, event, delta) ==
  [t EXCEPT !.at = place, !.event = event, !.called = 0, !.delta = delta]

LEMMA NextFrame ==
  ASSUME NEW t \in Frame, NEW place \in {"approach", "fire", "finish"}, NEW event \in Event,
         NEW delta \in Nat
  PROVE  /\ Moved(t, place, event, delta) \in Frame
         /\ Moved(t, place, event, delta).target = t.target
         /\ Moved(t, place, event, delta).at = place
         /\ Moved(t, place, event, delta).event = event
         /\ Moved(t, place, event, delta).called = 0
         /\ Moved(t, place, event, delta).delta = delta
<1> DEFINE g == [t EXCEPT !.at = place, !.event = event]
           h == [g EXCEPT !.called = 0]
           k == [h EXCEPT !.delta = delta]
<1>1. g \in Frame /\ g.target = t.target /\ g.at = place /\ g.event = event
  BY DEF Frame
<1> HIDE DEF g
<1>2. 0 \in 0 .. NumListeners
  BY NumListenersAssumption
<1>3. /\ h \in Frame /\ h.target = g.target /\ h.at = g.at /\ h.event = g.event
      /\ h.called = 0
  BY <1>1, <1>2 DEF Frame
<1> HIDE DEF h
<1>4. /\ k \in Frame /\ k.target = h.target /\ k.at = h.at /\ k.event = h.event
      /\ k.called = h.called /\ k.delta = delta
  BY <1>3 DEF Frame
<1> HIDE DEF k
<1>5. Moved(t, place, event, delta) = k
  BY DEF k, h, g, Moved
<1> QED
  BY <1>1, <1>3, <1>4, <1>5

\* Calls keep the time they run to.
SameTargets == \A i \in 1 .. Len(stack) : stack'[i].target = stack[i].target

(* The innermost call moves on; the others wait.                           *)
LEMMA SetTopKeeps ==
  ASSUME TypeOK, StackTypes, stack # <<>>, NEW f \in Frame, f.target = Top.target,
         stack' = SetTop(f), UNCHANGED crashed
  PROVE  /\ stack' \in Seq(Frame) /\ stack' # <<>> /\ Len(stack') = Len(stack)
         /\ Top' = f
         /\ SameTargets
         /\ StackTypes'
<1>1. /\ stack \in Seq(Frame) /\ Len(stack) \in Nat /\ Len(stack) > 0
      /\ Top.target \in Times
  BY TopIs DEF TypeOK, StackTypes
<1>2. Len(stack) \in 1 .. Len(stack)
  BY <1>1
<1>3. stack' = [stack EXCEPT ![Len(stack)] = f]
  BY DEF SetTop
<1>4. /\ stack' \in Seq(Frame) /\ Len(stack') = Len(stack)
      /\ \A i \in 1 .. Len(stack) : stack'[i] = IF i = Len(stack) THEN f ELSE stack[i]
  BY <1>1, <1>2, <1>3, ExceptSeq
<1>5. Top' = f
  BY <1>2, <1>4 DEF Top
<1>6. stack' # <<>>
  BY <1>1, <1>4, EmptySeq
<1>7. \A i \in 1 .. Len(stack') - 1 : stack'[i].at = "fire"
  BY <1>1, <1>4, SMTT(40) DEF StackTypes, OuterFramesFire
<1>8. TargetsInTime'
  <2>1. DOMAIN stack = 1 .. Len(stack) /\ DOMAIN stack' = 1 .. Len(stack)
    BY <1>1, <1>4
  <2> QED
    BY <1>1, <1>4, <2>1 DEF StackTypes, TargetsInTime
<1>9. ~crashed'
  BY DEF StackTypes, OuterFramesFire
<1>10. OuterFramesFire'
  BY <1>7, <1>9 DEF OuterFramesFire
<1>11. SameTargets
  BY <1>1, <1>4 DEF Top, SameTargets
<1> QED
  BY <1>4, <1>5, <1>6, <1>8, <1>10, <1>11 DEF StackTypes

(* Nobody but the host or an event may advance or reset the scheduler.     *)
LEMMA CallerIs ==
  ASSUME ListenersSchedule, NEW call, call # "schedule", May(call)
  PROVE  InHost \/ InEvent
BY DEF May, ListenersSchedule

LEMMA NotCalling ==
  ASSUME InHost \/ InEvent
  PROVE  ~Calling /\ ~(stack # <<>> /\ Top.at = "approach")
BY DEF InHost, InEvent, At, Calling

-----------------------------------------------------------------------------
\* Every step keeps the invariant.

LEMMA InvInit == Init => IInv
<1> SUFFICES ASSUME Init PROVE IInv
  OBVIOUS
<1>1. TypeOK
  <2>1. events \in Seq(Event) /\ stack \in Seq(Frame) /\ due \in Seq(Nat) /\ fires \in Seq(Nat)
    BY EmptySeq DEF Init
  <2>2. now \in Times /\ eventHead \in 0 .. Len(events) /\ Len(fires) = Len(due)
    BY BoundsAssumption, EmptySeq DEF Init, Times
  <2>3. crashed \in BOOLEAN
    BY DEF Init
  <2>4. clock \in [Listeners -> Nat]
    BY DEF Init
  <2> QED
    BY <2>1, <2>2, <2>3, <2>4 DEF TypeOK
<1>2. Waiting = <<>> /\ DOMAIN Waiting = {}
  <2>1. DOMAIN Waiting = 1 .. Len(Waiting) /\ Len(Waiting) = 0 /\ Waiting \in Seq(Event)
    BY <1>1, WaitingIs DEF Init
  <2> QED
    BY <2>1, EmptySeq
<1>3. Queue
  BY <1>2 DEF Init, Queue, WaitingInOrder, WaitingUnfired, FiresOnce
<1>4. OuterFramesFire /\ TargetsInTime /\ PeekedIsNext
  BY DEF Init, OuterFramesFire, TargetsInTime, PeekedIsNext
<1>5. ListenersTold
  BY DEF Init, ListenersTold, Calling
<1> QED
  BY <1>1, <1>3, <1>4, <1>5 DEF IInv, Queue

LEMMA ScheduleKeeps ==
  ASSUME IInv, NEW at \in Times, Schedule(at), at >= now \/ InHost \/ InEvent
  PROVE  IInv'
<1>1. TypeOK /\ Queue
  BY DEF IInv, Queue
<1>2. Queue'
  BY <1>1, QueueSchedule
<1>3. UNCHANGED <<now, eventHead, stack, crashed, clock>>
  BY DEF Schedule
<1>4. /\ events' \in Seq(Event) /\ eventHead' \in 0 .. Len(events')
  BY <1>1, ScheduleWaiting DEF Queue
<1>5. TypeOK'
  <2>1. at \in Nat /\ now \in Nat
    BY <1>1, BoundsAssumption DEF TypeOK, Times
  <2>2. due' \in Seq(Nat) /\ fires' \in Seq(Nat) /\ Len(fires') = Len(due')
    BY <1>1, <2>1 DEF Schedule, TypeOK
  <2>3. crashed' \in BOOLEAN
    BY <1>1, <1>3 DEF TypeOK
  <2> QED
    BY <1>1, <1>3, <1>4, <2>2, <2>3 DEF TypeOK
<1>6. OuterFramesFire' /\ TargetsInTime'
  BY <1>3 DEF IInv, OuterFramesFire, TargetsInTime
<1>7. ListenersTold'
  BY <1>3 DEF IInv, ListenersTold, Calling, Top
<1>8. PeekedIsNext'
  <2> SUFFICES ASSUME stack # <<>>, Top.at = "approach"
               PROVE  Waiting' # <<>> /\ Waiting'[1] = Top.event /\ Top.event.At = now
    BY <1>3 DEF PeekedIsNext, Top
  <2>1. Waiting # <<>> /\ Waiting[1] = Top.event /\ Top.event.At = now
    BY DEF IInv, PeekedIsNext
  <2>2. ~(at < now)
    <3>1. ~InHost /\ ~InEvent
      BY DEF InHost, InEvent, At
    <3>2. at \in Nat /\ now \in Nat
      BY <1>1, BoundsAssumption DEF TypeOK, Times
    <3> QED
      BY <3>1, <3>2
  <2>3. PICK p \in 1 .. Len(Waiting) + 1 :
          /\ \A j \in 1 .. Len(Waiting') :
               Waiting'[j] = IF j < p THEN Waiting[j]
                             ELSE IF j = p THEN NewEvent(at) ELSE Waiting[j - 1]
          /\ \A j \in p .. Len(Waiting) : at < Waiting[j].At
    BY <1>1, ScheduleWaiting DEF Queue
  <2>4. Len(Waiting') = Len(Waiting) + 1 /\ Len(Waiting) \in Nat /\ Len(Waiting) > 0
    BY <1>1, <2>1, ScheduleWaiting, WaitingTypes, WaitingIs, EmptySeq DEF Queue
  <2>5. p # 1
    BY <2>1, <2>2, <2>3, <2>4
  <2>6. Waiting'[1] = Waiting[1]
    BY <2>3, <2>4, <2>5
  <2>7. Waiting' # <<>>
    BY <1>4, <2>4, WaitingNext, EmptySeq
  <2> QED
    BY <2>1, <2>6, <2>7
<1> QED
  BY <1>2, <1>5, <1>6, <1>7, <1>8 DEF IInv, Queue

LEMMA AdvanceKeeps ==
  ASSUME IInv, NEW delta \in Times, Advance(delta), InHost \/ InEvent
  PROVE  IInv'
<1>1. InHost \/ InEvent
  OBVIOUS
<1>2. UNCHANGED <<now, events, eventHead, crashed, due, fires, clock>>
  BY DEF Advance
<1> DEFINE f == [target |-> now + delta, at |-> "loop", event |-> NoEvent,
                 called |-> 0, delta |-> 0]
<1>3. stack' = Append(stack, f) /\ now + delta \in Times
  BY DEF Advance
<1>4. f \in Frame
  BY <1>3, BoundsAssumption, NumListenersAssumption DEF Frame, NoEvent, Event, Times
<1>5. stack \in Seq(Frame) /\ Len(stack) \in Nat
  BY DEF IInv, TypeOK
<1>6. f.at = "loop" /\ f.target = now + delta
  OBVIOUS
<1> HIDE DEF f
<1>7. /\ stack' \in Seq(Frame) /\ Len(stack') = Len(stack) + 1 /\ stack'[Len(stack) + 1] = f
      /\ \A i \in 1 .. Len(stack) : stack'[i] = stack[i]
  BY <1>3, <1>4, <1>5
<1>8. TypeOK'
  <2>1. crashed' \in BOOLEAN
    BY <1>2 DEF IInv, TypeOK
  <2> QED
    BY <1>2, <1>7, <2>1 DEF IInv, TypeOK
<1>9. Top' = f
  BY <1>5, <1>7 DEF Top
<1>10. OuterFramesFire'
  <2>1. \A i \in 1 .. Len(stack) : stack[i].at = "fire"
    <3>1. CASE InHost
      BY <1>5, <3>1 DEF InHost
    <3>2. CASE InEvent
      BY <1>5, <3>2 DEF InEvent, At, Top, IInv, OuterFramesFire
    <3> QED
      BY <1>1, <3>1, <3>2
  <2>2. ~crashed'
    BY <1>2 DEF IInv, OuterFramesFire
  <2>3. \A i \in 1 .. Len(stack') - 1 : stack'[i].at = "fire"
    BY <1>5, <1>7, <2>1
  <2> QED
    BY <2>2, <2>3 DEF OuterFramesFire
<1>11. TargetsInTime'
  <2>1. DOMAIN stack = 1 .. Len(stack) /\ DOMAIN stack' = 1 .. Len(stack) + 1
    BY <1>5, <1>7
  <2> QED
    BY <1>3, <1>5, <1>6, <1>7, <2>1 DEF IInv, TargetsInTime, Times
<1>12. PeekedIsNext'
  BY <1>6, <1>9 DEF PeekedIsNext
<1>13. Queue'
  BY <1>2, QueueKept DEF IInv, Queue, Waiting
<1>14. ListenersTold'
  <2>1. ~Calling'
    BY <1>6, <1>9 DEF Calling
  <2>2. ~Calling
    BY <1>1, NotCalling
  <2> QED
    BY <1>2, <2>1, <2>2 DEF IInv, ListenersTold
<1> QED
  BY <1>8, <1>10, <1>11, <1>12, <1>13, <1>14 DEF IInv, Queue

LEMMA ResetKeeps ==
  ASSUME IInv, NEW t \in Times, Reset(t), InHost \/ InEvent
  PROVE  IInv'
<1>1. InHost \/ InEvent
  OBVIOUS
<1>2. /\ now' = t /\ events' = <<>> /\ eventHead' = 0 /\ clock' = [l \in Listeners |-> t]
      /\ UNCHANGED <<stack, crashed, due, fires>>
  BY DEF Reset
<1>3. t \in Nat
  BY BoundsAssumption DEF Times
<1>4. events' \in Seq(Event) /\ eventHead' \in 0 .. Len(events')
  BY <1>2
<1>5. TypeOK'
  <2>1. crashed' \in BOOLEAN
    BY <1>2 DEF IInv, TypeOK
  <2> QED
    BY <1>2, <1>3, <1>4, <2>1 DEF IInv, TypeOK
<1>6. DOMAIN Waiting' = {}
  <2>1. DOMAIN Waiting' = 1 .. Len(Waiting') /\ Len(Waiting') = 0
    BY <1>2, <1>4, WaitingNext
  <2> QED
    BY <2>1
<1>7. Queue'
  BY <1>2, <1>6 DEF IInv, Queue, WaitingInOrder, WaitingUnfired, FiresOnce
<1>8. OuterFramesFire' /\ TargetsInTime'
  BY <1>2 DEF IInv, OuterFramesFire, TargetsInTime
<1>9. ~Calling /\ ~(stack # <<>> /\ Top.at = "approach")
  BY <1>1, NotCalling
<1>10. PeekedIsNext'
  BY <1>2, <1>9 DEF PeekedIsNext, Top
<1>11. ListenersTold'
  <2>1. ~Calling'
    BY <1>2, <1>9 DEF Calling, Top
  <2> QED
    BY <1>2, <2>1 DEF ListenersTold
<1> QED
  BY <1>5, <1>7, <1>8, <1>10, <1>11 DEF IInv, Queue

(* The next event, as the loop sees it.                                    *)
LEMMA NextIs ==
  ASSUME TypeOK, eventHead < Len(events)
  PROVE  Waiting # <<>> /\ Waiting[1] = events[eventHead + 1] /\ Waiting[1] \in Event
<1>1. /\ Waiting \in Seq(Event) /\ Len(Waiting) = Len(events) - eventHead
      /\ \A j \in 1 .. Len(Waiting) : Waiting[j] = events[eventHead + j]
  BY WaitingIs
<1>2. 1 \in 1 .. Len(Waiting)
  BY <1>1 DEF TypeOK
<1> QED
  BY <1>1, <1>2, EmptySeq, ElementOfSeq

(* The clock moves to a time that no waiting event is earlier than.        *)
LEMMA AdvanceToKeeps ==
  ASSUME IInv, At("loop"), NEW time \in Times, time > now,
         NEW place \in {"approach", "finish"}, NEW event \in Event,
         \A i \in DOMAIN Waiting : time <= Waiting[i].At,
         place = "approach" => Waiting # <<>> /\ event = Waiting[1] /\ event.At = time,
         AdvanceTo(time, place, event)
  PROVE  IInv'
<1>1. TypeOK /\ Queue /\ StackTypes
  BY DEF IInv, Queue, StackTypes
<1>2. time \in Nat /\ now \in Nat /\ time - now \in Nat
  BY <1>1, BoundsAssumption DEF TypeOK, Times
<1>3. /\ now' = time
      /\ UNCHANGED <<events, eventHead, crashed, due, fires, clock>>
  BY DEF AdvanceTo
<1>4. Queue'
  BY <1>1, <1>2, <1>3, QueueElapse
<1>5. stack # <<>> /\ Top.at = "loop"
  BY DEF At
<1> DEFINE f == Moved(Top, place, event, time - now)
<1>6. stack' = SetTop(f)
  BY DEF AdvanceTo, Moved
<1>7. Top \in Frame
  BY <1>1, <1>5, TopIs DEF StackTypes
<1>8. /\ f \in Frame /\ f.target = Top.target
      /\ f.at = place /\ f.event = event /\ f.called = 0 /\ f.delta = time - now
  <2>1. place \in {"approach", "fire", "finish"}
    OBVIOUS
  <2>2. PICK delta \in Nat : delta = time - now
    BY <1>2
  <2>3. f = Moved(Top, place, event, delta)
    BY <2>2
  <2> HIDE DEF f
  <2>4. f \in Frame /\ f.target = Top.target
    BY <1>7, <2>1, <2>3, NextFrame, SMTT(40)
  <2>5. f.at = place /\ f.event = event
    BY <1>7, <2>1, <2>3, NextFrame, SMTT(40)
  <2>6. f.called = 0
    BY <1>7, <2>3 DEF Moved, Frame
  <2>7. f.delta = delta
    BY <1>7, <2>1, <2>3, NextFrame
  <2> QED
    BY <2>2, <2>4, <2>5, <2>6, <2>7
<1> HIDE DEF f
<1>9. /\ stack' \in Seq(Frame) /\ stack' # <<>> /\ Top' = f /\ StackTypes'
  BY <1>1, <1>3, <1>5, <1>6, <1>8, SetTopKeeps
<1>10. TypeOK'
  <2>1. crashed' \in BOOLEAN
    BY <1>1, <1>3 DEF TypeOK
  <2> QED
    BY <1>1, <1>3, <1>9, <2>1 DEF TypeOK
<1>11. PeekedIsNext'
  <2>1. Waiting' = Waiting
    BY <1>3 DEF Waiting
  <2> QED
    BY <1>3, <1>8, <1>9, <2>1 DEF PeekedIsNext
<1>12. ListenersTold'
  <2>1. ~Calling
    BY <1>5 DEF Calling
  <2>2. ASSUME NEW l \in Listeners PROVE l > Top'.called /\ clock'[l] + Top'.delta = now'
    <3>1. clock[l] = now
      BY <2>1 DEF IInv, ListenersTold
    <3> QED
      BY <1>2, <1>3, <1>8, <1>9, <3>1, NumListenersAssumption DEF Listeners
  <2>3. Calling'
    BY <1>8, <1>9 DEF Calling
  <2> QED
    BY <2>2, <2>3 DEF ListenersTold
<1> QED
  BY <1>4, <1>9, <1>10, <1>11, <1>12 DEF IInv, Queue, StackTypes

(* Approach moves the clock to the first waiting event, Finish to the      *)
(* target, which is before it; both kinds of Fire pass the first event.    *)
LEMMA ApproachIs ==
  ASSUME IInv, Approach
  PROVE  /\ At("loop") /\ Waiting # <<>> /\ Waiting[1] \in Event
         /\ Waiting[1].At \in Times /\ Waiting[1].At > now /\ Waiting[1].At <= Top.target
         /\ \A i \in DOMAIN Waiting : Waiting[1].At <= Waiting[i].At
         /\ AdvanceTo(Waiting[1].At, "approach", Waiting[1])
<1> DEFINE e == events[eventHead + 1]
<1>1. TypeOK /\ Queue /\ StackTypes
  BY DEF IInv, Queue, StackTypes
<1>2. At("loop") /\ LoopCondition /\ e.At > now /\ AdvanceTo(e.At, "approach", e)
  BY DEF Approach
<1>3. eventHead < Len(events) /\ e.At <= Top.target /\ stack # <<>>
  BY <1>2 DEF LoopCondition, At
<1>4. Waiting # <<>> /\ Waiting[1] = e /\ e \in Event
  BY <1>1, <1>3, NextIs
<1>5. e.At \in Times
  BY <1>1, <1>3, <1>4, TopIs, BoundsAssumption DEF Event, Times, StackTypes
<1>6. \A i \in DOMAIN Waiting : e.At <= Waiting[i].At
  <2>1. /\ DOMAIN Waiting = 1 .. Len(Waiting)
        /\ \A i \in 1 .. Len(Waiting) : Waiting[i].At \in Nat
    BY <1>1, WaitingTypes DEF Queue
  <2> QED
    BY <1>1, <1>4, <2>1, FirstIsEarliest DEF Event
<1> HIDE DEF e
<1> QED
  BY <1>2, <1>3, <1>4, <1>5, <1>6

LEMMA ApproachKeeps == ASSUME IInv, Approach PROVE IInv'
BY ApproachIs, AdvanceToKeeps

LEMMA FinishIs ==
  ASSUME IInv, Finish
  PROVE  /\ At("loop") /\ Top.target \in Times /\ Top.target > now
         /\ \A i \in DOMAIN Waiting : Top.target <= Waiting[i].At
         /\ AdvanceTo(Top.target, "finish", NoEvent)
<1>1. TypeOK /\ Queue /\ StackTypes
  BY DEF IInv, Queue, StackTypes
<1>2. /\ At("loop") /\ ~LoopCondition /\ now < Top.target /\ stack # <<>>
      /\ AdvanceTo(Top.target, "finish", NoEvent)
  BY DEF Finish, At
<1>3. Top.target \in Times /\ Top.target \in Nat
  BY <1>1, <1>2, TopIs DEF StackTypes
<1>4. now \in Nat
  BY <1>1, BoundsAssumption DEF TypeOK, Times
<1>5. ASSUME NEW i \in DOMAIN Waiting PROVE Top.target <= Waiting[i].At
  <2>1. /\ DOMAIN Waiting = 1 .. Len(Waiting) /\ Len(Waiting) = Len(events) - eventHead
        /\ Waiting # <<>>
    BY <1>1, WaitingIs, EmptySeq
  <2>2. eventHead < Len(events)
    BY <1>1, <2>1 DEF TypeOK
  <2>3. Waiting[1] = events[eventHead + 1] /\ Waiting[1].At \in Nat /\ Waiting[i].At \in Nat
    BY <1>1, <2>1, <2>2, NextIs, WaitingTypes DEF Queue, Event
  <2>4. ~(Waiting[1].At <= Top.target)
    BY <1>2, <2>2, <2>3 DEF LoopCondition
  <2>5. Waiting[1].At <= Waiting[i].At
    BY <1>1, <2>1, <2>3, FirstIsEarliest
  <2> QED
    BY <1>3, <2>3, <2>4, <2>5
<1> QED
  BY <1>2, <1>3, <1>4, <1>5

LEMMA FinishKeeps == ASSUME IInv, Finish PROVE IInv'
<1>1. NoEvent \in Event
  BY DEF NoEvent, Event
<1> QED
  BY <1>1, FinishIs, AdvanceToKeeps

(* The next event is passed and its callback called.                       *)
LEMMA FireKeeps ==
  ASSUME IInv, stack # <<>>, Waiting # <<>>, NEW event, event = Waiting[1],
         \A l \in Listeners : clock[l] = now, Fire(event)
  PROVE  IInv'
<1>1. TypeOK /\ Queue /\ StackTypes
  BY DEF IInv, Queue, StackTypes
<1>2. /\ eventHead' = eventHead + 1 /\ UNCHANGED <<now, events, crashed, due, clock>>
      /\ fires' = [fires EXCEPT ![event.id] = @ + 1]
  BY DEF Fire
<1>3. Queue'
  BY <1>1, QueueFire
<1>4. event \in Event
  BY <1>1, FirstIsEarliest, WaitingIs, ElementOfSeq
<1> DEFINE f == Moved(Top, "fire", event, 0)
<1>5. stack' = SetTop(f)
  BY DEF Fire, Moved
<1>6. Top \in Frame
  BY <1>1, TopIs DEF StackTypes
<1>7. f \in Frame /\ f.target = Top.target /\ f.at = "fire"
  <2>1. 0 \in Nat
    OBVIOUS
  <2> QED
    BY <1>4, <1>6, <2>1, NextFrame
<1> HIDE DEF f
<1>8. /\ stack' \in Seq(Frame) /\ stack' # <<>> /\ Top' = f /\ StackTypes'
  BY <1>1, <1>2, <1>5, <1>7, SetTopKeeps
<1>9. eventHead' \in 0 .. Len(events')
  BY <1>1, <1>2, FireWaiting
<1>10. TypeOK'
  <2>1. crashed' \in BOOLEAN
    BY <1>1, <1>2 DEF TypeOK
  <2>2. fires' \in Seq(Nat) /\ Len(fires') = Len(due')
    <3>1. fires \in Seq(Nat) /\ Len(fires) = Len(due)
      BY <1>1 DEF TypeOK
    <3>2. event.id \in 1 .. Len(fires) /\ fires[event.id] + 1 \in Nat
      BY <1>1, <3>1, FirstIsEarliest, WaitingTypes DEF Queue
    <3>3. fires' = [fires EXCEPT ![event.id] = fires[event.id] + 1]
      BY <1>2
    <3> QED
      BY <1>2, <3>1, <3>2, <3>3, ExceptSeq
  <2> QED
    BY <1>1, <1>2, <1>8, <1>9, <2>1, <2>2 DEF TypeOK
<1>11. PeekedIsNext'
  BY <1>7, <1>8 DEF PeekedIsNext
<1>12. ListenersTold'
  BY <1>2, <1>7, <1>8 DEF ListenersTold, Calling
<1> QED
  BY <1>3, <1>8, <1>10, <1>11, <1>12 DEF IInv, Queue, StackTypes

LEMMA FireIs ==
  ASSUME IInv, FireOverdue \/ FireApproached
  PROVE  /\ stack # <<>> /\ Waiting # <<>> /\ Waiting[1].At <= now
         /\ \A l \in Listeners : clock[l] = now
         /\ Fire(Waiting[1])
<1>1. TypeOK /\ Queue
  BY DEF IInv, Queue
<1>2. CASE FireOverdue
  <2> DEFINE e == events[eventHead + 1]
  <2>1. At("loop") /\ LoopCondition /\ e.At <= now /\ Fire(e)
    BY <1>2 DEF FireOverdue
  <2>2. eventHead < Len(events) /\ stack # <<>> /\ Top.at = "loop"
    BY <2>1 DEF LoopCondition, At
  <2>3. Waiting # <<>> /\ Waiting[1] = e
    BY <1>1, <2>2, NextIs
  <2>4. \A l \in Listeners : clock[l] = now
    BY <2>2 DEF IInv, ListenersTold, Calling
  <2> HIDE DEF e
  <2> QED
    BY <2>1, <2>2, <2>3, <2>4
<1>3. CASE FireApproached
  <2>1. stack # <<>> /\ Top.at = "approach" /\ Top.called = NumListeners /\ Fire(Top.event)
    BY <1>3 DEF FireApproached, At
  <2>2. Waiting # <<>> /\ Top.event = Waiting[1] /\ Top.event.At = now
    BY <2>1 DEF IInv, PeekedIsNext
  <2>3. \A l \in Listeners : clock[l] = now
    BY <2>1, NumListenersAssumption DEF IInv, ListenersTold, Listeners
  <2>4. now <= now
    BY <1>1, BoundsAssumption DEF TypeOK, Times
  <2> QED
    BY <2>1, <2>2, <2>3, <2>4
<1> QED
  BY <1>2, <1>3

LEMMA FireStepKeeps == ASSUME IInv, FireOverdue \/ FireApproached PROVE IInv'
BY FireIs, FireKeeps

LEMMA CallListenerKeeps == ASSUME IInv, CallListener PROVE IInv'
<1>1. TypeOK /\ Queue /\ StackTypes
  BY DEF IInv, Queue, StackTypes
<1>2. /\ stack # <<>> /\ Top.at \in {"approach", "finish"} /\ Top.called < NumListeners
      /\ clock' = [clock EXCEPT ![Top.called + 1] = @ + Top.delta]
      /\ UNCHANGED <<now, events, eventHead, crashed, due, fires>>
  BY DEF CallListener, At
<1>3. Top \in Frame
  BY <1>1, <1>2, TopIs DEF StackTypes
<1>4. Top.called \in Nat /\ Top.called + 1 \in Listeners /\ Top.delta \in Nat
  BY <1>2, <1>3, NumListenersAssumption DEF Frame, Listeners
<1> DEFINE f == [Top EXCEPT !.called = Top.called + 1]
<1>5. stack' = SetTop(f)
  BY DEF CallListener
<1>6. /\ f \in Frame /\ f.target = Top.target /\ f.at = Top.at /\ f.event = Top.event
      /\ f.called = Top.called + 1 /\ f.delta = Top.delta
  BY <1>2, <1>3, <1>4, NumListenersAssumption DEF Frame
<1> HIDE DEF f
<1>7. /\ stack' \in Seq(Frame) /\ stack' # <<>> /\ Top' = f /\ StackTypes'
  BY <1>1, <1>2, <1>5, <1>6, SetTopKeeps
<1>8. clock \in [Listeners -> Nat]
  BY <1>1 DEF TypeOK
<1>9. TypeOK'
  <2>1. crashed' \in BOOLEAN
    BY <1>1, <1>2 DEF TypeOK
  <2>2. clock' \in [Listeners -> Nat]
    BY <1>2, <1>4, <1>8
  <2> QED
    BY <1>1, <1>2, <1>7, <2>1, <2>2 DEF TypeOK
<1>10. Waiting' = Waiting
  BY <1>2 DEF Waiting
<1>11. Queue'
  BY <1>1, <1>2, <1>10, QueueKept
<1>12. PeekedIsNext'
  BY <1>2, <1>6, <1>7, <1>10 DEF IInv, PeekedIsNext
<1>13. ListenersTold'
  <2> SUFFICES ASSUME NEW l \in Listeners
               PROVE  IF l > Top.called + 1 THEN clock'[l] + Top.delta = now ELSE clock'[l] = now
    BY <1>2, <1>6, <1>7 DEF ListenersTold, Calling
  <2>1. IF l > Top.called THEN clock[l] + Top.delta = now ELSE clock[l] = now
    BY <1>2 DEF IInv, ListenersTold, Calling
  <2>2. l \in Nat
    BY NumListenersAssumption DEF Listeners
  <2>3. CASE l = Top.called + 1
    BY <1>2, <1>4, <1>8, <2>1, <2>2, <2>3
  <2>4. CASE l # Top.called + 1
    BY <1>2, <1>4, <1>8, <2>1, <2>2, <2>4
  <2> QED
    BY <2>3, <2>4
<1> QED
  BY <1>7, <1>9, <1>11, <1>12, <1>13 DEF IInv, Queue, StackTypes

LEMMA EventReturnsKeeps == ASSUME IInv, EventReturns PROVE IInv'
<1>1. TypeOK /\ Queue /\ StackTypes
  BY DEF IInv, Queue, StackTypes
<1>2. /\ stack # <<>> /\ Top.at = "fire"
      /\ UNCHANGED <<now, events, eventHead, crashed, due, fires, clock>>
  BY DEF EventReturns, At
<1>3. Top \in Frame
  BY <1>1, <1>2, TopIs DEF StackTypes
<1> DEFINE f == [Top EXCEPT !.at = "loop", !.event = NoEvent]
<1>4. stack' = SetTop(f)
  BY DEF EventReturns
<1>5. f \in Frame /\ f.target = Top.target /\ f.at = "loop"
  BY <1>3 DEF Frame, NoEvent, Event
<1> HIDE DEF f
<1>6. /\ stack' \in Seq(Frame) /\ stack' # <<>> /\ Top' = f /\ StackTypes'
  BY <1>1, <1>2, <1>4, <1>5, SetTopKeeps
<1>7. TypeOK'
  <2>1. crashed' \in BOOLEAN
    BY <1>1, <1>2 DEF TypeOK
  <2> QED
    BY <1>1, <1>2, <1>6, <2>1 DEF TypeOK
<1>8. Queue'
  BY <1>1, <1>2, QueueKept DEF Waiting
<1>9. PeekedIsNext'
  BY <1>5, <1>6 DEF PeekedIsNext
<1>10. ListenersTold'
  BY <1>2, <1>5, <1>6 DEF IInv, ListenersTold, Calling
<1> QED
  BY <1>6, <1>7, <1>8, <1>9, <1>10 DEF IInv, Queue, StackTypes

(* A call returns to an event of the call below, or to the host.           *)
LEMMA ReturnKeeps == ASSUME IInv, Return PROVE IInv'
<1>1. TypeOK /\ Queue /\ StackTypes /\ ~crashed
  BY DEF IInv, Queue, StackTypes, OuterFramesFire
<1>2. /\ stack # <<>> /\ CompactEvents /\ stack' = SubSeq(stack, 1, Len(stack) - 1)
      /\ UNCHANGED <<now, due, fires, clock>>
  BY DEF Return, At
<1>3. /\ events' \in Seq(Event) /\ eventHead' \in 0 .. Len(events')
      /\ Waiting' = Waiting /\ ~crashed' /\ crashed' \in BOOLEAN
  BY <1>1, <1>2, CompactWaiting
<1>4. Queue'
  BY <1>1, <1>2, <1>3, QueueKept
<1>5. stack \in Seq(Frame) /\ Len(stack) \in Nat /\ Len(stack) > 0
  BY <1>1, <1>2, EmptySeq DEF TypeOK
<1>6. /\ stack' \in Seq(Frame) /\ Len(stack') = Len(stack) - 1
      /\ \A i \in 1 .. Len(stack) - 1 : stack'[i] = stack[i]
  <2> DEFINE n == Len(stack) - 1
  <2>1. \A i \in 1 .. n : stack[i] \in Frame
    BY <1>5, ElementOfSeq
  <2>2. n \in Nat
    BY <1>5
  <2>3. stack' = SubSeq(stack, 1, n)
    BY <1>2
  <2> HIDE DEF n
  <2>4. /\ stack' \in Seq(Frame) /\ Len(stack') = n
        /\ \A i \in 1 .. n : stack'[i] = stack[i]
    BY <1>5, <2>1, <2>2, <2>3, SubSeqProperties
  <2> QED
    BY <2>4 DEF n
<1>7. TypeOK'
  BY <1>1, <1>2, <1>3, <1>6 DEF TypeOK
<1>8. \A i \in 1 .. Len(stack) - 1 : stack[i].at = "fire"
  BY <1>1 DEF StackTypes, OuterFramesFire
<1>9. OuterFramesFire'
  <2>1. \A i \in 1 .. Len(stack') - 1 : stack'[i].at = "fire"
    BY <1>5, <1>6, <1>8
  <2> QED
    BY <1>3, <2>1 DEF OuterFramesFire
<1>10. TargetsInTime'
  <2>1. DOMAIN stack = 1 .. Len(stack) /\ DOMAIN stack' = 1 .. Len(stack) - 1
    BY <1>5, <1>6
  <2> QED
    BY <1>1, <1>5, <1>6, <2>1 DEF StackTypes, TargetsInTime, Times
<1>11. stack' # <<>> => Top'.at = "fire"
  <2>1. stack' # <<>> => Len(stack') > 0
    BY <1>6, EmptySeq
  <2> QED
    BY <1>5, <1>6, <1>8, <2>1 DEF Top
<1>12. PeekedIsNext'
  BY <1>11 DEF PeekedIsNext
<1>13. \A l \in Listeners : clock[l] = now
  <2>1. CASE At("finish") /\ Top.called = NumListeners
    BY <2>1, NumListenersAssumption DEF IInv, ListenersTold, Listeners, At
  <2>2. CASE At("loop")
    BY <2>2 DEF IInv, ListenersTold, Calling, At
  <2> QED
    BY <2>1, <2>2 DEF Return
<1>14. ListenersTold'
  <2>1. ~Calling'
    BY <1>11 DEF Calling
  <2> QED
    BY <1>2, <1>13, <2>1 DEF ListenersTold
<1> QED
  BY <1>4, <1>7, <1>9, <1>10, <1>12, <1>14 DEF IInv, Queue

LEMMA DispatchKeeps == ASSUME IInv, Dispatch PROVE IInv'
BY ApproachKeeps, FireStepKeeps, CallListenerKeeps, EventReturnsKeeps, FinishKeeps, ReturnKeeps
   DEF Dispatch

LEMMA InvKept == ASSUME IInv, UNCHANGED vars PROVE IInv'
<1>1. TypeOK'
  <2>1. crashed' \in BOOLEAN
    BY DEF IInv, TypeOK, vars
  <2> QED
    BY <2>1 DEF IInv, TypeOK, vars
<1>2. Queue'
  BY QueueKept DEF IInv, Queue, vars, Waiting
<1>3. ~crashed'
  BY DEF IInv, OuterFramesFire, vars
<1>4. Waiting' = Waiting /\ Top' = Top
  BY DEF vars, Waiting, Top
<1>5. OuterFramesFire' /\ TargetsInTime' /\ PeekedIsNext' /\ ListenersTold'
  BY <1>3, <1>4
  DEF IInv, vars, OuterFramesFire, TargetsInTime, PeekedIsNext, ListenersTold, Calling
<1> QED
  BY <1>1, <1>2, <1>5 DEF IInv, Queue

LEMMA InvNext == ListenersSchedule /\ IInv /\ [Next]_vars => IInv'
<1> SUFFICES ASSUME ListenersSchedule, IInv, [Next]_vars PROVE IInv'
  OBVIOUS
<1>1. CASE \E at \in Times : Schedule(at)
  <2>1. PICK at \in Times : Schedule(at)
    BY <1>1
  <2>2. at \in Nat /\ now \in Nat
    BY BoundsAssumption DEF IInv, TypeOK, Times
  <2>3. at < now => InHost \/ InEvent
    BY <2>1, CallerIs DEF Schedule
  <2> QED
    BY <2>1, <2>2, <2>3, ScheduleKeeps
<1>2. CASE \E delta \in Times : Advance(delta)
  BY <1>2, CallerIs, AdvanceKeeps DEF Advance
<1>3. CASE \E t \in Times : Reset(t)
  BY <1>3, CallerIs, ResetKeeps DEF Reset
<1>4. CASE Dispatch
  BY <1>4, DispatchKeeps
<1>5. CASE UNCHANGED vars
  BY <1>5, InvKept
<1> QED
  BY <1>1, <1>2, <1>3, <1>4, <1>5 DEF Next


-----------------------------------------------------------------------------
\* The set of timers that the waiting events stand for.

Pending == {Waiting[i] : i \in DOMAIN Waiting}

LEMMA PendingSchedule ==
  ASSUME TypeOK, Queue, NEW at \in Times, Schedule(at)
  PROVE  Pending' = Pending \cup {NewEvent(at)}
<1>1. /\ events' \in Seq(Event) /\ eventHead' \in 0 .. Len(events')
      /\ Len(Waiting') = Len(Waiting) + 1
  BY ScheduleWaiting DEF Queue
<1>2. PICK p \in 1 .. Len(Waiting) + 1 :
        \A j \in 1 .. Len(Waiting') :
          Waiting'[j] = IF j < p THEN Waiting[j]
                        ELSE IF j = p THEN NewEvent(at) ELSE Waiting[j - 1]
  BY ScheduleWaiting DEF Queue
<1>3. /\ DOMAIN Waiting = 1 .. Len(Waiting) /\ Len(Waiting) \in Nat
      /\ DOMAIN Waiting' = 1 .. Len(Waiting) + 1
  BY <1>1, WaitingTypes, WaitingNext DEF Queue
<1>4. ASSUME NEW i \in DOMAIN Waiting' PROVE Waiting'[i] \in Pending \cup {NewEvent(at)}
  <2>1. i < p => i \in DOMAIN Waiting /\ Waiting'[i] = Waiting[i]
    BY <1>1, <1>2, <1>3
  <2>2. i > p => i - 1 \in DOMAIN Waiting /\ Waiting'[i] = Waiting[i - 1]
    BY <1>1, <1>2, <1>3
  <2>3. i = p => Waiting'[i] = NewEvent(at)
    BY <1>1, <1>2, <1>3
  <2>4. i < p \/ i = p \/ i > p
    BY <1>3
  <2> QED
    BY <2>1, <2>2, <2>3, <2>4 DEF Pending
<1>5. ASSUME NEW i \in DOMAIN Waiting PROVE Waiting[i] \in Pending'
  <2>1. i < p => i \in DOMAIN Waiting' /\ Waiting'[i] = Waiting[i]
    BY <1>1, <1>2, <1>3
  <2>2. i >= p => i + 1 \in DOMAIN Waiting' /\ Waiting'[i + 1] = Waiting[i]
    BY <1>1, <1>2, <1>3
  <2>3. i < p \/ i >= p
    BY <1>3
  <2> QED
    BY <2>1, <2>2, <2>3 DEF Pending
<1>6. NewEvent(at) \in Pending'
  <2>1. p \in DOMAIN Waiting' /\ Waiting'[p] = NewEvent(at)
    BY <1>1, <1>2, <1>3
  <2> QED
    BY <2>1 DEF Pending
<1> QED
  BY <1>4, <1>5, <1>6 DEF Pending

LEMMA PendingFire ==
  ASSUME TypeOK, Queue, Waiting # <<>>, Fire(Waiting[1])
  PROVE  Pending' = Pending \ {Waiting[1]}
<1>1. /\ eventHead' \in 0 .. Len(events')
      /\ Len(Waiting') = Len(Waiting) - 1
      /\ \A j \in 1 .. Len(Waiting') : Waiting'[j] = Waiting[j + 1]
  BY FireWaiting DEF Fire
<1>2. /\ DOMAIN Waiting = 1 .. Len(Waiting) /\ Len(Waiting) \in Nat /\ 1 \in DOMAIN Waiting
  BY WaitingTypes, FirstIsEarliest DEF Queue
<1>3. DOMAIN Waiting' = 1 .. Len(Waiting) - 1
  BY <1>1, WaitingNext DEF Fire, TypeOK
<1>4. ASSUME NEW i \in DOMAIN Waiting'
      PROVE  Waiting'[i] \in Pending /\ Waiting'[i] # Waiting[1]
  <2>1. i + 1 \in DOMAIN Waiting /\ i + 1 # 1 /\ Waiting'[i] = Waiting[i + 1]
    BY <1>1, <1>2, <1>3
  <2>2. Waiting[i + 1].id # Waiting[1].id
    BY <1>2, <2>1 DEF Queue, WaitingUnfired
  <2> QED
    BY <2>1, <2>2 DEF Pending
<1>5. ASSUME NEW i \in DOMAIN Waiting, Waiting[i] # Waiting[1] PROVE Waiting[i] \in Pending'
  <2>1. i - 1 \in DOMAIN Waiting' /\ Waiting'[i - 1] = Waiting[i]
    <3>1. i # 1
      BY <1>5
    <3>2. i - 1 \in 1 .. Len(Waiting) - 1 /\ (i - 1) + 1 = i
      BY <1>2, <3>1
    <3> QED
      BY <1>1, <1>3, <3>2
  <2> QED
    BY <2>1 DEF Pending
<1> QED
  BY <1>4, <1>5 DEF Pending

(* An event fires at its time or, when it was scheduled for the past, now. *)
LEMMA FireSimulates ==
  ASSUME TypeOK, Queue, Waiting # <<>>, Fire(Waiting[1]), Waiting[1].At <= now
  PROVE  Timers!Fire
<1> DEFINE e == Waiting[1]
<1>1. 1 \in DOMAIN Waiting /\ e \in Pending /\ e.At \in Nat /\ now \in Nat
  BY FirstIsEarliest, WaitingTypes, BoundsAssumption DEF Queue, Pending, TypeOK, Times
<1>2. /\ e.id \in DOMAIN fires /\ fires[e.id] = 0
      /\ due[e.id] = IF e.At >= now THEN e.At ELSE now
  BY <1>1 DEF Queue, WaitingUnfired
<1>3. due[e.id] = now
  BY <1>1, <1>2
<1>4. \A f \in Pending : Timers!Precedes(e, f)
  BY FirstIsEarliest DEF Pending, Timers!Precedes
<1>5. Pending' = Pending \ {e}
  BY PendingFire
<1>6. fires' = [fires EXCEPT ![e.id] = 1] /\ UNCHANGED <<now, due>>
  BY <1>2 DEF Fire
<1> HIDE DEF e
<1> QED
  BY <1>1, <1>2, <1>3, <1>4, <1>5, <1>6 DEF Timers!Fire, Pending

LEMMA ElapseSimulates ==
  ASSUME NEW time \in Times, time > now, \A i \in DOMAIN Waiting : time <= Waiting[i].At,
         NEW place, NEW event, AdvanceTo(time, place, event)
  PROVE  Timers!Elapse(time)
<1>1. now' = time /\ UNCHANGED <<events, eventHead, due, fires>>
  BY DEF AdvanceTo
<1>2. Waiting' = Waiting
  BY <1>1 DEF Waiting
<1> QED
  BY <1>1, <1>2 DEF Timers!Elapse

LEMMA StepSimulates ==
  ListenersSchedule /\ IInv /\ [Next]_vars => [Timers!Next]_(Timers!vars)
<1> SUFFICES ASSUME ListenersSchedule, IInv, [Next]_vars
             PROVE  Timers!Next \/ UNCHANGED Timers!vars
  OBVIOUS
<1>1. TypeOK /\ Queue
  BY DEF IInv, Queue
<1>2. CASE \E at \in Times : Schedule(at)
  <2>1. PICK at \in Times : Schedule(at)
    BY <1>2
  <2>2. Pending' = Pending \cup {NewEvent(at)}
    BY <1>1, <2>1, PendingSchedule
  <2>3. Timers!Set(at)
    BY <2>1, <2>2 DEF Schedule, Timers!Set, Pending, NewEvent
  <2> QED
    BY <2>3 DEF Timers!Next
<1>3. ASSUME UNCHANGED <<now, events, eventHead, due, fires>> PROVE UNCHANGED Timers!vars
  BY <1>3 DEF Timers!vars, Waiting
<1>4. CASE \E delta \in Times : Advance(delta)
  BY <1>3, <1>4 DEF Advance
<1>5. CASE \E t \in Times : Reset(t)
  <2>1. PICK t \in Times : Reset(t)
    BY <1>5
  <2>2. events' = <<>> /\ eventHead' = 0
    BY <2>1 DEF Reset
  <2>3. Pending' = {}
    <3>1. events' \in Seq(Event) /\ eventHead' \in 0 .. Len(events') /\ Len(events') = 0
      BY <2>2, EmptySeq
    <3>2. DOMAIN Waiting' = 1 .. Len(Waiting') /\ Len(Waiting') = 0
      BY <2>2, <3>1, WaitingNext
    <3> QED
      BY <3>2 DEF Pending
  <2>4. Timers!Clear(t)
    BY <2>1, <2>3 DEF Reset, Timers!Clear, Pending
  <2> QED
    BY <2>4 DEF Timers!Next
<1>6. CASE Approach
  <2>1. Timers!Elapse(Waiting[1].At) /\ Waiting[1].At \in Times
    BY <1>6, ApproachIs, ElapseSimulates
  <2> QED
    BY <2>1 DEF Timers!Next
<1>7. CASE Finish
  <2>1. Timers!Elapse(Top.target) /\ Top.target \in Times
    BY <1>7, FinishIs, ElapseSimulates
  <2> QED
    BY <2>1 DEF Timers!Next
<1>8. CASE FireOverdue \/ FireApproached
  BY <1>1, <1>8, FireIs, FireSimulates DEF Timers!Next
<1>9. CASE CallListener \/ EventReturns
  BY <1>3, <1>9 DEF CallListener, EventReturns
<1>10. CASE Return
  <2>1. Waiting' = Waiting
    BY <1>1, <1>10, CompactWaiting DEF IInv, OuterFramesFire, Return
  <2> QED
    BY <1>10, <2>1 DEF Return, Timers!vars
<1>11. CASE UNCHANGED vars
  BY <1>3, <1>11 DEF vars
<1> QED
  BY <1>2, <1>4, <1>5, <1>6, <1>7, <1>8, <1>9, <1>10, <1>11 DEF Next, Dispatch

-----------------------------------------------------------------------------
\* What a step of Advance does, for those who build on the scheduler.

(* Where the innermost call is after a step that does not return from it.  *)
FrameMoves ==
  /\ stack' # <<>> /\ Len(stack') = Len(stack) /\ Top'.target = Top.target
  /\ SameTargets
  /\ \/ now' = now /\ (Top'.at = "finish" => Top.at = "finish")
     \/ now < now' /\ now' <= Top.target /\ (Top'.at = "finish" => now' = Top.target)

LEMMA AdvanceToMoves ==
  ASSUME IInv, At("loop"), NEW time \in Times, time > now, time <= Top.target,
         NEW place \in {"approach", "finish"}, NEW event \in Event,
         place = "finish" => time = Top.target,
         AdvanceTo(time, place, event)
  PROVE  FrameMoves
<1>1. TypeOK /\ StackTypes /\ stack # <<>>
  BY DEF IInv, StackTypes, At
<1>2. Top \in Frame
  BY <1>1, TopIs DEF StackTypes
<1>3. time - now \in Nat
  BY <1>1, BoundsAssumption DEF TypeOK, Times
<1> DEFINE f == Moved(Top, place, event, time - now)
<1>4. stack' = SetTop(f) /\ now' = time /\ UNCHANGED crashed
  BY DEF AdvanceTo, Moved
<1>5. f \in Frame /\ f.target = Top.target /\ f.at = place
  <2>1. place \in {"approach", "fire", "finish"}
    OBVIOUS
  <2> QED
    BY <1>2, <1>3, <2>1, NextFrame
<1> HIDE DEF f
<1>6. stack' # <<>> /\ Len(stack') = Len(stack) /\ Top' = f /\ SameTargets
  BY <1>1, <1>4, <1>5, SetTopKeeps
<1> QED
  BY <1>4, <1>5, <1>6 DEF FrameMoves

LEMMA DispatchMoves ==
  ASSUME IInv, Dispatch
  PROVE  /\ stack # <<>>
         /\ Return \/ FrameMoves
<1>1. stack # <<>>
  BY DEF Dispatch, Approach, FireOverdue, CallListener, FireApproached, EventReturns, Finish,
         Return, At
<1>2. TypeOK /\ StackTypes /\ Top \in Frame
  BY <1>1, TopIs DEF IInv, StackTypes
<1>3. CASE Approach
  <2>1. /\ At("loop") /\ Waiting[1] \in Event
        /\ Waiting[1].At \in Times /\ Waiting[1].At > now /\ Waiting[1].At <= Top.target
        /\ AdvanceTo(Waiting[1].At, "approach", Waiting[1])
    BY <1>3, ApproachIs
  <2>2. "approach" # "finish"
    OBVIOUS
  <2> QED
    BY <1>1, <2>1, <2>2, AdvanceToMoves
<1>4. CASE Finish
  <2>1. NoEvent \in Event
    BY DEF NoEvent, Event
  <2>2. Top.target <= Top.target
    BY <1>1, <1>2, TopIs DEF StackTypes
  <2>3. /\ At("loop") /\ Top.target \in Times /\ Top.target > now
        /\ AdvanceTo(Top.target, "finish", NoEvent)
    BY <1>4, FinishIs
  <2> QED
    BY <1>1, <2>1, <2>2, <2>3, AdvanceToMoves
<1>5. CASE FireOverdue \/ FireApproached
  <2> DEFINE e == Waiting[1]
             f == Moved(Top, "fire", e, 0)
  <2>1. Fire(e) /\ Waiting # <<>>
    BY <1>5, FireIs
  <2>2. e \in Event
    BY <1>2, <2>1, FirstIsEarliest, WaitingIs, ElementOfSeq DEF IInv, Queue
  <2>3. stack' = SetTop(f) /\ UNCHANGED <<now, crashed>>
    BY <2>1 DEF Fire, Moved
  <2> HIDE DEF e
  <2>4. f \in Frame /\ f.target = Top.target /\ f.at = "fire"
    <3>1. 0 \in Nat
      OBVIOUS
    <3> QED
      BY <1>2, <2>2, <3>1, NextFrame
  <2> HIDE DEF f
  <2>5. stack' # <<>> /\ Len(stack') = Len(stack) /\ Top' = f /\ SameTargets
    BY <1>1, <1>2, <2>3, <2>4, SetTopKeeps
  <2> QED
    BY <1>1, <2>3, <2>4, <2>5 DEF FrameMoves
<1>6. CASE CallListener
  <2> DEFINE f == [Top EXCEPT !.called = Top.called + 1]
  <2>1. stack' = SetTop(f) /\ Top.called < NumListeners /\ UNCHANGED <<now, crashed>>
    BY <1>6 DEF CallListener
  <2>2. f \in Frame /\ f.target = Top.target /\ f.at = Top.at
    BY <1>2, <2>1, NumListenersAssumption DEF Frame
  <2> HIDE DEF f
  <2>3. stack' # <<>> /\ Len(stack') = Len(stack) /\ Top' = f /\ SameTargets
    BY <1>1, <1>2, <2>1, <2>2, SetTopKeeps
  <2> QED
    BY <1>1, <2>1, <2>2, <2>3 DEF FrameMoves
<1>7. CASE EventReturns
  <2> DEFINE f == [Top EXCEPT !.at = "loop", !.event = NoEvent]
  <2>1. stack' = SetTop(f) /\ UNCHANGED <<now, crashed>>
    BY <1>7 DEF EventReturns
  <2>2. f \in Frame /\ f.target = Top.target /\ f.at = "loop"
    BY <1>2 DEF Frame, NoEvent, Event
  <2> HIDE DEF f
  <2>3. stack' # <<>> /\ Len(stack') = Len(stack) /\ Top' = f /\ SameTargets
    BY <1>1, <1>2, <2>1, <2>2, SetTopKeeps
  <2> QED
    BY <1>1, <2>1, <2>2, <2>3 DEF FrameMoves
<1> QED
  BY <1>1, <1>3, <1>4, <1>5, <1>6, <1>7 DEF Dispatch

(* A step of Advance schedules nothing, and fires only what waits.         *)
LEMMA DispatchFires ==
  ASSUME IInv, Dispatch
  PROVE  /\ due' = due
         /\ Pending' \subseteq Pending
         /\ \/ fires' = fires
            \/ \E e \in Pending : fires' = [fires EXCEPT ![e.id] = @ + 1]
<1>1. TypeOK /\ Queue
  BY DEF IInv, Queue
<1>2. CASE FireOverdue \/ FireApproached
  <2>1. Fire(Waiting[1]) /\ Waiting # <<>>
    BY <1>2, FireIs
  <2>2. Waiting[1] \in Pending
    BY <1>1, <2>1, FirstIsEarliest DEF Pending
  <2>3. Pending' \subseteq Pending
    BY <1>1, <2>1, PendingFire
  <2> QED
    BY <2>1, <2>2, <2>3 DEF Fire
<1>3. CASE Return
  <2>1. Waiting' = Waiting
    BY <1>1, <1>3, CompactWaiting DEF IInv, OuterFramesFire, Return
  <2> QED
    BY <1>3, <2>1 DEF Return, Pending
<1>4. CASE Approach \/ Finish \/ CallListener \/ EventReturns
  <2>1. UNCHANGED <<events, eventHead, due, fires>>
    BY <1>4 DEF Approach, Finish, CallListener, EventReturns, AdvanceTo
  <2> QED
    BY <2>1 DEF Pending, Waiting
<1> QED
  BY <1>2, <1>3, <1>4 DEF Dispatch

-----------------------------------------------------------------------------
\* The theorems.

(* When listeners only schedule, the inductive invariant holds.            *)
LEMMA Invariant == ASSUME ListenersSchedule PROVE Spec => []IInv
<1>1. IInv /\ [Next]_vars => IInv'
  BY InvNext
<1> QED
  BY <1>1, InvInit, PTL DEF Spec

(* compactEvents never slices past the end of the events and Advance never *)
(* indexes them out of range: for every number of listeners and events,    *)
(* however calls nest.                                                     *)
THEOREM TypeCorrect == ASSUME ListenersSchedule PROVE Spec => []TypeOK
<1>1. IInv => TypeOK
  BY DEF IInv
<1> QED
  BY <1>1, Invariant, PTL

(* insertEvent and compactEvents keep the events that have not been passed *)
(* in the order in which they must fire.                                   *)
THEOREM OrderCorrect == ASSUME ListenersSchedule PROVE Spec => []WaitingInOrder
<1>1. IInv => WaitingInOrder
  BY DEF IInv
<1> QED
  BY <1>1, Invariant, PTL

(* The event that Advance peeked before it called the listeners is still   *)
(* the one at the head afterwards: no event fires twice.                   *)
THEOREM FiresOnceCorrect == ASSUME ListenersSchedule PROVE Spec => []FiresOnce
<1>1. IInv => FiresOnce
  BY DEF IInv
<1> QED
  BY <1>1, Invariant, PTL

(* advanceTo tells every listener of every cycle exactly once, although    *)
(* events advance the scheduler in the middle of an Advance.               *)
THEOREM ListenersCorrect == ASSUME ListenersSchedule PROVE Spec => []ListenersInStep
<1>1. ASSUME IInv, ListenersDone PROVE \A l \in Listeners : clock[l] = now
  <2>1. ~Calling
    <3>1. stack # <<>> => Len(stack) \in DOMAIN stack
      BY <1>1, TopIs DEF IInv, TypeOK
    <3> QED
      BY <1>1, <3>1 DEF Calling, Top, ListenersDone
  <2> QED
    BY <1>1, <2>1 DEF IInv, ListenersTold
<1>2. IInv => ListenersInStep
  BY <1>1 DEF ListenersInStep
<1> QED
  BY <1>2, Invariant, PTL

(* The scheduler implements a plain set of timers: the clock never passes  *)
(* an event that waits, and every event fires at its time, in order.       *)
THEOREM Refinement == ASSUME ListenersSchedule PROVE Spec => ImplementsTimerQueue
<1>1. Init => Timers!Init
  <2> SUFFICES ASSUME Init PROVE Pending = {}
    BY DEF Init, Timers!Init, Pending
  <2>1. TypeOK
    BY InvInit DEF IInv
  <2>2. DOMAIN Waiting = 1 .. Len(Waiting) /\ Len(Waiting) = 0
    BY <2>1, WaitingIs, EmptySeq DEF Init
  <2> QED
    BY <2>2 DEF Pending
<1>2. IInv /\ [Next]_vars => [Timers!Next]_(Timers!vars)
  BY StepSimulates
<1> QED
  BY <1>1, <1>2, Invariant, PTL DEF Spec, ImplementsTimerQueue, Timers!Spec
=============================================================================
