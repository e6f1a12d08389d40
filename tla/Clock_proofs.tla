---------------------------- MODULE Clock_proofs ----------------------------
(***************************************************************************)
(* Proofs about time in the CPU, for every program, every cycle count,     *)
(* every bound and any number of listeners.  What the scheduler does on    *)
(* its own is taken from its proofs, and with it the hypothesis about      *)
(* listeners: they consume no cycles.  Events may, at any depth.           *)
(***************************************************************************)
EXTENDS Clock, SequenceTheorems, TLAPS

Sched == INSTANCE CycleScheduler_proofs

\* Listeners consume no cycles: the scheduler is not correct for those that do.
ListenersSchedule == ListenerMay \subseteq {"schedule"}
Controller == INSTANCE InterruptController_proofs

-----------------------------------------------------------------------------
\* The two instances of the scheduler say the same.

LEMMA WaitingSame == Sched!Waiting = S!Waiting
BY DEF Sched!Waiting, S!Waiting

LEMMA SchedulerTypes ==
  /\ Sched!TypeOK <=> S!TypeOK
  /\ Sched!TypeOK' => S!TypeOK'
BY DEF Sched!TypeOK, S!TypeOK, Sched!Times, S!Times, Sched!Event, S!Event, Sched!Frame, S!Frame,
       Sched!Listeners, S!Listeners

LEMMA InHostSame == Running => Sched!InHost
BY DEF Running, S!InHost, Sched!InHost

LEMMA AdvanceSame == ASSUME NEW n, S!Advance(n) PROVE Sched!Advance(n)
BY DEF S!Advance, Sched!Advance, S!Times, Sched!Times, S!May, Sched!May, S!InHost, Sched!InHost,
       S!InListener, Sched!InListener, S!InEvent, Sched!InEvent, S!At, Sched!At, S!Top, Sched!Top,
       S!NoEvent, Sched!NoEvent

LEMMA ResetSame == ASSUME NEW t, S!Reset(t) PROVE Sched!Reset(t)
BY SMTT(40) DEF S!Reset, Sched!Reset, S!Times, Sched!Times, S!May, Sched!May, S!InHost, Sched!InHost,
       S!InListener, Sched!InListener, S!InEvent, Sched!InEvent, S!At, Sched!At, S!Top, Sched!Top,
       S!Listeners, Sched!Listeners

LEMMA ScheduleSame == ASSUME NEW at, S!Schedule(at) PROVE Sched!Schedule(at)
BY DEF S!Schedule, Sched!Schedule, S!Times, Sched!Times, S!May, Sched!May, S!InHost, Sched!InHost,
       S!InListener, Sched!InListener, S!InEvent, Sched!InEvent, S!At, Sched!At, S!Top, Sched!Top,
       S!InsertAt, Sched!InsertAt, S!Slot, Sched!Slot, S!Max, Sched!Max

LEMMA DispatchSame == S!Dispatch => Sched!Dispatch
BY DEF S!Dispatch, Sched!Dispatch, S!Approach, Sched!Approach, S!FireOverdue, Sched!FireOverdue,
       S!CallListener, Sched!CallListener, S!FireApproached, Sched!FireApproached,
       S!EventReturns, Sched!EventReturns, S!Finish, Sched!Finish, S!Return, Sched!Return,
       S!At, Sched!At, S!Top, Sched!Top, S!LoopCondition, Sched!LoopCondition,
       S!AdvanceTo, Sched!AdvanceTo, S!Fire, Sched!Fire, S!SetTop, Sched!SetTop,
       S!NoEvent, Sched!NoEvent, S!CompactEvents, Sched!CompactEvents

-----------------------------------------------------------------------------
\* The two clocks.

\* Where the counter says that the scheduler's clock has to get to.
Goal == cycles - (drift + lost)

(* The clock is there, or an active call of Advance takes it there and     *)
(* none takes it further.  A call that has told the listeners of its last  *)
(* stretch is at its own target.                                           *)
Reconciled ==
  /\ now <= Goal
  /\ \A i \in DOMAIN stack : stack[i].target <= Goal
  /\ now = Goal \/ \E i \in DOMAIN stack : stack[i].target = Goal
  /\ stack # <<>> /\ Sched!Top.at = "finish" => now = Sched!Top.target

(* What waits was scheduled after the last Reset.                          *)
WaitingBorn == born \in 0 .. Len(due) /\ \A e \in Sched!Pending : e.id > born

TimeInv ==
  /\ cycles \in Int /\ drift \in Int /\ lost \in Nat
  /\ Sched!IInv
  /\ Reconciled
  /\ WaitingBorn

LEMMA TimeTypes ==
  ASSUME TimeInv
  PROVE  /\ now \in Nat /\ Sched!TypeOK /\ S!TypeOK
         /\ stack \in Seq(Sched!Frame) /\ Len(stack) \in Nat
         /\ DOMAIN fires = 1 .. Len(due) /\ Len(due) \in Nat
         /\ Sched!Times \subseteq Nat
         /\ Goal \in Int
         /\ DOMAIN stack = 1 .. Len(stack)
         /\ \A i \in DOMAIN stack : stack[i].target \in Nat
<1>1. Sched!TypeOK
  BY DEF TimeInv, Sched!IInv
<1>2. Sched!Times \subseteq Nat
  BY SchedulerAssumption DEF Sched!Times
<1>3. Goal \in Int
  BY DEF TimeInv, Goal
<1>4. \A i \in DOMAIN stack : stack[i].target \in Nat
  BY <1>2 DEF TimeInv, Sched!IInv, Sched!TargetsInTime
<1> QED
  BY <1>1, <1>2, <1>3, <1>4, SchedulerTypes DEF Sched!TypeOK

(* So the clock gets to the goal when the active calls return.             *)
LEMMA HorizonIs == ASSUME TimeInv PROVE Horizon = Goal
<1> DEFINE T == {now} \cup {stack[i].target : i \in DOMAIN stack}
<1>1. T \subseteq Int /\ Goal \in T /\ \A t \in T : t <= Goal
  BY TimeTypes DEF TimeInv, Reconciled
<1>2. Horizon = CHOOSE x \in T : \A t \in T : x >= t
  BY DEF Horizon, S!Max
<1> HIDE DEF T
<1>3. \E x \in T : \A t \in T : x >= t
  BY <1>1
<1>4. Horizon \in T /\ Horizon >= Goal
  BY <1>1, <1>2, <1>3
<1> QED
  BY <1>1, <1>4

LEMMA OverlapIs ==
  ASSUME TimeInv, NEW n \in Nat
  PROVE  /\ Goal - now \in Nat
         /\ Overlap(n) = IF n <= Goal - now THEN n ELSE Goal - now
<1>1. now \in Nat /\ Goal \in Int /\ now <= Goal
  BY TimeTypes DEF TimeInv, Reconciled
<1>2. PICK d \in Nat : d = Goal - now
  BY <1>1
<1>3. Overlap(n) = CHOOSE x \in {n, d} : \A y \in {n, d} : x <= y
  BY <1>2, HorizonIs DEF Overlap, S!Min
<1>4. CASE n <= d
  BY <1>2, <1>3, <1>4
<1>5. CASE ~(n <= d)
  BY <1>2, <1>3, <1>5
<1> QED
  BY <1>2, <1>4, <1>5

LEMMA TimeInit == Init => TimeInv
<1> SUFFICES ASSUME Init PROVE TimeInv
  OBVIOUS
<1>1. Sched!Init
  BY DEF Init, S!Init, Sched!Init, S!Listeners, Sched!Listeners
<1>2. Sched!IInv
  BY <1>1, Sched!InvInit, SchedulerAssumption DEF S!Calls, Sched!Calls
<1>3. stack = <<>> /\ now = 0 /\ drift = 0 /\ lost = 0 /\ cycles = 0 /\ born = 0 /\ due = <<>>
      /\ events = <<>> /\ eventHead = 0
  BY DEF Init, S!Init
<1>4. Sched!Pending = {}
  BY <1>3, EmptySeq DEF Sched!Pending, Sched!Waiting
<1>5. Len(stack) = 0 /\ Len(due) = 0
  BY <1>3, EmptySeq
<1> QED
  BY <1>2, <1>3, <1>4, <1>5 DEF TimeInv, Reconciled, Goal, WaitingBorn

LEMMA TimeKept ==
  ASSUME TimeInv, UNCHANGED <<cycles, drift, lost, born>>, UNCHANGED scheduler
  PROVE  TimeInv'
<1>1. UNCHANGED <<now, events, eventHead, stack, crashed, due, fires, clock>>
  BY DEF scheduler
<1>2. Sched!IInv'
  BY <1>1, Sched!InvKept, SchedulerAssumption DEF TimeInv, Sched!vars, S!Calls, Sched!Calls
<1>3. Sched!Pending' = Sched!Pending /\ Sched!Top' = Sched!Top
  BY <1>1 DEF Sched!Pending, Sched!Waiting, Sched!Top
<1> QED
  BY <1>1, <1>2, <1>3 DEF TimeInv, Reconciled, Goal, WaitingBorn

(* The CPU adds cycles, by itself or for an event: to its counter, and as  *)
(* the target of an Advance.  Those before the goal are lost, the others   *)
(* move it.                                                                *)
LEMMA TimeAdded ==
  ASSUME TimeInv, Running \/ Sched!InEvent, NEW n \in Nat, AddCycles(n), UNCHANGED born
  PROVE  TimeInv'
<1> DEFINE g == Goal
<1>0. /\ g \in Int /\ g - now \in Nat /\ now \in Nat
      /\ Overlap(n) = IF n <= g - now THEN n ELSE g - now
      /\ Goal = g
  BY OverlapIs, TimeTypes
<1> HIDE DEF g
<1>1. CASE n = 0
  <2>1. Overlap(n) = 0
    BY <1>0, <1>1
  <2>2. UNCHANGED <<cycles, drift, lost>> /\ UNCHANGED scheduler
    BY <1>1, <2>1 DEF AddCycles, TimeInv
  <2> QED
    BY <2>2, TimeKept
<1>2. CASE n # 0
  <2>1. S!Advance(n) /\ cycles' = cycles + n /\ UNCHANGED drift
    BY <1>2 DEF AddCycles
  <2>2. now \in Nat /\ Sched!Times = 0 .. MaxTime /\ MaxTime \in Nat
    BY TimeTypes, SchedulerAssumption DEF Sched!Times
  <2>3. now + n \in Sched!Times
    BY <2>1 DEF S!Advance, S!Times, Sched!Times
  <2>4. n \in Sched!Times
    BY <2>2, <2>3
  <2>5. Sched!Advance(n) /\ (Sched!InHost \/ Sched!InEvent) /\ Sched!IInv
    BY <2>1, AdvanceSame, InHostSame DEF TimeInv
  <2>6. Sched!IInv'
    BY <2>4, <2>5, Sched!AdvanceKeeps, SchedulerAssumption DEF S!Calls, Sched!Calls
  <2> DEFINE f == [target |-> now + n, at |-> "loop", event |-> Sched!NoEvent,
                   called |-> 0, delta |-> 0]
  <2>7. /\ stack' = Append(stack, f)
        /\ UNCHANGED <<now, events, eventHead, crashed, due, fires, clock>>
    BY <2>5 DEF Sched!Advance
  <2>8. f.target = now + n /\ f.at = "loop"
    OBVIOUS
  <2> HIDE DEF f
  <2>9. /\ stack \in Seq(Sched!Frame) /\ Len(stack) \in Nat /\ DOMAIN stack = 1 .. Len(stack)
        /\ \A i \in DOMAIN stack : stack[i].target \in Nat
    BY TimeTypes
  <2>10. /\ Len(stack') = Len(stack) + 1 /\ DOMAIN stack' = 1 .. Len(stack) + 1
         /\ stack'[Len(stack) + 1] = f
         /\ \A i \in 1 .. Len(stack) : stack'[i] = stack[i]
    BY <2>7, <2>9
  <2>11. stack' # <<>> /\ Sched!Top' = f
    BY <2>9, <2>10, EmptySeq DEF Sched!Top
  <2>12. Sched!Pending' = Sched!Pending
    BY <2>7 DEF Sched!Pending, Sched!Waiting
  <2>13. lost' = lost + Overlap(n) /\ lost' \in Nat
    BY <1>0, <2>1 DEF AddCycles, TimeInv
  <2>14. Goal' = IF n <= g - now THEN g ELSE now + n
    <3>1. /\ cycles \in Int /\ drift \in Int /\ lost \in Nat /\ g = cycles - (drift + lost)
          /\ Goal' = cycles' - (drift' + lost')
      BY <1>0 DEF TimeInv, Goal
    <3> QED
      BY <1>0, <2>1, <2>13, <3>1
  <2>15. Reconciled'
    <3>1. /\ now <= g /\ \A i \in 1 .. Len(stack) : stack[i].target <= g
          /\ now = g \/ \E i \in 1 .. Len(stack) : stack[i].target = g
      BY <1>0, <2>9 DEF TimeInv, Reconciled
    <3>2. Goal' \in Int /\ g <= Goal' /\ now + n <= Goal' /\ now <= Goal'
      BY <1>0, <2>14
    <3>3. \A i \in DOMAIN stack' : stack'[i].target <= Goal'
      <4>1. SUFFICES ASSUME NEW i \in DOMAIN stack' PROVE stack'[i].target <= Goal'
        OBVIOUS
      <4>2. CASE i = Len(stack) + 1
        BY <2>8, <2>10, <3>2, <4>2
      <4>3. CASE i \in 1 .. Len(stack)
        <5>1. stack'[i] = stack[i] /\ stack[i].target \in Nat /\ stack[i].target <= g
          BY <2>9, <2>10, <3>1, <4>3
        <5> QED
          BY <1>0, <3>2, <5>1
      <4> QED
        BY <2>9, <2>10, <4>2, <4>3
    <3>4. now = Goal' \/ \E i \in DOMAIN stack' : stack'[i].target = Goal'
      <4>1. CASE n <= g - now
        <5>1. Goal' = g
          BY <2>14, <4>1
        <5>2. CASE now = g
          BY <5>1, <5>2
        <5>3. CASE \E i \in 1 .. Len(stack) : stack[i].target = g
          <6>1. PICK i \in 1 .. Len(stack) : stack[i].target = g
            BY <5>3
          <6>2. i \in DOMAIN stack' /\ stack'[i].target = g
            BY <2>9, <2>10, <6>1
          <6> QED
            BY <5>1, <6>2
        <5> QED
          BY <3>1, <5>2, <5>3
      <4>2. CASE ~(n <= g - now)
        <5>1. Goal' = f.target /\ Len(stack) + 1 \in DOMAIN stack'
          BY <2>8, <2>9, <2>10, <2>14, <4>2
        <5> QED
          BY <2>10, <5>1
      <4> QED
        BY <4>1, <4>2
    <3>5. ~(Sched!Top'.at = "finish")
      BY <2>8, <2>11
    <3> QED
      BY <2>7, <3>2, <3>3, <3>4, <3>5 DEF Reconciled
  <2>16. WaitingBorn'
    BY <2>7, <2>12 DEF TimeInv, WaitingBorn
  <2> QED
    BY <2>1, <2>6, <2>13, <2>15, <2>16 DEF TimeInv
<1> QED
  BY <1>1, <1>2

(* A correction moves the counter and drift by the same amount.            *)
LEMMA TimeOverridden ==
  ASSUME TimeInv, Running, NEW totals, OverrideInstructionCycles(totals), UNCHANGED born,
         cycles' \in Int
  PROVE  TimeInv'
<1>1. /\ drift' = drift + cycles' - cycles /\ lost' = lost
      /\ UNCHANGED <<now, events, eventHead, stack, crashed, due, fires, clock>>
  BY DEF OverrideInstructionCycles, scheduler
<1>2. stack = <<>> /\ now \in Nat /\ cycles \in Int /\ drift \in Int
  BY TimeTypes DEF Running, S!InHost, TimeInv
<1>3. Sched!IInv'
  BY <1>1, Sched!InvKept, SchedulerAssumption DEF TimeInv, Sched!vars, S!Calls, Sched!Calls
<1>4. Sched!Pending' = Sched!Pending
  BY <1>1 DEF Sched!Pending, Sched!Waiting
<1>5. WaitingBorn'
  BY <1>1, <1>4 DEF TimeInv, WaitingBorn
<1>6. Goal' = Goal /\ drift' \in Int
  <2>1. PICK m \in Int : m = cycles'
    OBVIOUS
  <2>2. lost \in Nat
    BY DEF TimeInv
  <2>3. m - (drift + m - cycles + lost) = cycles - (drift + lost) /\ drift + m - cycles \in Int
    BY <1>2, <2>2
  <2>4. Goal' = cycles' - (drift' + lost')
    BY DEF Goal
  <2> QED
    BY <1>1, <2>1, <2>3, <2>4 DEF Goal
<1>7. Reconciled'
  BY <1>1, <1>2, <1>6 DEF TimeInv, Reconciled
<1>8. lost' \in Nat
  BY <1>1 DEF TimeInv
<1> QED
  BY <1>3, <1>5, <1>6, <1>7, <1>8 DEF TimeInv

(* The scheduler takes over the counter, with no event waiting.            *)
LEMMA TimeReset ==
  ASSUME TimeInv, Running, NEW t, S!Reset(t), cycles' = t, drift' = 0, lost' = 0,
         born' = Len(due)
  PROVE  TimeInv'
<1>1. Sched!Reset(t) /\ Sched!InHost /\ Sched!IInv /\ t \in Sched!Times
  BY ResetSame, InHostSame DEF TimeInv, Sched!Reset
<1>2. Sched!IInv'
  BY <1>1, Sched!ResetKeeps, SchedulerAssumption DEF S!Calls, Sched!Calls
<1>3. /\ now' = t /\ events' = <<>> /\ eventHead' = 0 /\ UNCHANGED <<stack, due>>
      /\ stack = <<>> /\ t \in Nat
  BY <1>1, TimeTypes DEF Sched!Reset, Sched!InHost
<1>4. Sched!Pending' = {}
  BY <1>3, EmptySeq DEF Sched!Pending, Sched!Waiting
<1>5. WaitingBorn'
  BY <1>3, <1>4, TimeTypes DEF WaitingBorn
<1>6. Goal' = now' /\ now' \in Nat /\ stack' = <<>>
  BY <1>3 DEF Goal
<1>7. Reconciled'
  BY <1>6, EmptySeq DEF Reconciled
<1> QED
  BY <1>2, <1>3, <1>5, <1>7 DEF TimeInv

LEMMA TimeScheduled ==
  ASSUME TimeInv, NEW at, S!Schedule(at), at >= now, UNCHANGED <<cycles, drift, lost, born>>
  PROVE  TimeInv'
<1>1. Sched!Schedule(at) /\ Sched!IInv /\ at \in Sched!Times
  BY ScheduleSame DEF TimeInv, Sched!Schedule
<1>2. Sched!IInv'
  BY <1>1, Sched!ScheduleKeeps, SchedulerAssumption DEF S!Calls, Sched!Calls
<1>3. Sched!Pending' = Sched!Pending \cup {Sched!NewEvent(at)}
  BY <1>1, Sched!PendingSchedule, SchedulerAssumption
     DEF S!Calls, Sched!Calls, Sched!IInv, Sched!Queue
<1>4. due' = Append(due, IF at < now THEN now ELSE at) /\ UNCHANGED <<now, stack>>
  BY <1>1 DEF Sched!Schedule
<1>5. due \in Seq(Nat) /\ due' \in Seq(Nat)
  BY <1>2, TimeTypes DEF Sched!IInv, Sched!TypeOK
<1>6. Len(due') = Len(due) + 1
  BY <1>4, <1>5
<1>7. WaitingBorn'
  <2>1. born \in 0 .. Len(due) /\ Len(due) \in Nat
    BY TimeTypes DEF TimeInv, WaitingBorn
  <2>2. Sched!NewEvent(at).id > born
    BY <2>1 DEF Sched!NewEvent
  <2>3. born' \in 0 .. Len(due')
    BY <1>6, <2>1
  <2> QED
    BY <1>3, <2>2, <2>3 DEF TimeInv, WaitingBorn
<1>8. Reconciled'
  BY <1>4 DEF TimeInv, Reconciled, Goal, Sched!Top
<1> QED
  BY <1>2, <1>7, <1>8 DEF TimeInv

(* A step of the scheduler brings its clock nearer to the counter.         *)
LEMMA TimeDispatched ==
  ASSUME TimeInv, S!Dispatch, UNCHANGED <<cycles, drift, lost, born>>
  PROVE  TimeInv'
<1>1. Sched!Dispatch /\ Sched!IInv
  BY DispatchSame DEF TimeInv
<1>2. Sched!IInv'
  BY <1>1, Sched!DispatchKeeps, SchedulerAssumption DEF S!Calls, Sched!Calls
<1>3. due' = due /\ Sched!Pending' \subseteq Sched!Pending
  BY <1>1, Sched!DispatchFires, SchedulerAssumption DEF S!Calls, Sched!Calls
<1>4. WaitingBorn'
  BY <1>3 DEF TimeInv, WaitingBorn
<1>5. stack # <<>> /\ (Sched!Return \/ Sched!FrameMoves)
  BY <1>1, Sched!DispatchMoves, SchedulerAssumption DEF S!Calls, Sched!Calls
<1>6. /\ Len(stack) \in Nat /\ Len(stack) > 0 /\ DOMAIN stack = 1 .. Len(stack)
      /\ \A i \in DOMAIN stack : stack[i].target \in Nat
      /\ Sched!Top = stack[Len(stack)] /\ now \in Nat /\ Goal \in Int /\ Goal' = Goal
  BY <1>5, TimeTypes, EmptySeq DEF Sched!Top, Goal
<1>7. /\ now <= Goal /\ \A i \in DOMAIN stack : stack[i].target <= Goal
      /\ now = Goal \/ \E i \in DOMAIN stack : stack[i].target = Goal
      /\ Sched!Top.at = "finish" => now = Sched!Top.target
      /\ Len(stack) \in DOMAIN stack
  BY <1>5, <1>6 DEF TimeInv, Reconciled
<1>8. Reconciled'
  <2>1. CASE Sched!FrameMoves
    <3>1. /\ stack' # <<>> /\ Len(stack') = Len(stack) /\ Sched!Top'.target = Sched!Top.target
          /\ \A i \in DOMAIN stack : stack'[i].target = stack[i].target
      BY <1>6, <2>1 DEF Sched!FrameMoves, Sched!SameTargets
    <3>2. DOMAIN stack' = DOMAIN stack
      BY <1>2, <1>6, <3>1 DEF Sched!IInv, Sched!TypeOK
    <3>3. \/ now' = now /\ (Sched!Top'.at = "finish" => Sched!Top.at = "finish")
          \/ /\ now < now' /\ now' <= Sched!Top.target
             /\ Sched!Top'.at = "finish" => now' = Sched!Top.target
      BY <2>1 DEF Sched!FrameMoves
    <3>4. now' \in Nat
      BY <1>2, TimeTypes DEF Sched!IInv, Sched!TypeOK
    <3>5. now' <= Goal /\ (now = Goal => now' = Goal)
      BY <1>6, <1>7, <3>3, <3>4
    <3>6. Sched!Top'.at = "finish" => now' = Sched!Top'.target
      BY <1>7, <3>1, <3>3
    <3>7. \A i \in DOMAIN stack' : stack'[i].target <= Goal'
      BY <1>6, <1>7, <3>1, <3>2
    <3>8. now' = Goal' \/ \E i \in DOMAIN stack' : stack'[i].target = Goal'
      BY <1>6, <1>7, <3>1, <3>2, <3>5
    <3> QED
      BY <1>6, <3>5, <3>6, <3>7, <3>8 DEF Reconciled
  <2>2. CASE Sched!Return
    <3>1. stack' = SubSeq(stack, 1, Len(stack) - 1) /\ now' = now
      BY <2>2 DEF Sched!Return
    <3>2. now >= Sched!Top.target
      BY <1>6, <1>7, <2>2 DEF Sched!Return, Sched!At
    <3>3. /\ Len(stack') = Len(stack) - 1 /\ DOMAIN stack' = 1 .. Len(stack) - 1
          /\ \A i \in 1 .. Len(stack) - 1 : stack'[i] = stack[i]
      BY <1>6, <3>1, TimeTypes
    <3>4. \A i \in DOMAIN stack' : i \in DOMAIN stack /\ stack'[i] = stack[i]
      BY <1>6, <3>3
    <3>5. now = Goal \/ \E i \in DOMAIN stack' : stack'[i].target = Goal
      <4>1. CASE \E i \in DOMAIN stack : stack[i].target = Goal
        <5>1. PICK i \in DOMAIN stack : stack[i].target = Goal
          BY <4>1
        <5>2. CASE i = Len(stack)
          BY <1>6, <1>7, <3>2, <5>1, <5>2
        <5>3. CASE i # Len(stack)
          BY <1>6, <3>3, <5>1, <5>3
        <5> QED
          BY <5>2, <5>3
      <4> QED
        BY <1>7, <4>1
    <3>6. stack' # <<>> => Sched!Top'.at = "fire"
      <4>1. SUFFICES ASSUME stack' # <<>> PROVE Sched!Top'.at = "fire"
        OBVIOUS
      <4>2. Len(stack') # 0
        BY <3>1, <4>1, <1>6, TimeTypes, EmptySeq
      <4>3. Len(stack) - 1 \in 1 .. Len(stack) - 1
        BY <1>6, <3>3, <4>2
      <4>4. Sched!Top' = stack[Len(stack) - 1]
        BY <3>3, <4>3 DEF Sched!Top
      <4> QED
        BY <1>1, <4>3, <4>4 DEF Sched!IInv, Sched!OuterFramesFire
    <3> QED
      BY <1>6, <1>7, <3>1, <3>4, <3>5, <3>6 DEF Reconciled
  <2> QED
    BY <1>5, <2>1, <2>2
<1> QED
  BY <1>2, <1>4, <1>8 DEF TimeInv

-----------------------------------------------------------------------------
\* The interrupt controller inside the CPU.

LEMMA ControllerType ==
  /\ IC!TypeOK <=> Controller!TypeOK
  /\ Controller!TypeOK' => IC!TypeOK'
BY DEF IC!TypeOK, Controller!TypeOK, IC!Levels, Controller!Levels, IC!PendingInterrupt,
       Controller!PendingInterrupt, IC!Grants, Controller!Grants, IC!NoGrant, Controller!NoGrant

LEMMA ControllerKept ==
  ASSUME IC!TypeOK, UNCHANGED interrupts
  PROVE  IC!TypeOK' /\ grant' = grant
BY DEF interrupts, IC!TypeOK

(* The controller's own proof carries over to its copy inside the CPU.     *)
LEMMA AcceptType ==
  ASSUME IC!TypeOK, NEW level \in RequestLevels, IC!Accept(level, NoVector)
  PROVE  IC!TypeOK' /\ grant' = grant
<1>1. Controller!Accept(level, NoVector)
  BY DEF IC!Accept, Controller!Accept, IC!Levels, Controller!Levels, IC!NewRequest,
         Controller!NewRequest, IC!AutoVectorBase, Controller!AutoVectorBase
<1>2. Controller!Next
  BY <1>1 DEF Controller!Next, Controller!Request
<1>3. Controller!TypeOK'
  BY <1>2, ControllerType, Controller!TypeNext, ControllerAssumption
<1> QED
  BY <1>3, ControllerType DEF IC!Accept

LEMMA DeliverType ==
  ASSUME IC!TypeOK, NEW m \in 0 .. 7, IC!Deliver(m)
  PROVE  IC!TypeOK' /\ grant' \in IC!Grants
<1>1. Controller!Deliver(m)
  BY DEF IC!Deliver, Controller!Deliver, IC!Acceptable, Controller!Acceptable, IC!Levels,
         Controller!Levels, IC!HighestNonEmpty, Controller!HighestNonEmpty, IC!Max, Controller!Max
<1>2. Controller!Next
  BY <1>1 DEF Controller!Next, Controller!Pending, Controller!Masks
<1>3. IC!TypeOK'
  BY <1>2, ControllerType, Controller!TypeNext, ControllerAssumption
<1>4. grant'.ok /\ ~IC!NoGrant.ok
  BY DEF IC!Deliver, IC!NoGrant
<1>5. grant' \in IC!Grants
  BY <1>3, <1>4 DEF IC!TypeOK
<1> QED
  BY <1>3, <1>5

LEMMA ControllerResetType ==
  ASSUME IC!TypeOK, IC!Reset
  PROVE  IC!TypeOK' /\ grant' = grant
<1>1. Controller!Reset
  BY DEF IC!Reset, Controller!Reset, IC!Levels, Controller!Levels
<1>2. Controller!Next
  BY <1>1 DEF Controller!Next
<1>3. Controller!TypeOK'
  BY <1>2, ControllerType, Controller!TypeNext, ControllerAssumption
<1> QED
  BY <1>3, ControllerType DEF IC!Reset

-----------------------------------------------------------------------------
\* The control of the CPU.

Phases == {"host", "loop", "boundary", "fetch", "execute", "waited", "check",
           "accept", "wake", "fault", "done", "reset"}

Control ==
  /\ stopped \in BOOLEAN
  /\ mask \in Masks
  /\ ir \in Program \cup {NoInstruction}
  /\ phase \in Phases
  /\ call \in {"none", "step", "run", "reset"} /\ (call = "none" <=> phase = "host")
  /\ before \in Int /\ target \in Int

\* An interrupt that is being stacked was granted by the controller.
GrantTaken == IC!TypeOK /\ (phase \in {"accept", "wake"} => grant \in IC!Grants)

IInv == Control /\ GrantTaken /\ TimeInv

LEMMA TypesFollow == IInv => TypeOK
BY TimeTypes DEF IInv, TypeOK, Control, Phases, GrantTaken, TimeInv, WaitingBorn

LEMMA GrantKept ==
  ASSUME GrantTaken, IC!TypeOK', grant' = grant,
         phase' \in {"accept", "wake"} => phase \in {"accept", "wake"}
  PROVE  GrantTaken'
BY DEF GrantTaken, IC!Grants, IC!Levels, IC!PendingInterrupt

(* Instructions, from the table and the program.                           *)
LEMMA InstructionTypes ==
  ASSUME NEW i \in Program \cup {NoInstruction}
  PROVE  i.cost \in Nat /\ i.arg \in Nat /\ (i.does \in {"mask", "stop"} => i.arg \in Masks)
<1>1. CASE i = NoInstruction
  BY <1>1 DEF NoInstruction
<1>2. CASE i \in Program
  BY <1>2, ProgramAssumption DEF Instruction
<1> QED
  BY <1>1, <1>2

LEMMA EndCallControl ==
  ASSUME Control, EndCall, stopped' \in BOOLEAN, mask' \in Masks,
         ir' \in Program \cup {NoInstruction}
  PROVE  Control'
BY DEF Control, EndCall, Phases

LEMMA CallControl ==
  ASSUME IInv, AtRest, UNCHANGED <<cycles, stopped, mask, ir, before, drift, lost, born>>,
         UNCHANGED scheduler, UNCHANGED interrupts, target' \in Int,
         \/ call' = "step" /\ phase' = "boundary"
         \/ call' = "run" /\ phase' = "loop"
  PROVE  IInv'
<1>1. TimeInv'
  BY TimeKept DEF IInv
<1>2. Control'
  BY DEF IInv, Control, Phases
<1>3. GrantTaken'
  BY ControllerKept, GrantKept DEF IInv, GrantTaken
<1> QED
  BY <1>1, <1>2, <1>3 DEF IInv

-----------------------------------------------------------------------------
\* Every step keeps the invariant.

(* Steps in which the clocks, the events and the controller rest.          *)
LEMMA QuietKeeps ==
  ASSUME IInv, Control', UNCHANGED <<cycles, drift, lost, born>>, UNCHANGED scheduler,
         UNCHANGED interrupts, phase' \in {"accept", "wake"} => phase \in {"accept", "wake"}
  PROVE  IInv'
<1>1. TimeInv'
  BY TimeKept DEF IInv
<1>2. GrantTaken'
  BY ControllerKept, GrantKept DEF IInv, GrantTaken
<1> QED
  BY <1>1, <1>2 DEF IInv

(* Steps in which cycles are added, and no interrupt is taken.             *)
LEMMA AddingKeeps ==
  ASSUME IInv, Control', Running, NEW n \in Nat, AddCycles(n), UNCHANGED born,
         UNCHANGED interrupts, phase' \notin {"accept", "wake"}
  PROVE  IInv'
<1>1. TimeInv'
  BY TimeAdded DEF IInv
<1>2. GrantTaken'
  BY ControllerKept, GrantKept DEF IInv, GrantTaken
<1> QED
  BY <1>1, <1>2 DEF IInv

(* Steps in which the counter is corrected.                                *)
LEMMA CorrectingKeeps ==
  ASSUME IInv, Control', Running, NEW totals, OverrideInstructionCycles(totals), UNCHANGED born,
         UNCHANGED interrupts, phase' \notin {"accept", "wake"}, cycles' \in Int
  PROVE  IInv'
<1>1. TimeInv'
  BY TimeOverridden DEF IInv
<1>2. GrantTaken'
  BY ControllerKept, GrantKept DEF IInv, GrantTaken
<1> QED
  BY <1>1, <1>2 DEF IInv

LEMMA RunControlKeeps ==
  ASSUME IInv, Return \/ Round \/ Done \/ StepIdles \/ CheckNothing \/ FetchFaultStacks
  PROVE  IInv'
<1>1. /\ UNCHANGED <<cycles, drift, lost, born>> /\ UNCHANGED scheduler /\ UNCHANGED interrupts
      /\ UNCHANGED <<stopped, mask, ir>> /\ phase' \notin {"accept", "wake"}
  BY DEF Return, Round, Done, StepIdles, CheckNothing, FetchFaultStacks, EndCall
<1>2. stopped' \in BOOLEAN
  BY <1>1 DEF IInv, Control
<1>3. Control /\ mask' \in Masks /\ ir' \in Program \cup {NoInstruction} /\ cycles \in Int
  BY <1>1 DEF IInv, Control, TimeInv
<1>4. Control'
  <2>1. CASE EndCall
    BY <1>2, <1>3, <2>1, EndCallControl
  <2>2. CASE /\ phase \in {"loop", "boundary", "check", "fault", "done"}
             /\ phase' \in {"boundary", "loop", "done"}
             /\ UNCHANGED <<call, target>> /\ before' \in {before, cycles}
    BY <1>1, <1>2, <1>3, <2>2 DEF Control, Phases
  <2> QED
    BY <2>1, <2>2 DEF Return, Round, Done, StepIdles, CheckNothing, FetchFaultStacks
<1> QED
  BY <1>1, <1>4, QuietKeeps

LEMMA ConsumingKeeps ==
  ASSUME IInv, RunIdles \/ Fetch \/ FetchFault \/ BusWaits
  PROVE  IInv'
<1>1. Control /\ stopped \in BOOLEAN
  BY DEF IInv, Control
<1>2. PICK n \in Nat : AddCycles(n)
  <2>1. StopTick \in Nat /\ GroupZeroCycles \in Nat /\ Waits \subseteq Nat
    BY CyclesAssumption
  <2>2. \A i \in Program : i.cost \in Nat
    BY InstructionTypes
  <2> QED
    BY <2>1, <2>2 DEF RunIdles, Fetch, FetchFault, BusWaits
<1>3. /\ Running /\ UNCHANGED <<stopped, mask, call, before, target, born>>
      /\ UNCHANGED interrupts
      /\ phase \in {"boundary", "fetch", "execute"}
      /\ phase' \in {"loop", "execute", "fault", "waited"}
      /\ ir' \in Program \cup {NoInstruction}
  BY DEF RunIdles, Fetch, FetchFault, BusWaits, IInv, Control
<1>4. Control'
  BY <1>1, <1>3 DEF Control, Phases
<1> QED
  BY <1>2, <1>3, <1>4, AddingKeeps

LEMMA TakeInterruptKeeps ==
  ASSUME IInv, Running, phase \in {"boundary", "check"}, NEW next \in {"wake", "accept"},
         TakeInterrupt(next)
  PROVE  IInv'
<1>1. TimeInv'
  <2>1. InterruptCycles \in Nat
    BY CyclesAssumption
  <2> QED
    BY <2>1, TimeAdded DEF TakeInterrupt, IInv
<1>2. Control'
  BY DEF TakeInterrupt, IInv, Control, Phases
<1>3. GrantTaken'
  <2>1. mask \in 0 .. 7
    BY DEF IInv, Control, Masks
  <2>2. IC!TypeOK' /\ grant' \in IC!Grants
    BY <2>1, DeliverType DEF IInv, GrantTaken, TakeInterrupt
  <2> QED
    BY <2>2 DEF GrantTaken, IC!Grants, IC!Levels, IC!PendingInterrupt
<1> QED
  BY <1>1, <1>2, <1>3 DEF IInv

LEMMA HandlerKeeps ==
  ASSUME IInv, Plain \/ SetMask \/ Stop
  PROVE  IInv'
<1>1. /\ UNCHANGED <<cycles, drift, lost, born>> /\ UNCHANGED scheduler /\ UNCHANGED interrupts
      /\ phase \in {"execute", "waited"} /\ phase' \notin {"accept", "wake"} /\ ir' = NoInstruction
      /\ (phase' = "check" /\ UNCHANGED <<call, before, target>>) \/ EndCall
  BY DEF Plain, SetMask, Stop, HandlerReturns, HandlerFails, EndCall, Executing
<1>2. stopped' \in BOOLEAN
  BY DEF Plain, SetMask, Stop, IInv, Control
<1>3. mask' \in Masks
  BY InstructionTypes DEF Plain, SetMask, Stop, IInv, Control
<1>4. Control'
  <2>1. CASE EndCall
    BY <1>1, <1>2, <1>3, <2>1, EndCallControl DEF IInv, Control
  <2>2. CASE phase' = "check" /\ UNCHANGED <<call, before, target>>
    BY <1>1, <1>2, <1>3, <2>2 DEF IInv, Control, Phases
  <2> QED
    BY <1>1, <2>1, <2>2
<1> QED
  BY <1>1, <1>4, QuietKeeps

LEMMA ExceptionKeeps ==
  ASSUME IInv, Raise \/ OperandFault \/ RaiseFaults
  PROVE  IInv'
<1>1. PICK totals : /\ OverrideInstructionCycles(totals)
                    /\ \/ \E a \in Nat : totals = <<a>>
                       \/ \E a, b \in Nat : totals = <<a, b>>
  <2>1. ir.arg \in Nat /\ GroupZeroCycles \in Nat
    BY InstructionTypes, CyclesAssumption DEF IInv, Control
  <2> QED
    BY <2>1 DEF Raise, OperandFault, RaiseFaults
<1>2. cycles' \in Int
  <2>1. ir.cost \in Nat /\ cycles \in Int
    BY InstructionTypes DEF IInv, Control, TimeInv
  <2>2. CASE \E a \in Nat : totals = <<a>>
    BY <1>1, <2>1, <2>2 DEF OverrideInstructionCycles
  <2>3. CASE \E a, b \in Nat : totals = <<a, b>>
    BY <1>1, <2>1, <2>3 DEF OverrideInstructionCycles
  <2> QED
    BY <1>1, <2>2, <2>3
<1>3. /\ Running /\ UNCHANGED <<stopped, mask, born>> /\ UNCHANGED interrupts
      /\ phase \in {"execute", "waited"} /\ phase' \notin {"accept", "wake"}
      /\ ir' = NoInstruction
      /\ (phase' = "check" /\ UNCHANGED <<call, before, target>>) \/ EndCall
  BY DEF Raise, OperandFault, RaiseFaults, Executing, HandlerReturns, HandlerFails, EndCall
<1>4. stopped' \in BOOLEAN
  BY <1>3 DEF IInv, Control
<1>5. Control'
  <2>1. CASE EndCall
    BY <1>3, <1>4, <2>1, EndCallControl DEF IInv, Control
  <2>2. CASE phase' = "check" /\ UNCHANGED <<call, before, target>>
    BY <1>3, <1>4, <2>2 DEF IInv, Control, Phases
  <2> QED
    BY <1>3, <2>1, <2>2
<1> QED
  BY <1>1, <1>2, <1>3, <1>5, CorrectingKeeps

LEMMA AcceptKeeps == ASSUME IInv, Accept PROVE IInv'
<1>1. /\ UNCHANGED <<cycles, drift, lost, born>> /\ UNCHANGED scheduler /\ UNCHANGED interrupts
      /\ UNCHANGED <<stopped, ir>> /\ phase \in {"wake", "accept"}
  BY DEF Accept
<1>2. stopped' \in BOOLEAN /\ ir' \in Program \cup {NoInstruction}
  BY <1>1 DEF IInv, Control
<1>3. grant.level \in Masks
  <2>1. grant \in IC!Grants
    BY <1>1 DEF IInv, GrantTaken
  <2>2. grant.level \in 1 .. 7
    BY <2>1 DEF IC!Grants, IC!Levels
  <2> QED
    BY <2>2 DEF Masks
<1>4. CASE UNCHANGED mask /\ EndCall
  <2>1. Control'
    BY <1>2, <1>4, EndCallControl DEF IInv, Control
  <2> QED
    BY <1>1, <1>4, <2>1, QuietKeeps DEF EndCall
<1>5. CASE /\ mask' = grant.level /\ phase' \in {"fetch", "done"}
           /\ UNCHANGED <<call, before, target>>
  <2>1. Control'
    BY <1>1, <1>2, <1>3, <1>5 DEF IInv, Control, Phases
  <2> QED
    BY <1>1, <1>5, <2>1, QuietKeeps
<1> QED
  BY <1>4, <1>5 DEF Accept

LEMMA ResetStepKeeps ==
  ASSUME IInv, ResetBegin \/ ResetFails \/ ResetEnd \/ SetScheduler
  PROVE  IInv'
<1>1. Control /\ GrantTaken /\ TimeInv /\ ir \in Program \cup {NoInstruction}
  BY DEF IInv, Control
<1>2. CASE ResetBegin
  <2>1. /\ AtRest /\ IC!Reset /\ UNCHANGED <<ir, before, target, born>>
        /\ call' = "reset" /\ phase' = "reset" /\ mask' = 7 /\ stopped' = FALSE
    BY <1>2 DEF ResetBegin
  <2>2. PICK n \in Nat : AddCycles(n)
    BY <1>2, CyclesAssumption DEF ResetBegin
  <2>3. TimeInv'
    BY <1>1, <2>1, <2>2, TimeAdded DEF AtRest
  <2>4. GrantTaken'
    BY <1>1, <2>1, ControllerResetType, GrantKept DEF GrantTaken
  <2>5. Control'
    <3>1. stopped' \in BOOLEAN
      BY <2>1
    <3>2. 7 \in Masks /\ "reset" \in Phases
      BY DEF Masks, Phases
    <3>3. call' \in {"none", "step", "run", "reset"} /\ call' # "none" /\ phase' # "host"
      BY <2>1
    <3> QED
      BY <1>1, <2>1, <3>1, <3>2, <3>3 DEF Control
  <2> QED
    BY <2>3, <2>4, <2>5 DEF IInv
<1>3. CASE ResetFails
  <2>1. stopped' \in BOOLEAN /\ mask' \in Masks /\ ir' \in Program \cup {NoInstruction} /\ EndCall
    BY <1>1, <1>3 DEF ResetFails, Control
  <2>2. Control'
    BY <1>1, <2>1, EndCallControl
  <2> QED
    BY <1>3, <2>1, <2>2, QuietKeeps DEF ResetFails, EndCall
<1>4. CASE ResetEnd
  <2>1. TimeInv'
    BY <1>1, <1>4, TimeReset DEF ResetEnd
  <2>2. stopped' \in BOOLEAN /\ mask' \in Masks /\ ir' \in Program \cup {NoInstruction} /\ EndCall
    BY <1>1, <1>4 DEF ResetEnd, Control
  <2>3. Control'
    BY <1>1, <2>2, EndCallControl
  <2>4. GrantTaken'
    BY <1>1, <1>4, <2>2, ControllerKept, GrantKept DEF ResetEnd, EndCall, GrantTaken
  <2> QED
    BY <2>1, <2>3, <2>4 DEF IInv
<1>5. CASE SetScheduler
  <2>1. TimeInv'
    BY <1>1, <1>5, TimeReset DEF SetScheduler, AtRest
  <2>2. UNCHANGED <<stopped, mask, ir, phase, call, before, target>> /\ UNCHANGED interrupts
    BY <1>5 DEF SetScheduler, progress
  <2>3. stopped' \in BOOLEAN
    BY <1>1, <2>2 DEF Control
  <2>4. Control'
    BY <1>1, <2>2, <2>3 DEF Control
  <2>5. GrantTaken'
    BY <1>1, <2>2, ControllerKept, GrantKept DEF GrantTaken
  <2> QED
    BY <2>1, <2>4, <2>5 DEF IInv
<1> QED
  BY <1>2, <1>3, <1>4, <1>5

LEMMA CallbackKeeps ==
  ASSUME ListenersSchedule, IInv,
         \/ \E delta \in Delays : ScheduleAfter(delta)
         \/ \E level \in RequestLevels : RequestInterrupt(level)
         \/ CallbackWaits \/ SchedulerMoves
  PROVE  IInv'
<1>1. UNCHANGED born /\ UNCHANGED <<stopped, mask>> /\ UNCHANGED progress
  BY DEF ScheduleAfter, RequestInterrupt, CallbackWaits, SchedulerMoves
<1>2. Control /\ GrantTaken /\ TimeInv
  BY DEF IInv
<1>3. Control'
  <2>1. stopped' \in BOOLEAN
    BY <1>1, <1>2 DEF Control
  <2>2. UNCHANGED <<stopped, mask, ir, phase, call, before, target>>
    BY <1>1 DEF progress
  <2> QED
    BY <1>2, <2>1, <2>2 DEF Control
<1>4. ASSUME UNCHANGED interrupts PROVE GrantTaken'
  BY <1>1, <1>2, <1>4, ControllerKept, GrantKept DEF GrantTaken, progress
<1>5. CASE \E delta \in Delays : ScheduleAfter(delta)
  <2>1. PICK delta \in Delays : /\ S!Schedule(now + delta) /\ UNCHANGED interrupts
                                /\ UNCHANGED <<cycles, drift, lost>>
    BY <1>5 DEF ScheduleAfter
  <2>2. now + delta >= now
    BY <1>2, CyclesAssumption, TimeTypes
  <2>3. TimeInv'
    BY <1>1, <1>2, <2>1, <2>2, TimeScheduled
  <2> QED
    BY <1>3, <1>4, <2>1, <2>3 DEF IInv
<1>6. CASE \E level \in RequestLevels : RequestInterrupt(level)
  <2>1. PICK level \in RequestLevels : /\ IC!Accept(level, NoVector) /\ UNCHANGED scheduler
                                       /\ UNCHANGED <<cycles, drift, lost>>
    BY <1>6 DEF RequestInterrupt
  <2>2. TimeInv'
    BY <1>1, <1>2, <2>1, TimeKept
  <2>3. IC!TypeOK' /\ grant' = grant
    BY <1>2, <2>1, AcceptType DEF GrantTaken
  <2>4. GrantTaken'
    BY <1>1, <1>2, <2>3, GrantKept DEF progress
  <2> QED
    BY <1>3, <2>2, <2>4 DEF IInv
<1>7. CASE SchedulerMoves
  <2>1. S!Dispatch /\ UNCHANGED interrupts /\ UNCHANGED <<cycles, drift, lost>>
    BY <1>7 DEF SchedulerMoves
  <2>2. TimeInv'
    BY <1>1, <1>2, <2>1, TimeDispatched
  <2> QED
    BY <1>3, <1>4, <2>1, <2>2 DEF IInv
<1>8. CASE CallbackWaits
  <2>1. PICK n \in Nat : AddCycles(n) /\ n # 0
    BY <1>8, CyclesAssumption DEF CallbackWaits
  <2>2. InCallback /\ UNCHANGED interrupts
    BY <1>8 DEF CallbackWaits
  <2>3. Sched!InEvent
    <3>1. Sched!Advance(n)
      BY <2>1, AdvanceSame DEF AddCycles
    <3>2. Sched!InHost \/ Sched!InEvent
      BY <3>1, Sched!CallerIs, SchedulerAssumption
         DEF Sched!Advance, ListenersSchedule, Sched!ListenersSchedule, S!Calls, Sched!Calls
    <3>3. ~Sched!InHost
      BY <2>2 DEF InCallback, S!InEvent, S!InListener, S!At, Sched!InHost
    <3> QED
      BY <3>2, <3>3
  <2>4. TimeInv'
    BY <1>1, <1>2, <2>1, <2>3, TimeAdded
  <2> QED
    BY <1>3, <1>4, <2>2, <2>4 DEF IInv
<1> QED
  BY <1>5, <1>6, <1>7, <1>8

LEMMA InvInit == Init => IInv
<1> SUFFICES ASSUME Init PROVE IInv
  OBVIOUS
<1>1. stopped \in BOOLEAN
  BY DEF Init
<1>2. Control
  BY <1>1 DEF Init, Control, Phases, Masks
<1>3. GrantTaken
  BY DEF Init, GrantTaken, IC!Init, IC!TypeOK, IC!Levels, IC!NoGrant
<1> QED
  BY <1>2, <1>3, TimeInit DEF IInv

LEMMA InvNext == ListenersSchedule /\ IInv /\ [Next]_vars => IInv'
<1> SUFFICES ASSUME ListenersSchedule, IInv, [Next]_vars PROVE IInv'
  OBVIOUS
<1>1. cycles \in Int
  BY DEF IInv, TimeInv
<1>2. CASE CallStep
  <2>1. target' \in Int
    BY <1>2 DEF CallStep, IInv, Control
  <2> QED
    BY <1>2, <2>1, CallControl DEF CallStep
<1>3. CASE \E budget \in Budgets : CallRunCycles(budget)
  <2>1. target' \in Int
    BY <1>1, <1>3, CyclesAssumption DEF CallRunCycles
  <2> QED
    BY <1>3, <2>1, CallControl DEF CallRunCycles
<1>4. CASE CpuMoves
  <2>1. CASE WakeUp \/ CheckTakes
    BY <2>1, TakeInterruptKeeps DEF WakeUp, CheckTakes
  <2> QED
    BY <1>4, <2>1, RunControlKeeps, ConsumingKeeps, HandlerKeeps, ExceptionKeeps, AcceptKeeps
       DEF CpuMoves
<1>5. CASE ResetBegin \/ ResetFails \/ ResetEnd \/ SetScheduler
  BY <1>5, ResetStepKeeps
<1>6. CASE \/ \E delta \in Delays : ScheduleAfter(delta)
           \/ \E level \in RequestLevels : RequestInterrupt(level)
           \/ CallbackWaits \/ SchedulerMoves
  BY <1>6, CallbackKeeps
<1>7. CASE UNCHANGED vars
  <2>1. UNCHANGED <<stopped, mask, ir, phase, call, before, target, cycles, drift, lost, born>>
    BY <1>7 DEF vars, progress
  <2>2. stopped' \in BOOLEAN
    BY <2>1 DEF IInv, Control
  <2>3. Control'
    BY <2>1, <2>2 DEF IInv, Control
  <2> QED
    BY <1>7, <2>1, <2>3, QuietKeeps DEF vars
<1> QED
  BY <1>2, <1>3, <1>4, <1>5, <1>6, <1>7 DEF Next

-----------------------------------------------------------------------------
\* The events of an old life.

LEMMA FiresStep ==
  ASSUME Next
  PROVE  \/ fires' = fires
         \/ \E at : S!Schedule(at)
         \/ S!Dispatch
<1>1. ASSUME NEW n, AddCycles(n) PROVE fires' = fires
  BY <1>1 DEF AddCycles, scheduler, S!Advance
<1>2. ASSUME NEW next, TakeInterrupt(next) PROVE fires' = fires
  BY <1>1, <1>2 DEF TakeInterrupt
<1>3. ASSUME NEW totals, OverrideInstructionCycles(totals) PROVE fires' = fires
  BY <1>3 DEF OverrideInstructionCycles, scheduler
<1>4. ASSUME NEW t, S!Reset(t) PROVE fires' = fires
  BY <1>4 DEF S!Reset
<1>5. ASSUME UNCHANGED scheduler PROVE fires' = fires
  BY <1>5 DEF scheduler
<1>6. CASE CpuMoves
  <2>1. CASE RunIdles \/ WakeUp \/ Fetch \/ FetchFault \/ BusWaits \/ CheckTakes
    BY <1>1, <1>2, <2>1 DEF RunIdles, WakeUp, Fetch, FetchFault, BusWaits, CheckTakes
  <2>2. CASE Raise \/ OperandFault \/ RaiseFaults
    BY <1>3, <2>2 DEF Raise, OperandFault, RaiseFaults
  <2>3. CASE \/ Return \/ Round \/ Done \/ StepIdles \/ FetchFaultStacks
             \/ Plain \/ SetMask \/ Stop \/ CheckNothing \/ Accept
    BY <1>5, <2>3 DEF Return, Round, Done, StepIdles, FetchFaultStacks, Plain, SetMask, Stop,
                      CheckNothing, Accept
  <2> QED
    BY <1>6, <2>1, <2>2, <2>3 DEF CpuMoves
<1>7. CASE CallStep \/ (\E budget \in Budgets : CallRunCycles(budget)) \/ ResetFails
  BY <1>5, <1>7 DEF CallStep, CallRunCycles, ResetFails
<1>8. CASE ResetBegin
  BY <1>1, <1>8 DEF ResetBegin
<1>9. CASE ResetEnd \/ SetScheduler
  BY <1>4, <1>9 DEF ResetEnd, SetScheduler
<1>10. CASE \E delta \in Delays : ScheduleAfter(delta)
  BY <1>10 DEF ScheduleAfter
<1>11. CASE \E level \in RequestLevels : RequestInterrupt(level)
  BY <1>5, <1>11 DEF RequestInterrupt
<1>12. CASE SchedulerMoves
  BY <1>12 DEF SchedulerMoves
<1>13. CASE CallbackWaits
  BY <1>1, <1>13 DEF CallbackWaits
<1> QED
  BY <1>6, <1>7, <1>8, <1>9, <1>10, <1>11, <1>12, <1>13 DEF Next

LEMMA OldTimersStep ==
  ASSUME IInv, [Next]_vars, NEW id \in DOMAIN fires, fires'[id] > fires[id]
  PROVE  id > born
<1>1. fires \in Seq(Nat) /\ fires[id] \in Nat /\ Len(fires) = Len(due)
  BY TimeTypes DEF IInv, Sched!TypeOK
<1>2. fires' # fires
  BY <1>1
<1>3. CASE \E at : S!Schedule(at)
  <2>1. fires' = Append(fires, 0)
    BY <1>3 DEF S!Schedule
  <2>2. fires'[id] = fires[id]
    BY <1>1, <2>1
  <2> QED
    BY <1>1, <2>2
<1>4. CASE S!Dispatch
  <2>1. Sched!Dispatch /\ Sched!IInv
    BY <1>4, DispatchSame DEF IInv, TimeInv
  <2>2. PICK e \in Sched!Pending : fires' = [fires EXCEPT ![e.id] = @ + 1]
    BY <1>2, <2>1, Sched!DispatchFires, SchedulerAssumption DEF S!Calls, Sched!Calls
  <2>3. e.id = id
    BY <1>1, <2>2
  <2> QED
    BY <2>2, <2>3 DEF IInv, TimeInv, WaitingBorn
<1>5. CASE UNCHANGED vars
  BY <1>2, <1>5 DEF vars, scheduler
<1> QED
  BY <1>2, <1>3, <1>4, <1>5, FiresStep

-----------------------------------------------------------------------------
\* The theorems.

(* When listeners consume no cycles, the inductive invariant of the clocks *)
(* holds.                                                                  *)
LEMMA Invariant == ASSUME ListenersSchedule PROVE Spec => []IInv
<1>1. IInv /\ [Next]_vars => IInv'
  BY InvNext
<1> QED
  BY <1>1, InvInit, PTL DEF Spec

(* Of every program: the state of Step, RunCycles and Reset is one the     *)
(* code can name, the scheduler's index stays inside its slice, and an     *)
(* interrupt that is stacked was granted.                                  *)
THEOREM TypeCorrect == ASSUME ListenersSchedule PROVE Spec => []TypeOK
<1>1. Spec => []IInv
  BY Invariant
<1> QED
  BY <1>1, TypesFollow, PTL

(* At every moment the counter of the CPU is the time the scheduler gets   *)
(* to, apart by the corrections of overrideInstructionCycles and by what   *)
(* event callbacks consumed inside time that was given already, however    *)
(* many events run in an addCycles and however deep they nest.  Callbacks  *)
(* that Reset the CPU are not among those of the module.                   *)
THEOREM CountersCorrect == ASSUME ListenersSchedule PROVE Spec => []CountersReconcile
<1>1. IInv => CountersReconcile
  <2>1. SUFFICES ASSUME IInv PROVE CountersReconcile
    OBVIOUS
  <2>2. Horizon = Goal /\ cycles \in Int /\ drift \in Int /\ lost \in Nat
    BY <2>1, HorizonIs DEF IInv, TimeInv
  <2>3. cycles = cycles - (drift + lost) + drift + lost
    BY <2>2
  <2> QED
    BY <2>2, <2>3 DEF CountersReconcile, Goal
<1>2. Spec => []IInv
  BY Invariant
<1> QED
  BY <1>1, <1>2, PTL

(* No event scheduled before the last Reset fires after it.                *)
THEOREM OldTimersCorrect == ASSUME ListenersSchedule PROVE Spec => OldTimersSilent
<1>1. IInv /\ [Next]_vars =>
        [\A id \in DOMAIN fires : fires'[id] > fires[id] => id > born]_vars
  BY OldTimersStep
<1>2. Spec => []IInv
  BY Invariant
<1> QED
  BY <1>1, <1>2, PTL DEF Spec, OldTimersSilent
=============================================================================
