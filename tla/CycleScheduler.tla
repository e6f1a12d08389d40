--------------------------- MODULE CycleScheduler ---------------------------
(***************************************************************************)
(* The cycle scheduler of scheduler.go.  The CPU calls Advance with every  *)
(* cycle it consumes; Advance runs listeners and scheduled events in the   *)
(* middle of its loop, and both may call back into the scheduler: an event *)
(* re-arms itself with Schedule, a device that reads a wait-state bus      *)
(* makes the CPU's wait hook call Advance again, a watchdog resets the     *)
(* CPU and with it the scheduler.  Every call of Advance is therefore a    *)
(* frame on a stack, and one step is the code between two callbacks.       *)
(*                                                                         *)
(* What callbacks do is a parameter: ListenerMay and EventMay.             *)
(***************************************************************************)
EXTENDS Naturals, SequencesExt, FiniteSetsExt

CONSTANTS
  NumListeners,  \* how many listeners AddListener attached
  ListenerMay,   \* what a listener may call, a set of Calls
  EventMay,      \* what an event callback may call, a set of Calls
  MaxTime,       \* bound: the largest time scheduled or reached
  MaxEvents,     \* bound: events scheduled in a behaviour
  MaxDepth       \* bound: nested calls of Advance

(* "past" is Schedule with a time already passed, "schedule" any other.    *)
Calls == {"schedule", "past", "advance", "reset"}

ASSUME NumListenersAssumption == NumListeners \in Nat
ASSUME CallsAssumption == ListenerMay \subseteq Calls /\ EventMay \subseteq Calls
ASSUME BoundsAssumption == MaxTime \in Nat /\ MaxEvents \in Nat /\ MaxDepth \in Nat

VARIABLES
  now,        \* the scheduler's clock
  events,     \* the slice of scheduled events, fired ones included until compaction
  eventHead,  \* how many events at the front of the slice have been passed
  stack,      \* the active calls of Advance, the innermost last
  crashed,    \* a slice expression of the code panicked
  due,        \* ghost: due[id] is when event id has to fire
  fires,      \* ghost: fires[id] is how often event id has fired
  clock       \* ghost: clock[l] is the time listener l was told of

vars == <<now, events, eventHead, stack, crashed, due, fires, clock>>

Times == 0 .. MaxTime
Listeners == 1 .. NumListeners
Event == [At : Nat, id : Nat]
NoEvent == [At |-> 0, id |-> 0]

(* A frame of Advance: its target, where it is, the event it peeked and,   *)
(* while advanceTo runs, how many listeners were called with which delta.  *)
(*   loop      at the condition of the for loop                            *)
(*   approach  in advanceTo(event.At)                                      *)
(*   fire      in event.Fn                                                 *)
(*   finish    in advanceTo(target)                                        *)
Frame == [target : Nat, at : {"loop", "approach", "fire", "finish"},
          event : Event, called : 0 .. NumListeners, delta : Nat]

(* Types; the index stays inside the slice, so that compaction never      *)
(* panics.                                                                 *)
TypeOK ==
  /\ now \in Times
  /\ events \in Seq(Event)
  /\ eventHead \in 0 .. Len(events)
  /\ stack \in Seq(Frame)
  /\ crashed \in BOOLEAN
  /\ due \in Seq(Nat)
  /\ fires \in Seq(Nat) /\ Len(fires) = Len(due)
  /\ clock \in [Listeners -> Nat]

Init ==
  /\ now = 0
  /\ events = <<>>
  /\ eventHead = 0
  /\ stack = <<>>
  /\ crashed = FALSE
  /\ due = <<>>
  /\ fires = <<>>
  /\ clock = [l \in Listeners |-> 0]

-----------------------------------------------------------------------------
\* Who is running.

Top == stack[Len(stack)]
SetTop(frame) == [stack EXCEPT ![Len(stack)] = frame]

At(place) == ~crashed /\ stack # <<>> /\ Top.at = place
InListener == (At("approach") \/ At("finish")) /\ Top.called > 0
InEvent == At("fire")
InHost == ~crashed /\ stack = <<>>

\* The code now running outside the scheduler may make this call into it.
May(call) == InHost \/ (InListener /\ call \in ListenerMay) \/ (InEvent /\ call \in EventMay)

-----------------------------------------------------------------------------
\* Calls into the scheduler.

\* A mutant of Slot: before events of the same time.
SlotBeforeEquals(at) == Max({i \in 0 .. Len(events) : i <= eventHead \/ events[i].At < at})

\* A new event goes behind the last event that is not later; what has been
\* passed stays in front of it.
Slot(at) == Max({i \in 0 .. Len(events) : i <= eventHead \/ events[i].At <= at})

Schedule(at) ==
  /\ at \in Times
  /\ Len(due) < MaxEvents
  /\ May(IF at < now THEN "past" ELSE "schedule")
  /\ events' = InsertAt(events, Slot(at) + 1, [At |-> at, id |-> Len(due) + 1])
  /\ due' = Append(due, IF at < now THEN now ELSE at)
  /\ fires' = Append(fires, 0)
  /\ UNCHANGED <<now, eventHead, stack, crashed, clock>>

\* Advance(0) returns at once and is left out.
Advance(delta) ==
  /\ delta > 0
  /\ now + delta \in Times
  /\ Len(stack) < MaxDepth
  /\ May("advance")
  /\ stack' = Append(stack, [target |-> now + delta, at |-> "loop", event |-> NoEvent,
                             called |-> 0, delta |-> 0])
  /\ UNCHANGED <<now, events, eventHead, crashed, due, fires, clock>>

\* A mutant of Reset: the slice of events is kept.
ResetKeepingEvents(t) ==
  /\ t \in Times
  /\ May("reset")
  /\ now' = t
  /\ eventHead' = 0
  /\ clock' = [l \in Listeners |-> t]
  /\ UNCHANGED <<events, stack, crashed, due, fires>>

\* Reset(t) drops the events; listeners keep their own time from here on.
Reset(t) ==
  /\ t \in Times
  /\ May("reset")
  /\ now' = t
  /\ events' = <<>>
  /\ eventHead' = 0
  /\ clock' = [l \in Listeners |-> t]
  /\ UNCHANGED <<stack, crashed, due, fires>>

-----------------------------------------------------------------------------
\* The steps of the innermost Advance.

LoopCondition == eventHead < Len(events) /\ events[eventHead + 1].At <= Top.target

\* A mutant of AdvanceTo: the delta is computed after the clock moved.
AdvanceToFirst(time, place, event) ==
  /\ now' = time
  /\ stack' = SetTop([Top EXCEPT !.at = place, !.event = event, !.called = 0, !.delta = 0])
  /\ UNCHANGED <<events, eventHead, crashed, due, fires, clock>>

\* advanceTo: the clock moves before the first listener is called.
AdvanceTo(time, place, event) ==
  /\ now' = time
  /\ stack' = SetTop([Top EXCEPT !.at = place, !.event = event,
                                 !.called = 0, !.delta = time - now])
  /\ UNCHANGED <<events, eventHead, crashed, due, fires, clock>>

\* A mutant of Fire: the head is not advanced past the event.
FireKeepingHead(event) ==
  /\ fires' = [fires EXCEPT ![event.id] = @ + 1]
  /\ stack' = SetTop([Top EXCEPT !.at = "fire", !.event = event, !.called = 0, !.delta = 0])
  /\ UNCHANGED <<now, events, eventHead, crashed, due, clock>>

\* s.eventHead++; event.Fn(s.now)
Fire(event) ==
  /\ eventHead' = eventHead + 1
  /\ fires' = [fires EXCEPT ![event.id] = @ + 1]
  /\ stack' = SetTop([Top EXCEPT !.at = "fire", !.event = event, !.called = 0, !.delta = 0])
  /\ UNCHANGED <<now, events, crashed, due, clock>>

\* The loop finds an event later than the clock.
Approach ==
  /\ At("loop") /\ LoopCondition
  /\ LET event == events[eventHead + 1]
     IN  event.At > now /\ AdvanceTo(event.At, "approach", event)

\* The loop finds an event that is already due.
FireOverdue ==
  /\ At("loop") /\ LoopCondition
  /\ LET event == events[eventHead + 1]
     IN  event.At <= now /\ Fire(event)

\* advanceTo calls the next listener with the delta computed before the first.
CallListener ==
  /\ At("approach") \/ At("finish")
  /\ Top.called < NumListeners
  /\ stack' = SetTop([Top EXCEPT !.called = @ + 1])
  /\ clock' = [clock EXCEPT ![Top.called + 1] = @ + Top.delta]
  /\ UNCHANGED <<now, events, eventHead, crashed, due, fires>>

\* The last listener returned: fire the event that was peeked.
FireApproached ==
  /\ At("approach") /\ Top.called = NumListeners
  /\ Fire(Top.event)

EventReturns ==
  /\ At("fire")
  /\ stack' = SetTop([Top EXCEPT !.at = "loop", !.event = NoEvent])
  /\ UNCHANGED <<now, events, eventHead, crashed, due, fires, clock>>

\* No event up to the target is left: move the clock to the target.
Finish ==
  /\ At("loop") /\ ~LoopCondition
  /\ now < Top.target
  /\ AdvanceTo(Top.target, "finish", NoEvent)

\* A mutant of CompactEvents: the head is not reset.
CompactKeepingHead ==
  \/ eventHead = 0 /\ UNCHANGED <<events, eventHead, crashed>>
  \/ /\ eventHead # 0
     /\ eventHead <= Len(events)
     /\ events' = SubSeq(events, eventHead + 1, Len(events))
     /\ UNCHANGED <<eventHead, crashed>>

\* compactEvents.
CompactEvents ==
  \/ /\ eventHead = 0 \/ (eventHead # Len(events) /\ eventHead < Len(events) \div 2)
     /\ UNCHANGED <<events, eventHead, crashed>>
  \/ /\ eventHead # 0
     /\ eventHead <= Len(events)
     /\ eventHead >= Len(events) \div 2
     /\ events' = SubSeq(events, eventHead + 1, Len(events))
     /\ eventHead' = 0
     /\ UNCHANGED crashed
  \/ /\ eventHead > Len(events)  \* s.events[s.eventHead:] panics
     /\ crashed' = TRUE
     /\ UNCHANGED <<events, eventHead>>

Return ==
  /\ \/ At("finish") /\ Top.called = NumListeners
     \/ At("loop") /\ ~LoopCondition /\ now >= Top.target
  /\ CompactEvents
  /\ stack' = SubSeq(stack, 1, Len(stack) - 1)
  /\ UNCHANGED <<now, due, fires, clock>>

Dispatch ==
  \/ Approach
  \/ FireOverdue
  \/ CallListener
  \/ FireApproached
  \/ EventReturns
  \/ Finish
  \/ Return

Next ==
  \/ \E at \in Times : Schedule(at)
  \/ \E delta \in Times : Advance(delta)
  \/ \E t \in Times : Reset(t)
  \/ Dispatch

Spec == Init /\ [][Next]_vars

-----------------------------------------------------------------------------
\* Properties.

Waiting == SubSeq(events, eventHead + 1, Len(events))
ListenersDone == \A i \in DOMAIN stack : stack[i].at \notin {"approach", "finish"}

(* Events that have not been passed wait in the order in which they must   *)
(* fire: by time, and events of the same time in the order of scheduling,  *)
(* whatever callbacks insert in the middle of an Advance.                  *)
WaitingInOrder ==
  \A i, j \in DOMAIN Waiting : i < j =>
    \/ Waiting[i].At < Waiting[j].At
    \/ Waiting[i].At = Waiting[j].At /\ Waiting[i].id < Waiting[j].id

(* No event fires twice, although the loop keeps a peeked copy of it while *)
(* listeners run and the slice may be compacted by a nested Advance.       *)
FiresOnce == \A id \in DOMAIN fires : fires[id] <= 1

(* When no listener is being called, every listener has been told of all   *)
(* the time that has passed: deltas are neither lost nor told twice.       *)
ListenersInStep == ListenersDone => \A l \in Listeners : clock[l] = now

(* The loop over a slice with a head index, insertion and compaction       *)
(* implements a plain set of timers: time never passes a waiting event,    *)
(* and an event fires at its time, or at once when it was scheduled for    *)
(* the past.                                                               *)
Timers == INSTANCE TimerQueue WITH pending <- {Waiting[i] : i \in DOMAIN Waiting}
ImplementsTimerQueue == Timers!Spec
=============================================================================
