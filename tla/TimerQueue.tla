----------------------------- MODULE TimerQueue -----------------------------
(***************************************************************************)
(* What the cycle scheduler promises: a clock and a set of timers.  The    *)
(* clock never passes a timer that has not fired, and timers fire in order *)
(* of time and, for the same time, of scheduling.                          *)
(***************************************************************************)
EXTENDS Naturals, Sequences

CONSTANT Times  \* the times a timer may be set for

VARIABLES
  now,      \* the clock
  pending,  \* the set of timers [At, id] that have not fired
  due,      \* when each timer ever set has to fire
  fires     \* how often each timer has fired

vars == <<now, pending, due, fires>>

Init == now = 0 /\ pending = {} /\ due = <<>> /\ fires = <<>>

Precedes(e, f) == e.At < f.At \/ (e.At = f.At /\ e.id <= f.id)

\* Once set, a timer for the past is due now.
Set(at) ==
  /\ pending' = pending \cup {[At |-> at, id |-> Len(due) + 1]}
  /\ due' = Append(due, IF at < now THEN now ELSE at)
  /\ fires' = Append(fires, 0)
  /\ UNCHANGED now

Elapse(time) ==
  /\ time > now
  /\ \A e \in pending : time <= e.At
  /\ now' = time
  /\ UNCHANGED <<pending, due, fires>>

Fire ==
  \E e \in pending :
    /\ due[e.id] = now
    /\ \A f \in pending : Precedes(e, f)
    /\ pending' = pending \ {e}
    /\ fires' = [fires EXCEPT ![e.id] = 1]
    /\ fires[e.id] = 0
    /\ UNCHANGED <<now, due>>

Clear(time) ==
  /\ pending' = {}
  /\ now' = time
  /\ UNCHANGED <<due, fires>>

Next == Fire \/ \E time \in Times : Set(time) \/ Elapse(time) \/ Clear(time)

Spec == Init /\ [][Next]_vars
=============================================================================
