------------------------------- MODULE Debugger -------------------------------
(***************************************************************************)
(* What the CPU records of a Step for the debugger, and RunUntil, which    *)
(* steps until a record meets one of its conditions (cpu.go).              *)
(*                                                                         *)
(* A Step is cut wherever a callback may run (tracers, devices, the wait   *)
(* hook), because callbacks may attach and detach tracers and resize the   *)
(* history in the middle of it.  What the instruction does is arbitrary:   *)
(* any accesses, at most one exception, then perhaps an interrupt.         *)
(*                                                                         *)
(* Abstractions.  An exception is "illegal" (the vectors of                *)
(* isIllegalException) or "other"; an access is a fetch, a read or a       *)
(* write; the predicate of the host looks at whether the step had events   *)
(* of certain kinds.  A fetched byte is the number of the Step it was      *)
(* fetched in, an entry of the history the number of its event.  RunUntil  *)
(* and Reset are not called from callbacks.                                *)
(***************************************************************************)
EXTENDS Naturals, FiniteSets, Sequences, SequencesExt

CONSTANTS
  PCs,        \* the values of the program counter that conditions tell apart
  Options,    \* the RunUntilOptions the host uses
  Limits,     \* the limits SetHistoryLimit may set; 0 turns the history off
  MaxSteps,   \* bound: Steps are numbered modulo it, and fewer are idle in a run
  MaxEvents   \* bound: fetches, accesses and faults begin while there are fewer events

Accesses == {"fetch", "read", "write"}
Exceptions == {"illegal", "other"}
Kinds == {"exception", "interrupt", "access"}

(* No predicate is {}, no watched access is {}, no range to stop in is {}, *)
(* no range to stay in is PCs, no limit is 0.                              *)
RunUntilOptions ==
  [max : Nat, predicate : SUBSET Kinds, at : SUBSET PCs, watched : SUBSET Accesses,
   illegal : BOOLEAN, exception : BOOLEAN, inside : SUBSET PCs, within : SUBSET PCs]

(* The zero value: nothing to stop for.                                    *)
NoOptions == [max |-> 0, predicate |-> {}, at |-> {}, watched |-> {},
              illegal |-> FALSE, exception |-> FALSE, inside |-> {}, within |-> PCs]

ASSUME OptionsAssumption == Options \subseteq RunUntilOptions
ASSUME LimitsAssumption == Limits \subseteq Nat /\ 0 \in Limits
ASSUME BoundsAssumption == MaxSteps \in Nat \ {0} /\ MaxEvents \in Nat

VARIABLES
  trap, busTrap,                   \* whether the host has attached these tracers
  collectStepBus,                  \* whether RunUntil wants the accesses of a step
  traceInstructions, traceBus,     \* cached: whether there is anything to trace for
  history, historyNext, historyCount,  \* the ring of module History
  stepException,                   \* the last exception recorded, "none" if none is valid
  stepInterrupt,                   \* whether an interrupt is recorded
  stepBusAccesses, traceBytes,     \* the accesses and the fetched bytes recorded
  pc,
  phase,                           \* the position inside Step
  run,                             \* the call of RunUntil in progress, and its options
  result,                          \* what it returns, until the host calls Step again
  step, events,                    \* ghosts: the number of the Step, the events since Reset
  occurred                         \* ghost: what really happened in the current Step

tracers == <<trap, busTrap, collectStepBus, traceInstructions, traceBus>>
ring == <<history, historyNext, historyCount>>
records == <<stepException, stepInterrupt, stepBusAccesses, traceBytes>>
runs == <<run, result>>
vars == <<tracers, ring, records, pc, phase, runs, step, events, occurred>>

H == INSTANCE History

Nothing == [exception |-> "none", interrupt |-> FALSE, accesses |-> <<>>, traced |-> FALSE]
NoRun == [active |-> FALSE, options |-> NoOptions]
NoResult == [reason |-> "none", instructions |-> 0,
             exception |-> "none", access |-> "none", interrupt |-> FALSE]

-----------------------------------------------------------------------------
(* The flags that say what to record.                                      *)

\* A mutant of RefreshDebugModes: the accesses RunUntil asked for are forgotten.
RefreshDebugModesForTracers ==
  /\ traceInstructions' = (trap' \/ history' # <<>>)
  /\ traceBus' = (busTrap' \/ history' # <<>>)

RefreshDebugModes ==
  /\ traceInstructions' = (trap' \/ history' # <<>>)
  /\ traceBus' = (busTrap' \/ history' # <<>> \/ collectStepBus')

(* The host calls in between calls of Step, or from a callback.            *)
HostMayCall == phase # "idle" \/ ~run.active

(* A step is traced if fetches were recorded from its beginning.           *)
StillTraced ==
  occurred' = [occurred EXCEPT !.traced = @ /\ (traceInstructions' \/ traceBus')]

SetTracer ==
  /\ HostMayCall
  /\ trap' = ~trap
  /\ UNCHANGED <<busTrap, collectStepBus, ring>>
  /\ RefreshDebugModes /\ StillTraced
  /\ UNCHANGED <<records, pc, phase, runs, step, events>>

SetBusTracer ==
  /\ HostMayCall
  /\ busTrap' = ~busTrap
  /\ UNCHANGED <<trap, collectStepBus, ring>>
  /\ RefreshDebugModes /\ StillTraced
  /\ UNCHANGED <<records, pc, phase, runs, step, events>>

SetHistoryLimit(limit) ==
  /\ HostMayCall
  /\ H!SetHistoryLimit(limit)
  /\ UNCHANGED <<trap, busTrap, collectStepBus>>
  /\ RefreshDebugModes /\ StillTraced
  /\ UNCHANGED <<records, pc, phase, runs, step, events>>

-----------------------------------------------------------------------------
(* The reasons to stop.                                                    *)

Reasons == <<"predicate", "pc", "bus", "illegal", "exception", "inRange", "outsideRange">>

(* The conditions of the options that an exception, an interrupt, accesses *)
(* and the program counter meet.                                           *)
Met(options, exception, interrupt, accesses) ==
  {reason \in ToSet(Reasons) :
    CASE reason = "predicate" ->
           \/ "exception" \in options.predicate /\ exception # "none"
           \/ "interrupt" \in options.predicate /\ interrupt
           \/ "access" \in options.predicate /\ accesses # <<>>
      [] reason = "pc" -> pc \in options.at
      [] reason = "bus" -> ToSet(accesses) \cap options.watched # {}
      [] reason = "illegal" -> options.illegal /\ exception = "illegal"
      [] reason = "exception" -> options.exception /\ exception # "none"
      [] reason = "inRange" -> pc \in options.inside
      [] reason = "outsideRange" -> pc \notin options.within}

(* The condition that is looked at first.                                  *)
FirstOf(met) == Reasons[Min({i \in DOMAIN Reasons : Reasons[i] \in met})]

RunStopReason(options) ==
  LET met == Met(options, stepException, stepInterrupt, stepBusAccesses)
  IN  IF met = {} THEN "none" ELSE FirstOf(met)

MatchBusAccess(options, accesses) ==
  LET matching == {i \in DOMAIN accesses : accesses[i] \in options.watched}
  IN  IF matching = {} THEN "none" ELSE accesses[Min(matching)]

-----------------------------------------------------------------------------
(* RunUntil.                                                               *)

Collects(options) == options.watched # {} \/ options.predicate # {}

(* The deferred function of RunUntil, on each of its returns.              *)
EndRun ==
  /\ run' = NoRun
  /\ collectStepBus' = FALSE
  /\ UNCHANGED <<trap, busTrap, ring>>
  /\ RefreshDebugModes

(* The conditions are looked at before the first Step, and may end the run.*)
StartRun(options) ==
  LET reason == RunStopReason(options)
  IN  /\ phase = "idle" /\ ~run.active
      /\ run' = IF reason = "none" THEN [active |-> TRUE, options |-> options] ELSE NoRun
      /\ result' = [NoResult EXCEPT
                      !.reason = reason,
                      !.access = IF reason = "bus"
                                 THEN MatchBusAccess(options, stepBusAccesses) ELSE "none"]
      /\ collectStepBus' = (reason = "none" /\ Collects(options))
      /\ UNCHANGED <<trap, busTrap, ring>>
      /\ RefreshDebugModes
      /\ UNCHANGED <<records, pc, phase, step, events, occurred>>

ReachLimit ==
  /\ phase = "idle" /\ run.active
  /\ run.options.max > 0 /\ result.instructions >= run.options.max
  /\ result' = [result EXCEPT !.reason = "limit"]
  /\ EndRun
  /\ UNCHANGED <<records, pc, phase, step, events, occurred>>

(* Step has returned nil: its records go to the result and the conditions  *)
(* are looked at.                                                          *)
EndStep ==
  /\ phase = "return"
  /\ phase' = "idle"
  /\ IF ~run.active THEN UNCHANGED <<runs, tracers>>
     ELSE LET reason == RunStopReason(run.options)
              access == MatchBusAccess(run.options, stepBusAccesses)
          IN  /\ result' =
                   [reason |-> reason,
                    instructions |-> result.instructions + 1,
                    exception |-> IF stepException # "none" THEN stepException
                                  ELSE result.exception,
                    access |-> IF access # "none" THEN access ELSE result.access,
                    interrupt |-> result.interrupt \/ stepInterrupt]
              /\ IF reason = "none" THEN UNCHANGED <<run, tracers>> ELSE EndRun
  /\ UNCHANGED <<ring, records, pc, step, events, occurred>>

-----------------------------------------------------------------------------
(* Step and what it records.                                               *)

Enter(from, to) == phase = from /\ phase' = to

(* An event happens and the history hears of it.                           *)
Event ==
  /\ events' = events + 1
  /\ H!AppendHistory(events')

Recorded ==
  stepException # "none" \/ stepInterrupt \/ stepBusAccesses # <<>> \/ traceBytes # <<>>

\* A mutant of ResetStepDebugState: fetched bytes pile up.
ResetStepDebugStateKeepingBytes ==
  /\ stepException' = "none" /\ stepInterrupt' = FALSE
  /\ stepBusAccesses' = <<>>
  /\ UNCHANGED traceBytes

ResetStepDebugState ==
  /\ stepException' = "none" /\ stepInterrupt' = FALSE
  /\ stepBusAccesses' = <<>> /\ traceBytes' = <<>>

BeginStep ==
  /\ run.active => run.options.max = 0 \/ result.instructions < run.options.max
  /\ Enter("idle", "begun")
  /\ step' = (step % MaxSteps) + 1
  /\ occurred' = [Nothing EXCEPT !.traced = traceInstructions \/ traceBus]
  /\ IF Recorded THEN ResetStepDebugState ELSE UNCHANGED records
  /\ result' = IF run.active THEN result ELSE NoResult
  /\ UNCHANGED <<tracers, ring, pc, run, events>>

(* shouldTraceBusAccess                                                    *)
Records(access) == traceBus \/ (access = "fetch" /\ traceInstructions)

(* A successful access.  The history is on only while traceBus is set.     *)
Access(access) ==
  /\ occurred' = [occurred EXCEPT !.accesses = Append(@, access)]
  /\ IF ~Records(access)
     THEN events' = events + 1 /\ UNCHANGED <<stepBusAccesses, traceBytes, ring>>
     ELSE /\ traceBytes' = IF access = "fetch" THEN Append(traceBytes, step) ELSE traceBytes
          /\ stepBusAccesses' =
               IF collectStepBus THEN Append(stepBusAccesses, access) ELSE stepBusAccesses
          /\ Event
  /\ UNCHANGED <<stepException, stepInterrupt>>

DispatchException(exception) ==
  /\ stepException' = exception
  /\ occurred' = [occurred EXCEPT !.exception = exception]
  /\ Event
  /\ UNCHANGED <<stepInterrupt, stepBusAccesses, traceBytes>>

DispatchInterrupt ==
  /\ stepInterrupt' = TRUE
  /\ occurred' = [occurred EXCEPT !.interrupt = TRUE]
  /\ Event
  /\ UNCHANGED <<stepException, stepBusAccesses, traceBytes>>

(* An instruction, the stacking of an exception or the fetch of a vector   *)
(* accesses memory.                                                        *)
AccessMemory(access) ==
  /\ phase \in {"execute", "fault", "waking", "stacking"}
  /\ phase # "execute" => access # "fetch"
  /\ events < MaxEvents
  /\ Access(access)
  /\ UNCHANGED <<tracers, pc, phase, runs, step>>

FetchOpcode ==
  /\ phase \in {"begun", "fetch"} /\ phase' = "execute"
  /\ events < MaxEvents
  /\ Access("fetch")
  /\ UNCHANGED <<tracers, pc, runs, step>>

(* The fetch of the opcode failed: nothing is recorded of it, an exception *)
(* is processed and the step ends without a trace.                         *)
FetchFault ==
  /\ phase \in {"begun", "fetch"} /\ phase' = "fault"
  /\ events < MaxEvents
  /\ UNCHANGED <<tracers, ring, records, pc, runs, step, events, occurred>>

EndFault ==
  /\ Enter("fault", "return")
  /\ DispatchException("other")
  /\ pc' \in PCs
  /\ UNCHANGED <<tracers, runs, step>>

(* A stopped CPU: no interrupt, or one that wakes it.                      *)
StayStopped ==
  /\ Enter("begun", "return")
  /\ result.instructions < MaxSteps
  /\ UNCHANGED <<tracers, ring, records, pc, runs, step, events, occurred>>

Wake ==
  /\ Enter("begun", "waking")
  /\ events < MaxEvents
  /\ UNCHANGED <<tracers, ring, records, pc, runs, step, events, occurred>>

(* The handler of the instruction returns, an exception processed or not.  *)
EndExecute ==
  /\ Enter("execute", "check")
  /\ \/ UNCHANGED <<ring, records, events, occurred>>
     \/ \E exception \in Exceptions : DispatchException(exception)
  /\ UNCHANGED <<tracers, pc, runs, step>>

AcceptInterrupt ==
  /\ Enter("check", "stacking")
  /\ UNCHANGED <<tracers, ring, records, pc, runs, step, events, occurred>>

NoInterrupt ==
  /\ Enter("check", "trace")
  /\ UNCHANGED <<tracers, ring, records, pc, runs, step, events, occurred>>

(* interrupt() dispatches an exception and then an interrupt.              *)
InterruptException ==
  /\ Enter("waking", "woken") \/ Enter("stacking", "accepted")
  /\ DispatchException("other")
  /\ UNCHANGED <<tracers, pc, runs, step>>

InterruptDispatched ==
  /\ Enter("woken", "fetch") \/ Enter("accepted", "trace")
  /\ DispatchInterrupt
  /\ UNCHANGED <<tracers, pc, runs, step>>

(* sendTrace, if there is something to trace for.                          *)
SendTrace ==
  /\ Enter("trace", "return")
  /\ IF traceInstructions THEN Event ELSE UNCHANGED <<ring, events>>
  /\ pc' \in PCs
  /\ UNCHANGED <<tracers, records, runs, step, occurred>>

\* A mutant of AbortStep: RunUntil does not clean up behind an error.
AbortStepUndeferred ==
  /\ phase' = "idle"
  /\ run' = NoRun
  /\ UNCHANGED <<tracers, ring, records, pc, result, step, events, occurred>>

(* Step returns an error and RunUntil returns it; the records stay.        *)
AbortStep ==
  /\ phase' = "idle"
  /\ IF run.active THEN EndRun ELSE UNCHANGED <<run, tracers, ring>>
  /\ UNCHANGED <<records, pc, result, step, events, occurred>>

(* A breakpoint at the program counter, before the opcode is fetched.      *)
ExecuteBreakpoint == phase \in {"begun", "fetch"} /\ AbortStep

(* An access is stopped by a breakpoint or, while stacking, by a fault.    *)
AccessAborts == phase \in {"execute", "fault", "waking", "stacking"} /\ AbortStep

Reset ==
  /\ phase = "idle" /\ ~run.active
  /\ ResetStepDebugState
  /\ H!Clear
  /\ pc' \in PCs
  /\ step' = 0 /\ events' = 0 /\ occurred' = Nothing
  /\ UNCHANGED <<trap, busTrap, collectStepBus>>
  /\ RefreshDebugModes
  /\ result' = NoResult
  /\ UNCHANGED <<phase, run>>

Init ==
  /\ trap = FALSE /\ busTrap = FALSE /\ collectStepBus = FALSE
  /\ traceInstructions = FALSE /\ traceBus = FALSE
  /\ H!Init
  /\ stepException = "none" /\ stepInterrupt = FALSE
  /\ stepBusAccesses = <<>> /\ traceBytes = <<>>
  /\ pc \in PCs
  /\ phase = "idle"
  /\ run = NoRun
  /\ result = NoResult
  /\ step = 0 /\ events = 0 /\ occurred = Nothing

Next ==
  \/ SetTracer \/ SetBusTracer
  \/ \E limit \in Limits : SetHistoryLimit(limit)
  \/ \E options \in Options : StartRun(options)
  \/ ReachLimit
  \/ BeginStep
  \/ FetchOpcode \/ FetchFault \/ EndFault
  \/ \E access \in Accesses : AccessMemory(access)
  \/ StayStopped \/ Wake
  \/ EndExecute
  \/ AcceptInterrupt \/ NoInterrupt \/ InterruptException \/ InterruptDispatched
  \/ SendTrace
  \/ EndStep
  \/ ExecuteBreakpoint \/ AccessAborts
  \/ Reset

Spec == Init /\ [][Next]_vars
-----------------------------------------------------------------------------
Phases == {"idle", "begun", "waking", "woken", "fetch", "fault", "execute", "check",
           "stacking", "accepted", "trace", "return"}

TypeOK ==
  /\ {trap, busTrap, collectStepBus, traceInstructions, traceBus, stepInterrupt} \subseteq BOOLEAN
  /\ H!WellFormed(1 .. (MaxEvents + 4))
  /\ stepException \in Exceptions \cup {"none"}
  /\ stepBusAccesses \in Seq(Accesses)
  /\ traceBytes \in Seq(1 .. MaxSteps)
  /\ pc \in PCs
  /\ phase \in Phases
  /\ run \in [active : BOOLEAN, options : RunUntilOptions]
  /\ result.reason \in ToSet(Reasons) \cup {"none", "limit"}
  /\ result.instructions \in 0 .. (MaxSteps + MaxEvents)
  /\ step \in 0 .. MaxSteps
  /\ events \in 0 .. (MaxEvents + 4)

(* Whatever tracers come and go in the middle of a step, and however a run *)
(* ends, the cached flags say what there is to record for, and accesses    *)
(* are collected for the run in progress and for no other.                 *)
FlagsFollowUse ==
  /\ traceInstructions = (trap \/ H!On)
  /\ traceBus = (busTrap \/ H!On \/ collectStepBus)
  /\ collectStepBus = (run.active /\ Collects(run.options))

RecentHistory ==
  INSTANCE RecentEvents WITH limit <- Len(history), recent <- H!Recent, last <- events

(* History returns the last events of every kind, in order and without a   *)
(* gap, up to its limit, wherever the ring wraps and whenever it is        *)
(* resized, cleared or switched on, in the middle of a step too.           *)
ImplementsRecentEvents == RecentHistory!Spec

(* A run that goes on after a step passed none of its conditions in it,    *)
(* and one that stops gives the reason that comes first among those the    *)
(* step met, with the access that met it: nothing of an earlier step is    *)
(* seen and nothing of this one missed.  Of two exceptions in one step the *)
(* later one counts.                                                       *)
StopsInTime ==
  [][LET met == Met(run.options, occurred.exception, occurred.interrupt, occurred.accesses)
     IN  phase = "return" /\ phase' = "idle" /\ run.active =>
           IF met = {} THEN run'.active
           ELSE /\ ~run'.active
                /\ result'.reason = FirstOf(met)
                /\ result'.reason = "bus" =>
                     result'.access = MatchBusAccess(run.options, occurred.accesses)]_vars

Fetches == {i \in DOMAIN occurred.accesses : occurred.accesses[i] = "fetch"}

(* The bytes a trace reports are those fetched in its own step, all of     *)
(* them if the step was traced from its beginning.                         *)
TraceShowsOwnBytes ==
  phase = "trace" =>
    /\ ToSet(traceBytes) \subseteq {step}
    /\ occurred.traced => Len(traceBytes) = Cardinality(Fetches)

(* A run that stops before its first step does so for where the program    *)
(* is, and not for the exception or the accesses of a step that an earlier *)
(* run already stopped for.                                                *)
StopReasonFresh ==
  result.instructions = 0 => result.reason \notin {"predicate", "bus", "illegal", "exception"}
=============================================================================
