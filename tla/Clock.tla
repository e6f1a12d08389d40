------------------------------- MODULE Clock -------------------------------
(***************************************************************************)
(* Time in the CPU of cpu.go: the cycle counter, Step and RunCycles, STOP, *)
(* Reset and SetScheduler, composed with the cycle scheduler and with the  *)
(* interrupt controller.  addCycles raises the counter and then hands the  *)
(* same cycles to the scheduler, whose events and listeners run before     *)
(* addCycles returns.  They schedule, request interrupts and, through the  *)
(* wait hook, consume cycles themselves, in an addCycles inside the first. *)
(* A Reset or SetScheduler called by a callback is not modelled here.      *)
(* overrideInstructionCycles corrects the counter alone.                   *)
(*                                                                         *)
(* An instruction is reduced to its entry in the cycle table and to what   *)
(* it does to the interrupt mask, to the stopped state and to the counter. *)
(* One unit of time stands for the shortest instruction, four cycles.      *)
(***************************************************************************)
EXTENDS Integers, Sequences

CONSTANTS
  Program,          \* the instructions fetched: any of them at any time
  Waits,            \* wait states a bus access may report
  StopTick,         \* what RunCycles consumes in a round of a stopped CPU
  InterruptCycles,  \* exceptionCyclesInterrupt
  GroupZeroCycles,  \* exceptionCyclesBusAddress
  Delays,           \* what callers of ScheduleAfter pass
  Budgets,          \* what callers of RunCycles pass
  MaxStep,          \* bound: the most time one Step takes
  MaxRun,           \* bound: the most time one RunCycles takes
  NumListeners, ListenerMay, EventMay, MaxTime, MaxEvents, MaxDepth,
  RequestLevels, Vectors, NoVector, MaxRequests

Masks == 0 .. 7
Effects == {"plain", "mask", "stop", "raise"}
Instruction == [cost : Nat, does : Effects, arg : Nat]
NoInstruction == [cost |-> 0, does |-> "plain", arg |-> 0]

ASSUME ProgramAssumption ==
  Program \subseteq Instruction /\ \A i \in Program : i.does \in {"mask", "stop"} => i.arg \in Masks
ASSUME CyclesAssumption ==
  /\ Waits \subseteq Nat \ {0} /\ Delays \subseteq Nat /\ Budgets \subseteq Nat
  /\ {StopTick, InterruptCycles, GroupZeroCycles} \subseteq Nat \ {0}
  /\ MaxStep \in Nat /\ MaxRun \in Nat

VARIABLES
  cycles,   \* the cycle counter of the CPU
  stopped,  \* set by STOP
  mask,     \* the interrupt mask of SR
  ir,       \* the instruction being executed, forgotten when its handler is done
  phase,    \* where the CPU is; "host" between calls
  call,     \* the call in progress
  before,   \* RunCycles: the counter at the start of this round, 0 outside
  target,   \* RunCycles: the counter at which it ends, 0 outside
  drift,    \* ghost: the sum of all corrections since the scheduler was set or reset
  lost,     \* ghost: cycles of callbacks inside time already given to the scheduler, since then
  born,     \* ghost: the number of events scheduled before the last Reset
  now, events, eventHead, stack, crashed, due, fires, clock,  \* the scheduler
  requests, maxLevel, grant, issued                           \* the interrupt controller

scheduler == <<now, events, eventHead, stack, crashed, due, fires, clock>>
interrupts == <<requests, maxLevel, grant, issued>>
progress == <<ir, phase, call, before, target>>
vars == <<cycles, stopped, mask, progress, drift, lost, born, scheduler, interrupts>>

S == INSTANCE CycleScheduler
IC == INSTANCE InterruptController

ASSUME SchedulerAssumption ==
  /\ NumListeners \in Nat /\ MaxTime \in Nat /\ MaxEvents \in Nat /\ MaxDepth \in Nat
  /\ ListenerMay \subseteq S!Calls /\ EventMay \subseteq S!Calls
ASSUME ControllerAssumption ==
  /\ RequestLevels \subseteq Nat /\ MaxRequests \in Nat
  /\ Vectors \subseteq 0 .. 255 /\ NoVector \notin Vectors

(* Types.  The counter has 64 bits and no sign: where the model has a      *)
(* number below zero, after two corrections in one of the first            *)
(* instructions, the code has wrapped around.                              *)
TypeOK ==
  /\ cycles \in Int
  /\ stopped \in BOOLEAN
  /\ mask \in Masks
  /\ ir \in Program \cup {NoInstruction}
  /\ phase \in {"host", "loop", "boundary", "fetch", "execute", "waited", "check",
                "accept", "wake", "fault", "done", "reset"}
  /\ call \in {"none", "step", "run", "reset"} /\ (call = "none" <=> phase = "host")
  /\ before \in Int /\ target \in Int
  /\ drift \in Int /\ lost \in Nat
  /\ born \in 0 .. Len(due)
  /\ S!TypeOK
  /\ IC!TypeOK

\* The CPU, or its host, is running and not a callback of the scheduler.
Running == S!InHost

\* a < b on counters: one that has wrapped around is above any other.
Less(a, b) == IF a < 0 <=> b < 0 THEN a < b ELSE b < 0

\* The time the scheduler has reached when all its active calls have returned.
Horizon == S!Max({now} \cup {stack[i].target : i \in DOMAIN stack})

\* Bound: neither clock is nearer than n to its end.
Room(n) == Horizon + n <= MaxTime /\ cycles + n <= MaxTime

-----------------------------------------------------------------------------
\* The counter.

(* Of n cycles consumed in a callback, those that lie before the target of *)
(* a call in progress move the scheduler no further than that call does.   *)
Overlap(n) == S!Min({n, Horizon - now})

AddCycles(n) ==
  /\ cycles' = cycles + n
  /\ lost' = lost + Overlap(n)
  /\ IF n = 0 THEN UNCHANGED scheduler ELSE S!Advance(n)
  /\ UNCHANGED drift

\* One or two corrections replace the table entry of IR; the scheduler is not told.
OverrideInstructionCycles(totals) ==
  /\ cycles' = cycles - Len(totals) * ir.cost + (IF Len(totals) = 2 THEN totals[1] + totals[2]
                                                                    ELSE totals[1])
  /\ drift' = drift + cycles' - cycles
  /\ UNCHANGED <<lost, scheduler>>

-----------------------------------------------------------------------------
\* Calls of the host.

\* The call returns, with nil or with an error.
EndCall ==
  /\ phase' = "host" /\ call' = "none"
  /\ before' = 0 /\ target' = 0

AtRest == Running /\ phase = "host"

CallStep ==
  /\ AtRest
  /\ Room(MaxStep)
  /\ call' = "step"
  /\ phase' = "boundary"
  /\ UNCHANGED <<cycles, stopped, mask, ir, before, target, drift, lost, born, scheduler, interrupts>>

CallRunCycles(budget) ==
  /\ AtRest
  /\ Room(MaxRun + MaxStep)
  /\ call' = "run"
  /\ target' = cycles + budget
  /\ phase' = "loop"
  /\ UNCHANGED <<cycles, stopped, mask, ir, before, drift, lost, born, scheduler, interrupts>>

\* RunCycles: the budget is used up.
Return ==
  /\ Running /\ phase = "loop" /\ ~Less(cycles, target)
  /\ EndCall
  /\ UNCHANGED <<cycles, stopped, mask, ir, drift, lost, born, scheduler, interrupts>>

\* RunCycles: another round.
Round ==
  /\ Running /\ phase = "loop" /\ Less(cycles, target)
  /\ before' = cycles
  /\ phase' = "boundary"
  /\ UNCHANGED <<cycles, stopped, mask, ir, call, target, drift, lost, born, scheduler, interrupts>>

\* The end of executeNext: RunCycles gives up when the counter stands still.
Done ==
  /\ Running /\ phase = "done"
  /\ IF call = "run" /\ cycles # before
     THEN phase' = "loop" /\ UNCHANGED <<call, before, target>>
     ELSE EndCall
  /\ UNCHANGED <<cycles, stopped, mask, ir, drift, lost, born, scheduler, interrupts>>

-----------------------------------------------------------------------------
\* A stopped CPU.

\* Step returns without consuming anything.
StepIdles ==
  /\ Running /\ phase = "boundary" /\ call = "step"
  /\ stopped /\ ~IC!HasPending(mask)
  /\ EndCall
  /\ UNCHANGED <<cycles, stopped, mask, ir, drift, lost, born, scheduler, interrupts>>

\* Mutants of RunIdles: the scheduler is not told of the tick; there is no tick.
RunIdlesUntold ==
  /\ Running /\ phase = "boundary" /\ call = "run"
  /\ stopped /\ ~IC!HasPending(mask)
  /\ cycles' = cycles + StopTick
  /\ phase' = "loop"
  /\ UNCHANGED <<stopped, mask, ir, call, before, target, drift, lost, born, scheduler, interrupts>>

RunIdlesFree ==
  /\ Running /\ phase = "boundary" /\ call = "run"
  /\ stopped /\ ~IC!HasPending(mask)
  /\ phase' = "loop"
  /\ UNCHANGED <<cycles, stopped, mask, ir, call, before, target, drift, lost, born, scheduler, interrupts>>

\* RunCycles consumes a tick, in which timers may fire.
RunIdles ==
  /\ Running /\ phase = "boundary" /\ call = "run"
  /\ stopped /\ ~IC!HasPending(mask)
  /\ AddCycles(StopTick)
  /\ phase' = "loop"
  /\ UNCHANGED <<stopped, mask, ir, call, before, target, born, interrupts>>

\* A mutant of TakeInterrupt: the stopped state is kept.
TakeInterruptStopped(next) ==
  /\ IC!HasPending(mask)
  /\ IC!Deliver(mask)
  /\ AddCycles(InterruptCycles)
  /\ phase' = next
  /\ UNCHANGED <<stopped, mask, ir, call, before, target, born>>

\* checkInterrupts takes the request; interrupt adds its cycles before it stacks.
TakeInterrupt(next) ==
  /\ IC!HasPending(mask)
  /\ IC!Deliver(mask)
  /\ stopped' = FALSE
  /\ AddCycles(InterruptCycles)
  /\ phase' = next
  /\ UNCHANGED <<mask, ir, call, before, target, born>>

\* An interrupt ends STOP; the first instruction of its handler follows at once.
WakeUp == Running /\ phase = "boundary" /\ stopped /\ TakeInterrupt("wake")

-----------------------------------------------------------------------------
\* executeNext.

(* Bound: STOP is fetched only while there is time left for another Step.  *)
Fetch ==
  /\ Running
  /\ phase = "fetch" \/ (phase = "boundary" /\ ~stopped)
  /\ \E i \in Program :
       /\ i.does = "stop" => Room(2 * MaxStep)
       /\ ir' = i
       /\ AddCycles(i.cost)
  /\ phase' = "execute"
  /\ UNCHANGED <<stopped, mask, call, before, target, born, interrupts>>

\* The opcode cannot be fetched: there is no table entry to correct.
FetchFault ==
  /\ Running
  /\ phase = "fetch" \/ (phase = "boundary" /\ ~stopped)
  /\ AddCycles(GroupZeroCycles)
  /\ phase' = "fault"
  /\ UNCHANGED <<stopped, mask, ir, call, before, target, born, interrupts>>

\* The group 0 frame of a fetch fault; interrupts are not checked after it.
FetchFaultStacks ==
  /\ Running /\ phase = "fault"
  /\ (phase' = "done" /\ UNCHANGED <<call, before, target>>) \/ EndCall
  /\ UNCHANGED <<cycles, stopped, mask, ir, drift, lost, born, scheduler, interrupts>>

\* The wait hook, in the first of the handler's bus accesses.
BusWaits ==
  /\ Running /\ phase = "execute"
  /\ \E states \in Waits : AddCycles(states)
  /\ phase' = "waited"
  /\ UNCHANGED <<stopped, mask, ir, call, before, target, born, interrupts>>

Executing == Running /\ phase \in {"execute", "waited"}
HandlerReturns == phase' = "check" /\ ir' = NoInstruction

\* Step and RunCycles return an error of the handler.
HandlerFails == EndCall /\ ir' = NoInstruction

\* The handler does its work, or stops at a breakpoint that halts.
Plain ==
  /\ Executing /\ ir.does = "plain"
  /\ (HandlerReturns /\ UNCHANGED <<call, before, target>>) \/ HandlerFails
  /\ UNCHANGED <<cycles, stopped, mask, drift, lost, born, scheduler, interrupts>>

\* RTE and the moves to SR.
SetMask ==
  /\ Executing /\ ir.does = "mask"
  /\ mask' = ir.arg
  /\ HandlerReturns
  /\ UNCHANGED <<cycles, stopped, call, before, target, drift, lost, born, scheduler, interrupts>>

Stop ==
  /\ Executing /\ ir.does = "stop"
  /\ mask' = ir.arg
  /\ stopped' = TRUE
  /\ HandlerReturns
  /\ UNCHANGED <<cycles, call, before, target, drift, lost, born, scheduler, interrupts>>

(* An exception with its own total: TRAPV, CHK, divide by zero, privilege, *)
(* and an opcode without a handler, which has no table entry.  Step fails  *)
(* where a frame of the last kind faults, or any meets a breakpoint.       *)
Raise ==
  /\ Executing /\ ir.does = "raise"
  /\ OverrideInstructionCycles(<<ir.arg>>)
  /\ (HandlerReturns /\ UNCHANGED <<call, before, target>>) \/ HandlerFails
  /\ UNCHANGED <<stopped, mask, born, interrupts>>

\* A bus or address fault in a handler.
OperandFault ==
  /\ Executing /\ ir.does = "plain"
  /\ OverrideInstructionCycles(<<GroupZeroCycles>>)
  /\ (HandlerReturns /\ UNCHANGED <<call, before, target>>) \/ HandlerFails
  /\ UNCHANGED <<stopped, mask, born, interrupts>>

(* The frame of a handler's exception faults, and the group 0 exception    *)
(* that follows corrects the counter again.  Its frame can be stacked      *)
(* where the supervisor stack pointer is just above the end of the RAM.    *)
(* Bound: a round of RunCycles that lowers the counter leaves time for a   *)
(* whole RunCycles.                                                        *)
RaiseFaults ==
  /\ Executing /\ ir.does = "raise" /\ ir.cost # 0
  /\ OverrideInstructionCycles(<<ir.arg, GroupZeroCycles>>)
  /\ \/ /\ call = "run" /\ cycles' < before => Room(MaxRun + MaxStep)
        /\ HandlerReturns /\ UNCHANGED <<call, before, target>>
     \/ HandlerFails
  /\ UNCHANGED <<stopped, mask, born, interrupts>>

CheckNothing ==
  /\ Running /\ phase = "check" /\ ~IC!HasPending(mask)
  /\ phase' = "done"
  /\ UNCHANGED <<cycles, stopped, mask, ir, call, before, target, drift, lost, born, scheduler, interrupts>>

CheckTakes == Running /\ phase = "check" /\ TakeInterrupt("accept")

\* The frame is stacked and the mask raised, or stacking faults and Step fails.
Accept ==
  /\ Running /\ phase \in {"wake", "accept"}
  /\ \/ /\ mask' = grant.level
        /\ phase' = IF phase = "wake" THEN "fetch" ELSE "done"
        /\ UNCHANGED <<call, before, target>>
     \/ UNCHANGED mask /\ EndCall
  /\ UNCHANGED <<cycles, stopped, ir, drift, lost, born, scheduler, interrupts>>

CpuMoves ==
  \/ Return \/ Round \/ Done
  \/ StepIdles \/ RunIdles \/ WakeUp
  \/ Fetch \/ FetchFault \/ FetchFaultStacks \/ BusWaits
  \/ Plain \/ SetMask \/ Stop \/ Raise \/ OperandFault \/ RaiseFaults
  \/ CheckNothing \/ CheckTakes \/ Accept

-----------------------------------------------------------------------------
\* Reset and SetScheduler.

(* Reset clears the controller first; the bus reads of the vectors may     *)
(* then run wait states, and with them timers of the old life.             *)
ResetBegin ==
  /\ AtRest
  /\ call' = "reset" /\ phase' = "reset"
  /\ mask' = 7
  /\ stopped' = FALSE
  /\ IC!Reset
  /\ \E states \in Waits \cup {0} : AddCycles(states)
  /\ UNCHANGED <<ir, before, target, born>>

\* A vector cannot be read: the counter and the scheduler stay.
ResetFails ==
  /\ Running /\ phase = "reset"
  /\ EndCall
  /\ UNCHANGED <<cycles, stopped, mask, ir, drift, lost, born, scheduler, interrupts>>

\* A mutant of ResetEnd: the scheduler is forgotten.
ResetEndKeepingTimers ==
  /\ Running /\ phase = "reset"
  /\ cycles' = 0
  /\ drift' = 0 - now /\ lost' = 0
  /\ born' = Len(due)
  /\ EndCall
  /\ UNCHANGED <<stopped, mask, ir, scheduler, interrupts>>

\* The scheduler comes last.
ResetEnd ==
  /\ Running /\ phase = "reset"
  /\ cycles' = 0
  /\ S!Reset(0)
  /\ drift' = 0 /\ lost' = 0
  /\ born' = Len(due)
  /\ EndCall
  /\ UNCHANGED <<stopped, mask, ir, interrupts>>

\* The scheduler takes over the counter and forgets its events.
SetScheduler ==
  /\ AtRest
  /\ S!Reset(cycles)
  /\ drift' = 0 /\ lost' = 0
  /\ born' = Len(due)
  /\ UNCHANGED <<cycles, stopped, mask, progress, interrupts>>

-----------------------------------------------------------------------------
\* Devices and timers.

InCallback == S!InEvent \/ S!InListener

\* The host, a device in a bus access, an event or a listener.
MaySpeak == InCallback \/ (Running /\ phase \in {"host", "execute", "reset"})

(* A callback's own bus access waits, and the CPU's wait hook adds the     *)
(* cycles while the addCycles that runs the callback goes on.              *)
(* Bound: it leaves time for the call of the host in progress.             *)
CallbackWaits ==
  /\ InCallback
  /\ \E states \in Waits :
       /\ Room(states + MaxRun + MaxStep)
       /\ AddCycles(states)
  /\ UNCHANGED <<stopped, mask, progress, born, interrupts>>

ScheduleAfter(delta) ==
  /\ MaySpeak
  /\ S!Schedule(now + delta)
  /\ UNCHANGED <<cycles, stopped, mask, progress, drift, lost, born, interrupts>>

RequestInterrupt(level) ==
  /\ MaySpeak
  /\ IC!Accept(level, NoVector)
  /\ UNCHANGED <<cycles, stopped, mask, progress, drift, lost, born, scheduler>>

SchedulerMoves ==
  /\ S!Dispatch
  /\ UNCHANGED <<cycles, stopped, mask, progress, drift, lost, born, interrupts>>

Init ==
  /\ cycles = 0
  /\ stopped = FALSE
  /\ mask = 7
  /\ ir = NoInstruction
  /\ phase = "host" /\ call = "none"
  /\ before = 0 /\ target = 0
  /\ drift = 0 /\ lost = 0 /\ born = 0
  /\ S!Init
  /\ IC!Init

Next ==
  \/ CallStep
  \/ \E budget \in Budgets : CallRunCycles(budget)
  \/ CpuMoves
  \/ ResetBegin \/ ResetFails \/ ResetEnd
  \/ SetScheduler
  \/ \E delta \in Delays : ScheduleAfter(delta)
  \/ \E level \in RequestLevels : RequestInterrupt(level)
  \/ CallbackWaits
  \/ SchedulerMoves

Spec == Init /\ [][Next]_vars

(* A call runs to its end, callbacks return, and the host keeps calling    *)
(* Step (RunInstructions and RunUntil are loops of it).                    *)
FairSpec ==
  Spec /\ WF_vars(CpuMoves) /\ WF_vars(SchedulerMoves) /\ WF_vars(CallStep)

-----------------------------------------------------------------------------
\* Properties.

(* At every moment, in callbacks too, the CPU's counter is the time the    *)
(* scheduler gets to when its active calls return, apart by two sums: the  *)
(* corrections of overrideInstructionCycles, which the scheduler never     *)
(* hears of, and the cycles that callbacks consumed inside time it had     *)
(* been given already.  Callbacks schedule, request interrupts and consume *)
(* cycles, at any depth; those that Reset the CPU are not considered.      *)
CountersReconcile == cycles = Horizon + drift + lost

(* No event scheduled before the last Reset fires after it, also when the  *)
(* bus reads of Reset itself run timers that schedule themselves again.    *)
OldTimersSilent ==
  [][\A id \in DOMAIN fires : fires'[id] > fires[id] => id > born]_vars

(* RunCycles returns, unless some round of it lowers the counter, which    *)
(* its check for a stalled execution does not see: with a running CPU, a   *)
(* stopped one, timers that consume cycles, and exceptions whose total is  *)
(* below the table entry of their instruction, also those whose frame      *)
(* faults.  A target that has wrapped around is out of reach.              *)
RunCyclesReturns ==
  call = "run" /\ target >= 0 ~> call # "run" \/ (phase = "done" /\ cycles < before)

(* A request above the mask of a stopped CPU wakes it, from whatever call  *)
(* or callback it came: before STOP, during STOP, in a tick of RunCycles.  *)
StoppedWakes == stopped /\ IC!HasPending(mask) ~> ~stopped

=============================================================================
