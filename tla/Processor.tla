----------------------------- MODULE Processor -----------------------------
(***************************************************************************)
(* The control core of the CPU (cpu.go, op_system.go, op_control_flow.go): *)
(* Step with its fetch, execute and interrupt check, the two kinds of      *)
(* exception stack frame, the switch between the user and the supervisor   *)
(* stack, STOP, RESET, RTE and the privileged moves, composed with the     *)
(* interrupt controller.                                                   *)
(*                                                                         *)
(* One call of Step is a sequence of steps here, cut where the code calls  *)
(* out (cycle accounting and bus accesses run scheduler events and devices *)
(* that may call RequestInterrupt): fetch, execute, check, accept.         *)
(*                                                                         *)
(* Abstractions.  The program is arbitrary: each fetch may return any      *)
(* instruction of a set that depends on the mode.  Instructions are        *)
(* reduced to what they do to the mode, the stacks, the memory and the PC. *)
(* SR keeps S and the interrupt mask, without the condition codes and the  *)
(* unused trace bit.  The 32-bit registers and the 24-bit bus share one    *)
(* modulus, Space, that divides 2^16: the upper word of a PC is zero.      *)
(***************************************************************************)
EXTENDS Naturals, Sequences, FiniteSetsExt

CONSTANTS
  Space,         \* size of the address space
  Code,          \* the even addresses instructions are fetched from
  Ram,           \* the even addresses of writable memory
  VectorTable,   \* the exception vectors, 0 where none is installed
  ResetSSP, ResetPC,   \* longs 0 and 1 of memory
  BootProgram,     \* instructions of supervisor code outside exception handlers
  HandlerProgram,  \* instructions of exception handlers
  UserProgram,     \* instructions of user code
  Disciplined,     \* whether handlers discard fault information and RTE their own frame
  HostRetries,     \* whether the host calls Step again after an error
  MaxFrames,       \* bound: exceptions entered and not returned from
  RequestLevels, Vectors, NoVector, MaxRequests

Address == 0 .. (Space - 1)
MaxWord == 65535
Word == 0 .. MaxWord
StatusRegister == [s : BOOLEAN, mask : 0 .. 7]
Registers == [sr : StatusRegister, pc : Address, a7 : Address, usp : Address, ssp : Address]

\* Exception vectors.
XBusError == 2
XAddressError == 3
XIllegal == 4
XPrivViolation == 8
XLineA == 10
XUninitializedInt == 15
XTrap == 32

Instruction == [op : STRING, arg : Address, word : Word]

DividesWord == (MaxWord + 1) % Space = 0

ASSUME SpaceAssumption == Space \in 16 .. (MaxWord + 1) /\ DividesWord
ASSUME MemoryAssumption ==
  /\ Code \subseteq Address /\ Ram \subseteq Address
  /\ \A a \in Code \cup Ram : a % 2 = 0
ASSUME VectorTableAssumption == VectorTable \in [0 .. 255 -> Address]
ASSUME ResetAssumption == ResetSSP \in Address /\ ResetPC \in Address
ASSUME DevicesAssumption ==
  /\ RequestLevels \subseteq Nat
  /\ Vectors \subseteq 0 .. 255 /\ NoVector \notin Vectors
  /\ MaxRequests \in Nat
ASSUME ProgramAssumption ==
  BootProgram \cup HandlerProgram \cup UserProgram \subseteq Instruction

VARIABLES
  regs,      \* SR, PC, the active A7 and the two banked stack pointers
  mem,       \* the words of RAM
  stopped,   \* set by STOP
  phase,     \* where Step is; "idle" between calls
  resume,    \* where Step continues after it accepted an interrupt
  outcome,   \* what the last finished Step returned
  frames,    \* ghost: the exceptions entered and not returned from
  requests, maxLevel, grant, issued   \* the interrupt controller

interrupts == <<requests, maxLevel, grant, issued>>
vars == <<regs, mem, stopped, phase, resume, outcome, frames, interrupts>>

IC == INSTANCE InterruptController

Phases == {"idle", "fetch", "execute", "check", "accept"}
Frame == [sp : Address, sr : StatusRegister, pc : Address, a7 : Address, level : 0 .. 7]

TypeOK ==
  /\ regs \in Registers
  /\ mem \in [Ram -> Word]
  /\ stopped \in BOOLEAN
  /\ phase \in Phases
  /\ resume \in {"idle", "fetch"}
  /\ outcome \in {"ok", "error"}
  /\ frames \in Seq(Frame)
  /\ IC!TypeOK
  /\ phase = "accept" => grant \in IC!Grants

-----------------------------------------------------------------------------
\* Words, registers and memory.

Plus(a, n) == (a + n) % Space
Minus(a, n) == (a + Space - n) % Space

\* A mutant of Encode: the interrupt mask is not saved.
EncodeWithoutMask(sr) == IF sr.s THEN 8192 ELSE 0

Encode(sr) == (IF sr.s THEN 8192 ELSE 0) + 256 * sr.mask
Decode(word) == [s |-> (word \div 8192) % 2 = 1, mask |-> (word \div 256) % 8]

\* setSR: entering or leaving supervisor mode banks A7.
SetSR(r, sr) ==
  CASE sr.s = r.sr.s        -> [r EXCEPT !.sr = sr]
    [] sr.s /\ ~r.sr.s      -> [r EXCEPT !.sr = sr, !.usp = r.a7, !.a7 = r.ssp]
    [] ~sr.s /\ r.sr.s      -> [r EXCEPT !.sr = sr, !.ssp = r.a7, !.a7 = r.usp]

Supervisor(sr) == [sr EXCEPT !.s = TRUE]

NoFault == [vector |-> 0, address |-> 0]

\* Alignment is checked before the mapping; ROM is not written by any program here.
FaultAt(a, mapped) ==
  CASE a % 2 = 1                -> [vector |-> XAddressError, address |-> a]
    [] a % 2 = 0 /\ a \notin mapped -> [vector |-> XBusError, address |-> a]
    [] OTHER                    -> NoFault

FirstFault(accesses, mapped) ==
  LET faulty == {i \in DOMAIN accesses : FaultAt(accesses[i], mapped) # NoFault}
  IN  IF faulty = {} THEN 0 ELSE Min(faulty)

(* Word writes in order, up to the first that faults: a long is two bus    *)
(* cycles and the first stays written when the second faults.              *)
WriteWords(m, addresses, values) ==
  LET bad  == FirstFault(addresses, Ram)
      done == IF bad = 0 THEN DOMAIN addresses ELSE 1 .. (bad - 1)
  IN  [bad   |-> bad,
       fault |-> IF bad = 0 THEN NoFault ELSE FaultAt(addresses[bad], Ram),
       mem   |-> [a \in Ram |-> IF \E i \in done : addresses[i] = a
                                THEN values[CHOOSE i \in done : addresses[i] = a]
                                ELSE m[a]]]

\* readVector: an empty vector falls back to the uninitialized-interrupt vector.
Handler(vector) ==
  IF VectorTable[vector] = 0 THEN VectorTable[XUninitializedInt] ELSE VectorTable[vector]

-----------------------------------------------------------------------------
\* Exception processing, as functions from registers and memory to the result.

(* raiseExceptionWithPC: the mode changes first, then PC and SR are pushed, *)
(* then the vector is loaded.  A fault on the way leaves the new mode and  *)
(* the lowered A7 behind.                                                  *)
ShortException(r, m, vector, sr, stackedPC) ==
  LET entered == SetSR(r, sr)
      top     == entered.a7
      w       == WriteWords(m, <<Minus(top, 4), Minus(top, 2), Minus(top, 6)>>,
                               <<0, stackedPC, Encode(r.sr)>>)
      sp      == Minus(top, IF w.bad \in {1, 2} THEN 4 ELSE 6)
  IN  [fault |-> w.fault,
       mem   |-> w.mem,
       regs  |-> [entered EXCEPT !.a7 = sp,
                                 !.pc = IF w.bad = 0 THEN Handler(vector) ELSE @],
       frame |-> [sp |-> sp, sr |-> r.sr, pc |-> stackedPC, a7 |-> r.a7, level |-> 0]]

(* raiseGroup0Exception: status word, fault address, instruction register, *)
(* SR and PC are written upwards from A7 - 14.                             *)
Group0Exception(r, m, fault) ==
  LET entered == SetSR(r, Supervisor(r.sr))
      sp      == Minus(entered.a7, 14)
      w       == WriteWords(m, [i \in 1 .. 7 |-> Plus(sp, 2 * (i - 1))],
                               <<0, 0, fault.address, 0, Encode(r.sr), 0, r.pc>>)
  IN  [fault |-> w.fault,
       mem   |-> w.mem,
       regs  |-> [entered EXCEPT !.a7 = sp,
                                 !.pc = IF w.bad = 0 THEN Handler(fault.vector) ELSE @],
       frame |-> [sp |-> Plus(sp, 8), sr |-> r.sr, pc |-> r.pc, a7 |-> r.a7, level |-> 0]]

-----------------------------------------------------------------------------
\* How a step of Step ends.

\* A mutant of Enter: nested exceptions do not lower A7.
EnterKeepingStack(exception, level) ==
  /\ regs' = IF regs.sr.s THEN [exception.regs EXCEPT !.a7 = regs.a7] ELSE exception.regs
  /\ mem' = exception.mem
  /\ frames' = IF exception.fault = NoFault
               THEN Append(frames, [exception.frame EXCEPT !.level = level])
               ELSE frames

Enter(exception, level) ==
  /\ regs' = exception.regs
  /\ mem' = exception.mem
  /\ frames' = IF exception.fault = NoFault
               THEN Append(frames, [exception.frame EXCEPT !.level = level])
               ELSE frames

Continue(next) == phase' = next /\ UNCHANGED outcome
Finish(result) == phase' = "idle" /\ outcome' = result

\* The instruction completed; the interrupt check is next.
Complete(r, m) ==
  /\ regs' = r
  /\ mem' = m
  /\ Continue("check")

(* handleFaultError: the fault becomes a bus or address error exception;   *)
(* when that cannot be stacked either, Step returns the error.             *)
FaultError(r, m, fault, next) ==
  LET e == Group0Exception(r, m, fault)
  IN  /\ Enter(e, 0)
      /\ IF e.fault # NoFault THEN Finish("error")
         ELSE IF next = "idle" THEN Finish("ok")
         ELSE Continue(next)

\* A synchronous exception raised by an instruction handler.
Raise(vector, stackedPC) ==
  LET e == ShortException(regs, mem, vector, Supervisor(regs.sr), stackedPC)
  IN  IF e.fault = NoFault
      THEN Enter(e, 0) /\ Continue("check")
      ELSE FaultError(e.regs, e.mem, e.fault, "check")

\* Read n words from A7 upwards.
StackFault(n) ==
  LET cells == [i \in 1 .. n |-> Plus(regs.a7, 2 * (i - 1))]
      bad   == FirstFault(cells, Ram)
  IN  IF bad = 0 THEN NoFault ELSE FaultAt(cells[bad], Ram)

StackWord(i) == mem[Plus(regs.a7, 2 * i)]
LongAt(i) == StackWord(i + 1) % Space   \* the upper word is a multiple of Space

-----------------------------------------------------------------------------
\* Instructions.  regs.pc is already past the opcode.

TopFrame == frames[Len(frames)]

Instructions ==
  IF ~regs.sr.s THEN UserProgram
  ELSE IF frames = <<>> THEN BootProgram
  ELSE HandlerProgram

\* A disciplined handler drops the fault words of a group 0 frame, then returns.
Permitted(i) ==
  Disciplined =>
    /\ i.op = "rte"   => frames # <<>> /\ regs.a7 = TopFrame.sp
    /\ i.op = "addA7" => frames # <<>> /\ Plus(regs.a7, i.arg) = TopFrame.sp

Executing(op, i) ==
  /\ phase = "execute"
  /\ i \in Instructions
  /\ i.op = op
  /\ Permitted(i)

\* What most instructions leave alone.
Plain == UNCHANGED <<stopped, resume, interrupts>>
KeepFrames == UNCHANGED frames

\* Arithmetic and logic on data registers, NOP, MOVE from USP to a data pointer.
Nop(i) == Executing("nop", i) /\ Complete(regs, mem) /\ KeepFrames /\ Plain

Jump(i) ==
  /\ Executing("jump", i)
  /\ Complete([regs EXCEPT !.pc = i.arg], mem)
  /\ KeepFrames /\ Plain

\* JSR and BSR: A7 is lowered before the write and stays so when it faults.
Jsr(i) ==
  /\ Executing("jsr", i)
  /\ LET r == [regs EXCEPT !.a7 = Minus(@, 4)]
         w == WriteWords(mem, <<r.a7, Plus(r.a7, 2)>>, <<0, regs.pc>>)
     IN  IF w.bad = 0
         THEN Complete([r EXCEPT !.pc = i.arg], w.mem) /\ KeepFrames
         ELSE FaultError(r, w.mem, w.fault, "check")
  /\ Plain

Rts(i) ==
  /\ Executing("rts", i)
  /\ IF StackFault(2) = NoFault
     THEN Complete([regs EXCEPT !.a7 = Plus(@, 4), !.pc = LongAt(0)], mem) /\ KeepFrames
     ELSE FaultError(regs, mem, StackFault(2), "check")
  /\ Plain

\* A word store to i.arg.
Store(i) ==
  /\ Executing("store", i)
  /\ LET w == WriteWords(mem, <<i.arg>>, <<i.word>>)
     IN  IF w.bad = 0
         THEN Complete(regs, w.mem) /\ KeepFrames
         ELSE FaultError(regs, w.mem, w.fault, "check")
  /\ Plain

\* A load of A7 with a value, and an addition to it: unprivileged in either mode.
MoveA7(i) ==
  /\ Executing("moveA7", i)
  /\ Complete([regs EXCEPT !.a7 = i.arg], mem)
  /\ KeepFrames /\ Plain

AddA7(i) ==
  /\ Executing("addA7", i)
  /\ Complete([regs EXCEPT !.a7 = Plus(@, i.arg)], mem)
  /\ KeepFrames /\ Plain

Trap(i) == Executing("trap", i) /\ Raise(XTrap, regs.pc) /\ Plain

Illegal(i) == Executing("illegal", i) /\ Raise(XIllegal, regs.pc) /\ Plain

(* Line A and line F have no handler function: the exception is raised     *)
(* outside the call whose faults are turned into bus errors, and stacks    *)
(* the address of the opcode itself.                                       *)
LineA(i) ==
  /\ Executing("lineA", i)
  /\ LET e == ShortException(regs, mem, XLineA, Supervisor(regs.sr), Minus(regs.pc, 2))
     IN  /\ Enter(e, 0)
         /\ IF e.fault = NoFault THEN Continue("check") ELSE Finish("error")
  /\ Plain

\* requireSupervisor in user mode.
Privileged == {"stop", "reset", "moveToSr", "moveToUsp", "moveA7FromUsp", "rte"}

PrivilegeViolation(i) ==
  /\ i.op \in Privileged
  /\ Executing(i.op, i)
  /\ ~regs.sr.s
  /\ Raise(XPrivViolation, regs.pc)
  /\ Plain

\* A mutant: the mode is not checked.
ExecutingUnchecked(op, i) == Executing(op, i)

ExecutingPrivileged(op, i) == Executing(op, i) /\ regs.sr.s

\* STOP fetches its operand word from the program.
Stop(i) ==
  /\ ExecutingPrivileged("stop", i)
  /\ LET fault == FaultAt(regs.pc, Code)
     IN  IF fault = NoFault
         THEN /\ Complete([SetSR(regs, Decode(i.word)) EXCEPT !.pc = Plus(regs.pc, 2)], mem)
              /\ stopped' = TRUE
              /\ KeepFrames
         ELSE FaultError(regs, mem, fault, "check") /\ UNCHANGED stopped
  /\ UNCHANGED <<resume, interrupts>>

ResetInstruction(i) ==
  /\ ExecutingPrivileged("reset", i)
  /\ Complete(regs, mem)
  /\ IC!Reset
  /\ UNCHANGED <<stopped, resume>> /\ KeepFrames

\* MOVE, ORI, ANDI and EORI to SR.
MoveToSr(i) ==
  /\ ExecutingPrivileged("moveToSr", i)
  /\ Complete(SetSR(regs, Decode(i.word)), mem)
  /\ KeepFrames /\ Plain

MoveToUsp(i) ==
  /\ ExecutingPrivileged("moveToUsp", i)
  /\ Complete([regs EXCEPT !.usp = i.arg], mem)
  /\ KeepFrames /\ Plain

\* MOVE USP,A7.
MoveFromUsp(i) ==
  /\ ExecutingPrivileged("moveA7FromUsp", i)
  /\ Complete([regs EXCEPT !.a7 = regs.usp], mem)
  /\ KeepFrames /\ Plain

\* A mutant of Rte: SR is written before A7 is moved past the frame.
RteBankingEarly(i) ==
  /\ ExecutingPrivileged("rte", i)
  /\ StackFault(3) = NoFault
  /\ LET back == SetSR(regs, Decode(StackWord(0)))
     IN  Complete([back EXCEPT !.a7 = Plus(@, 6), !.pc = LongAt(1)], mem)
  /\ frames' = IF frames # <<>> THEN SubSeq(frames, 1, Len(frames) - 1) ELSE frames
  /\ Plain

\* RTE pops SR, then the PC; SR is written after both.
Rte(i) ==
  /\ ExecutingPrivileged("rte", i)
  /\ LET popped == [regs EXCEPT !.a7 = Plus(@, 2)]
     IN  IF StackFault(1) # NoFault
         THEN FaultError(regs, mem, StackFault(1), "check")
         ELSE IF StackFault(3) # NoFault
         THEN FaultError(popped, mem, StackFault(3), "check")
         ELSE /\ Complete([SetSR([regs EXCEPT !.a7 = Plus(@, 6)], Decode(StackWord(0)))
                             EXCEPT !.pc = LongAt(1)], mem)
              /\ frames' = IF frames # <<>> /\ TopFrame.sp = regs.a7
                           THEN SubSeq(frames, 1, Len(frames) - 1)
                           ELSE frames
  /\ Plain

\* RTR pops the condition codes and the PC; S and the mask are preserved.
Rtr(i) ==
  /\ Executing("rtr", i)
  /\ LET popped == [regs EXCEPT !.a7 = Plus(@, 2)]
     IN  IF StackFault(1) # NoFault
         THEN FaultError(regs, mem, StackFault(1), "check")
         ELSE IF StackFault(3) # NoFault
         THEN FaultError(popped, mem, StackFault(3), "check")
         ELSE /\ Complete([regs EXCEPT !.a7 = Plus(@, 6), !.pc = LongAt(1)], mem)
              /\ KeepFrames
  /\ Plain

Execute ==
  \E i \in Instructions :
    \/ Nop(i) \/ Jump(i) \/ Jsr(i) \/ Rts(i) \/ Store(i) \/ MoveA7(i) \/ AddA7(i)
    \/ Trap(i) \/ Illegal(i) \/ LineA(i) \/ PrivilegeViolation(i)
    \/ Stop(i) \/ ResetInstruction(i) \/ MoveToSr(i) \/ MoveToUsp(i) \/ MoveFromUsp(i)
    \/ Rte(i) \/ Rtr(i)

-----------------------------------------------------------------------------
\* Step.

Callable == phase = "idle" /\ (outcome = "ok" \/ HostRetries) /\ Len(frames) < MaxFrames

\* A mutant of StepStopped: the second Step leaves the stopped state.
StepStoppedOnce ==
  /\ Callable
  /\ stopped
  /\ ~IC!HasPending(regs.sr.mask)
  /\ Finish("ok")
  /\ stopped' = FALSE
  /\ UNCHANGED <<regs, mem, resume, frames, interrupts>>

\* A stopped CPU without an unmasked request returns at once.
StepStopped ==
  /\ Callable
  /\ stopped
  /\ ~IC!HasPending(regs.sr.mask)
  /\ Finish("ok")
  /\ UNCHANGED <<regs, mem, stopped, resume, frames, interrupts>>

\* A mutant of TakeInterrupt: the queue is asked with the mask already raised.
TakeInterruptRaised(next) ==
  /\ IC!HasPending(regs.sr.mask)
  /\ IC!Pending(maxLevel)
  /\ stopped' = FALSE
  /\ resume' = next
  /\ Continue("accept")
  /\ UNCHANGED <<regs, mem, frames>>

\* The head of the queue is taken before anything is stacked.
TakeInterrupt(next) ==
  /\ IC!HasPending(regs.sr.mask)
  /\ IC!Deliver(regs.sr.mask)
  /\ stopped' = FALSE
  /\ resume' = next
  /\ Continue("accept")
  /\ UNCHANGED <<regs, mem, frames>>

WakeUp == Callable /\ stopped /\ TakeInterrupt("fetch")

\* executeNext up to the fetched opcode; a fetch fault skips the interrupt check.
Fetch ==
  /\ (Callable /\ ~stopped) \/ phase = "fetch"
  /\ LET fault == FaultAt(regs.pc, Code)
     IN  IF fault = NoFault
         THEN /\ regs' = [regs EXCEPT !.pc = Plus(@, 2)]
              /\ Continue("execute")
              /\ UNCHANGED <<mem, frames>>
         ELSE FaultError(regs, mem, fault, "idle")
  /\ Plain

CheckNothing ==
  /\ phase = "check"
  /\ ~IC!HasPending(regs.sr.mask)
  /\ Finish("ok")
  /\ UNCHANGED <<regs, mem, stopped, resume, frames, interrupts>>

CheckTakes == phase = "check" /\ TakeInterrupt("idle")

\* A mutant of Accept: the mask is not raised.
AcceptKeepingMask ==
  /\ phase = "accept"
  /\ LET e == ShortException(regs, mem, grant.request.vector, Supervisor(regs.sr), regs.pc)
     IN  /\ Enter(e, grant.level)
         /\ IF e.fault # NoFault THEN Finish("error")
            ELSE IF resume = "idle" THEN Finish("ok")
            ELSE Continue("fetch")
  /\ Plain

(* interrupt: S is set and the mask raised to the level taken.  A fault in *)
(* stacking is returned from Step as it is, and the request is gone.       *)
Accept ==
  /\ phase = "accept"
  /\ LET e == ShortException(regs, mem, grant.request.vector,
                             [s |-> TRUE, mask |-> grant.level], regs.pc)
     IN  /\ Enter(e, grant.level)
         /\ IF e.fault # NoFault THEN Finish("error")
            ELSE IF resume = "idle" THEN Finish("ok")
            ELSE Continue("fetch")
  /\ Plain

StepMoves == StepStopped \/ WakeUp \/ Fetch \/ Execute \/ CheckNothing \/ CheckTakes \/ Accept

\* RequestInterrupt, by the host between Steps or by a device during one.
RequestInterrupt(level, vector) ==
  /\ IC!Accept(level, vector)
  /\ UNCHANGED <<regs, mem, stopped, phase, resume, outcome, frames>>

ResetRegisters ==
  [sr |-> [s |-> TRUE, mask |-> 7], pc |-> ResetPC, a7 |-> ResetSSP, usp |-> 0, ssp |-> ResetSSP]

\* Reset, by the host between Steps.
HostReset ==
  /\ phase = "idle"
  /\ regs' = ResetRegisters
  /\ stopped' = FALSE
  /\ outcome' = "ok"
  /\ frames' = <<>>
  /\ IC!Reset
  /\ UNCHANGED <<mem, phase, resume>>

Init ==
  /\ regs = ResetRegisters
  /\ mem = [a \in Ram |-> 0]
  /\ stopped = FALSE
  /\ phase = "idle"
  /\ resume = "idle"
  /\ outcome = "ok"
  /\ frames = <<>>
  /\ IC!Init

Next ==
  \/ StepMoves
  \/ \E level \in RequestLevels, vector \in Vectors \cup {NoVector} :
       RequestInterrupt(level, vector)
  \/ HostReset

Spec == Init /\ [][Next]_vars

-----------------------------------------------------------------------------
\* Properties.

Stacked(m, f) == m[f.sp] = Encode(f.sr) /\ m[Plus(f.sp, 2)] = 0 /\ m[Plus(f.sp, 4)] = f.pc
Handlers == {Handler(v) : v \in 0 .. 255}

\* The supervisor stack has room for the longest exception frame.
RoomOnSupervisorStack == \A n \in 1 .. 7 : Minus(regs.ssp, 2 * n) \in Ram

(* User code cannot reach the supervisor's state.  Whatever it does to its *)
(* own stack pointer and to memory, the banked supervisor stack pointer    *)
(* and the interrupt mask stay, and it gets into supervisor mode only      *)
(* through a handler of the vector table, with its own SR and PC stacked   *)
(* right below the supervisor stack pointer (or by a reset of the host).   *)
(* The faults of its own stack never surface as errors of Step.            *)
UserModeConfined ==
  [][~regs.sr.s =>
       \/ regs' = ResetRegisters
       \/ /\ ~regs'.sr.s
          /\ regs'.ssp = regs.ssp
          /\ regs'.sr.mask = regs.sr.mask
       \/ RoomOnSupervisorStack =>
            /\ phase' = "idle" => outcome' = "ok"
            /\ regs'.pc \in Handlers
            /\ Len(frames') = Len(frames) + 1
            /\ LET f == frames'[Len(frames')]
               IN  f.sr = regs.sr /\ Stacked(mem', f) /\ Plus(f.sp, 6) = regs.ssp]_vars

(* RTE resumes exactly what the exception interrupted: the PC, the mode,   *)
(* the interrupt mask and the stack pointer of that mode, through any      *)
(* nesting of interrupts, traps and faults.                                *)
ReturnsExactly ==
  [][phase = "execute" /\ Len(frames') < Len(frames) =>
       /\ frames' = SubSeq(frames, 1, Len(frames) - 1)
       /\ regs'.pc = TopFrame.pc
       /\ regs'.sr = TopFrame.sr
       /\ regs'.a7 = TopFrame.a7]_vars

(* The stack frames of all exceptions not yet returned from are in memory  *)
(* unharmed, one below the other.                                          *)
FramesIntact ==
  /\ \A i \in DOMAIN frames : Stacked(mem, frames[i])
  /\ \A i \in 1 .. (Len(frames) - 1) : frames[i + 1].sp + 6 <= frames[i].sp

(* Interrupt handlers nest by urgency: the handler of a level is only ever *)
(* interrupted by a higher one, and runs with at least its own level       *)
(* masked.                                                                 *)
LevelsNest ==
  /\ \A i, j \in DOMAIN frames :
       i < j /\ frames[j].level > 0 => frames[i].level < frames[j].level
  /\ \A i \in DOMAIN frames : frames[i].level <= regs.sr.mask

(* When user code runs, every exception has been returned from and the     *)
(* supervisor stack is where it was left: no path leaks or overpops it.    *)
SupervisorStackBalanced ==
  ~regs.sr.s => frames = <<>> /\ regs.ssp = ResetSSP

(* A stopped CPU does not execute: registers and memory stay until an      *)
(* interrupt above the mask is taken or the host resets the CPU.           *)
StopHolds ==
  [][stopped /\ phase = "idle" =>
       \/ regs' = ResetRegisters /\ ~stopped'
       \/ UNCHANGED <<regs, mem, frames>> /\ (~stopped' => grant'.ok /\ grant'.level > regs.sr.mask)]_vars
=============================================================================
