----------------------------- MODULE Transfers -----------------------------
(***************************************************************************)
(* Registers and memory: MOVE with postincrement and predecrement, MOVEM,  *)
(* LINK and UNLK of op_data_transfer.go, ea.go and op_control_flow.go, run *)
(* by user code that keeps a stack.  Any access may fault; the handler of  *)
(* the fault works on another stack, may attach memory where it is missing *)
(* and lets the code go on, with the same instruction or another one.       *)
(* Condition codes are in Arithmetic.                                      *)
(***************************************************************************)
EXTENDS Devices, Sequences, FiniteSets

CONSTANTS
  Base,           \* the number of values of a byte; 256 in the code
  Registers,      \* the registers that are used, numbered as in a register list
  Ram, Late,      \* the addresses of RAM, and those attached later only
  StackTop,       \* where the stack starts
  Lists,          \* the register lists of MOVEM
  Moves,          \* the registers and sizes of MOVE to and from the stack
  Immediates,     \* what MOVE #data puts into registers
  Displacements,  \* of LINK
  MaxFrames       \* bound: blocks saved on the stack

SP == 15
IsData(r) == r < 8
Mod(size) == CASE size = Byte -> Base [] size = Word -> Base * Base [] size = Long -> Base * Base * Base * Base

ASSUME TransfersAssumption ==
  /\ Base \in Nat /\ Base > 1 /\ Base % 2 = 0
  /\ SP \in Registers /\ Registers \subseteq 0 .. 15
  /\ Ram \subseteq Address \ {0} /\ Late \subseteq Ram  \* no access reaches round to 0
  /\ StackTop \in Address /\ StackTop % 2 = 0
  /\ Space <= Mod(Long)
  /\ \A list \in Lists : list # {} /\ list \subseteq Registers \ {SP}
  /\ \A m \in Moves : m[1] \in Registers \ {SP} /\ m[2] \in Sizes /\ (IsData(m[1]) \/ m[2] # Byte)
  /\ Immediates \subseteq 0 .. Mod(Long) - 1
  /\ Displacements \subseteq Int /\ \A d \in Displacements : d % 2 = 0
  /\ MaxFrames \in Nat

VARIABLES
  regs,    \* D0 to D7 and A0 to A7
  mem,     \* the bytes of RAM
  mapped,  \* where RAM is attached
  frames,  \* ghost: what the code has saved on its stack and not taken back
           \* (registers and their values, the stack pointer above and below, what put it there)
  attempt  \* ghost: the last instruction, when it is a MOVEM that has faulted

vars == <<regs, mem, mapped, frames, attempt>>

Movem(to, reg, list, size) == [to |-> to, reg |-> reg, list |-> list, size |-> size]
NoAttempt == [of |-> "none"]

Value == 0 .. Mod(Long) - 1

(* A register holds a long, a byte of memory a byte, and what is saved is  *)
(* a block of registers between two values of the stack pointer, which is  *)
(* even whatever is pushed.                                                *)
TypeOK ==
  /\ regs \in [Registers -> Value] /\ regs[SP] % 2 = 0
  /\ mem \in [Ram -> 0 .. Base - 1]
  /\ mapped \subseteq Ram
  /\ \A i \in DOMAIN frames :
       /\ frames[i].by \in {"movem", "move", "link"} /\ frames[i].size \in Sizes
       /\ frames[i].saved \in [frames[i].list -> Value] /\ frames[i].list \subseteq Registers
       /\ {frames[i].top, frames[i].low} \subseteq Value
  /\ attempt # NoAttempt => attempt.from \in [Registers -> Value] /\ attempt.first \in Value

-----------------------------------------------------------------------------
\* Values.

Low(v, size) == v % Mod(size)
Wrap32(v) == Low(v, Long)
SignExtended(v, size) ==
  IF 2 * Low(v, size) >= Mod(size) THEN Wrap32(Low(v, size) - Mod(size)) ELSE Low(v, size)

\* The byte of a value at an offset from its address.
ByteOf(v, size, offset) ==
  (v \div (CASE size - offset = 1 -> 1 [] size - offset = 2 -> Base
             [] size - offset = 3 -> Base * Base [] size - offset = 4 -> Base * Base * Base)) % Base

Joined(m, a, size) ==
  CASE size = Byte -> m[a]
    [] size = Word -> Base * m[a] + m[a + 1]
    [] size = Long -> Base * (Base * (Base * m[a] + m[a + 1]) + m[a + 2]) + m[a + 3]

-----------------------------------------------------------------------------
\* Memory.

Bytes(a, n) == a .. a + n - 1
Misaligned(a, size) == size # Byte /\ a % 2 = 1
Faults(a, size) == Misaligned(a, size) \/ ~(Bytes(a, size) \subseteq mapped)

\* What a write leaves in memory: of a long that faults the first word may stay.
Written(a, size) ==
  CASE ~Faults(a, size) -> Bytes(a, size)
    [] Faults(a, size) /\ size = Long /\ ~Misaligned(a, Long) /\ Bytes(a, Word) \subseteq mapped -> Bytes(a, Word)
    [] OTHER -> {}

MemoryAfter(a, size, value) ==
  [b \in Ram |-> IF b \in Written(a, size) THEN ByteOf(value, size, b - a) ELSE mem[b]]

-----------------------------------------------------------------------------
\* Stacking discipline (of the code, not of the CPU).

Top == frames[Len(frames)]
Tail1 == SubSeq(frames, 1, Len(frames) - 1)

\* The code writes into its own stack, below what it has saved.
Below(a, n) == a + n <= StackTop /\ \A i \in DOMAIN frames : a + n <= frames[i].low

Saves(by, list, size, top, low) ==
  frames' = Append(frames, [by |-> by, list |-> list, size |-> size, saved |-> [r \in list |-> regs[r]], top |-> top, low |-> low])

CanSave == Len(frames) < MaxFrames

-----------------------------------------------------------------------------
\* Effective addresses.

\* A mutant of AddressRegisterStep: A7 moves by one byte.
AddressRegisterStepOfSize(r, size) == size

\* A7 stays even.
AddressRegisterStep(r, size) == IF size = Byte /\ r = SP THEN 2 ELSE size

\* (An)+ and -(An) move the register before the access.
PostIncrement(r, size) == [regs EXCEPT ![r] = Wrap32(regs[r] + AddressRegisterStep(r, size))]
PreDecrement(r, size) == [regs EXCEPT ![r] = Wrap32(regs[r] - AddressRegisterStep(r, size))]

\* A data register keeps what is above the operand, an address register is loaded as a whole.
Loaded(r, size, value) ==
  IF IsData(r) THEN regs[r] - Low(regs[r], size) + value ELSE SignExtended(value, size)

Moved(to) == attempt' = NoAttempt /\ regs' = to

-----------------------------------------------------------------------------
\* MOVE.

\* MOVE Rn,-(A7)
Push(r, size) ==
  LET to == PreDecrement(SP, size)
      a == Wrap(to[SP])
  IN /\ CanSave /\ Below(to[SP], size)
     /\ mem' = MemoryAfter(a, size, Low(regs[r], size))
     /\ Moved(to)
     /\ IF Faults(a, size) THEN UNCHANGED frames
        ELSE Saves("move", {r}, size, regs[SP], to[SP])
     /\ UNCHANGED mapped

\* MOVE (A7)+,Rn and MOVEA: the increment comes before the read, and before a fault of it.
Pop(r, size) ==
  LET a == Wrap(regs[SP])
      to == PostIncrement(SP, size)
  IN /\ frames # <<>> /\ Top.by = "move" /\ Top.list = {r} /\ Top.size = size /\ Top.low = regs[SP]
     /\ IF Faults(a, size) THEN Moved(to) /\ UNCHANGED frames
        ELSE /\ Moved([to EXCEPT ![r] = Loaded(r, size, Joined(mem, a, size))])
             /\ frames' = Tail1
     /\ UNCHANGED <<mem, mapped>>

\* MOVE.L #data,Rn: the code uses the registers, but not its stack pointer.
Load(r, value) ==
  /\ r # SP
  /\ Moved([regs EXCEPT ![r] = value])
  /\ UNCHANGED <<mem, mapped, frames>>

\* LEA d(A7),A7: the code gives up what is below its last block.
Drop ==
  /\ frames # <<>>
  /\ Moved([regs EXCEPT ![SP] = Top.low])
  /\ UNCHANGED <<mem, mapped, frames>>

-----------------------------------------------------------------------------
\* MOVEM.

\* The registers of the list that lie below a register in memory.
Slot(list, r) == Cardinality({q \in list : q < r})

(* Registers lie in memory in the order of their numbers; predecrement     *)
(* goes down through them and the other modes go up.                       *)
At(first, list, size, r) == Wrap(Wrap32(first + size * Slot(list, r)))
Failing(first, list, size) == {r \in list : Faults(At(first, list, size, r), size)}
Reached(first, list, size, down) ==
  {r \in list : \A q \in Failing(first, list, size) : IF down THEN r >= q ELSE r <= q}

\* A mutant of MovemMemory: the list is not reversed for predecrement.
MovemMemoryUnreversed(first, list, size) ==
  LET Opposite(r) == CHOOSE q \in list : Slot(list, q) + Slot(list, r) = Cardinality(list) - 1
  IN [b \in Ram |->
        IF \E r \in Reached(first, list, size, TRUE) : b \in Written(At(first, list, size, r), size)
        THEN LET r == CHOOSE q \in list : b \in Bytes(At(first, list, size, q), size)
             IN ByteOf(Low(regs[Opposite(r)], size), size, b - At(first, list, size, r))
        ELSE mem[b]]

MovemMemory(first, list, size) ==
  [b \in Ram |->
     IF \E r \in Reached(first, list, size, TRUE) : b \in Written(At(first, list, size, r), size)
     THEN LET r == CHOOSE q \in list : b \in Bytes(At(first, list, size, q), size)
          IN ByteOf(Low(regs[r], size), size, b - At(first, list, size, r))
     ELSE mem[b]]

\* A MOVEM that faults is remembered as it was first tried.
Remember(instruction, first) ==
  attempt' = IF attempt # NoAttempt /\ attempt.of = instruction /\ ~attempt.done THEN attempt
             ELSE [of |-> instruction, from |-> regs, first |-> first, done |-> FALSE]

Completes(instruction) ==
  attempt' = IF attempt # NoAttempt /\ attempt.of = instruction /\ ~attempt.done
             THEN [attempt EXCEPT !.done = TRUE] ELSE NoAttempt

\* A mutant of BaseAfterFault: the base has followed the transfers.
BaseAfterFaultMoved(reg, size) == [regs EXCEPT ![reg] = Wrap32(regs[reg] - size)]

\* A fault leaves the base register alone.
BaseAfterFault(reg, size) == regs

\* MOVEM list,-(A7)
MovemStore(list, size) ==
  LET first == Wrap32(regs[SP] - size * Cardinality(list))
      this == Movem("memory", SP, list, size)
  IN /\ CanSave /\ size # Byte /\ Below(first, size * Cardinality(list))
     /\ mem' = MovemMemory(first, list, size)
     /\ IF Failing(first, list, size) = {}
        THEN /\ regs' = [regs EXCEPT ![SP] = first]
             /\ Saves("movem", list, size, regs[SP], first)
             /\ Completes(this)
        ELSE /\ regs' = BaseAfterFault(SP, size)
             /\ UNCHANGED frames
             /\ Remember(this, first)
     /\ UNCHANGED mapped

\* A mutant of MovemRegisters: words are not sign-extended.
MovemRegistersZeroExtended(first, list, size) ==
  [r \in Registers |->
     IF r \in Reached(first, list, size, FALSE) \ Failing(first, list, size)
     THEN Joined(mem, At(first, list, size, r), size) ELSE regs[r]]

\* The registers before the one whose read faults have been loaded.
MovemRegisters(first, list, size) ==
  [r \in Registers |->
     IF r \in Reached(first, list, size, FALSE) \ Failing(first, list, size)
     THEN SignExtended(Joined(mem, At(first, list, size, r), size), size) ELSE regs[r]]

\* MOVEM (An)+,list
MovemLoad(reg, list, size) ==
  LET first == regs[reg]
      to == MovemRegisters(first, list, size)
      this == Movem("registers", reg, list, size)
  IN /\ size # Byte /\ ~IsData(reg)
     /\ reg = SP => /\ frames # <<>> /\ Top.by = "movem" /\ Top.list = list
                    /\ Top.size = size /\ Top.low = regs[SP]
     /\ IF Failing(first, list, size) = {}
        THEN /\ regs' = IF reg \in list THEN to
                        ELSE [to EXCEPT ![reg] = Wrap32(first + size * Cardinality(list))]
             /\ frames' = IF reg = SP THEN Tail1 ELSE frames
             /\ Completes(this)
        ELSE regs' = to /\ Remember(this, first) /\ UNCHANGED frames
     /\ UNCHANGED <<mem, mapped>>

-----------------------------------------------------------------------------
\* LINK and UNLK.

Link(reg, displacement) ==
  LET pushed == PreDecrement(SP, Long)
      a == Wrap(pushed[SP])
  IN /\ CanSave /\ ~IsData(reg) /\ reg # SP /\ Below(pushed[SP], Long)
     /\ mem' = MemoryAfter(a, Long, regs[reg])
     /\ IF Faults(a, Long) THEN Moved(pushed) /\ UNCHANGED frames
        ELSE /\ Moved([pushed EXCEPT ![reg] = pushed[SP], ![SP] = Wrap32(pushed[SP] + displacement)])
             /\ Saves("link", {reg}, Long, regs[SP], pushed[SP])
     /\ UNCHANGED mapped

\* A7 is the frame pointer when the read faults.
Unlk(reg) ==
  LET a == Wrap(regs[reg])
      to == [regs EXCEPT ![SP] = regs[reg]]
  IN /\ frames # <<>> /\ Top.by = "link" /\ Top.list = {reg} /\ Top.low = regs[reg]
     /\ IF Faults(a, Long) THEN Moved(to) /\ UNCHANGED frames
        ELSE /\ Moved([to EXCEPT ![SP] = Wrap32(regs[reg] + Long), ![reg] = Joined(mem, a, Long)])
             /\ frames' = Tail1
     /\ UNCHANGED <<mem, mapped>>

-----------------------------------------------------------------------------

\* AddDevice, by the handler of a fault.
Attach ==
  /\ mapped # Ram
  /\ mapped' = Ram
  /\ UNCHANGED <<regs, mem, frames, attempt>>

Init ==
  /\ regs = [r \in Registers |-> IF r = SP THEN StackTop ELSE 0]
  /\ mem = [a \in Ram |-> 0]
  /\ mapped = Ram \ Late
  /\ frames = <<>>
  /\ attempt = NoAttempt

Next ==
  \/ \E m \in Moves : Push(m[1], m[2]) \/ Pop(m[1], m[2])
  \/ \E r \in Registers, value \in Immediates : Load(r, value)
  \/ Drop
  \/ \E list \in Lists, size \in {Word, Long} :
       MovemStore(list, size) \/ \E reg \in Registers : MovemLoad(reg, list, size)
  \/ \E reg \in Registers : Unlk(reg) \/ \E displacement \in Displacements : Link(reg, displacement)
  \/ Attach

Spec == Init /\ [][Next]_vars

-----------------------------------------------------------------------------
\* Properties.

(* What the code has saved lies on its stack unchanged, blocks on top of   *)
(* each other, whatever instructions above it complete, fault half-way or  *)
(* are tried again.                                                        *)
SavedIntact ==
  \A i \in DOMAIN frames :
    LET f == frames[i]
    IN /\ \A r \in f.list :
            Joined(mem, At(f.low, f.list, f.size, r), f.size) = Low(f.saved[r], f.size)
       /\ i > 1 => f.top <= frames[i - 1].low

(* Taking a block back restores the registers it holds (MOVEM sign-extends *)
(* words, MOVE replaces the low part of a data register), the stack        *)
(* pointer, and nothing else.                                              *)
Restored(f, r) ==
  CASE f.by = "movem" \/ ~IsData(r) -> SignExtended(f.saved[r], f.size)
    [] OTHER -> regs[r] - Low(regs[r], f.size) + Low(f.saved[r], f.size)

BlocksRestored ==
  [][Len(frames') < Len(frames) =>
       regs' = [r \in Registers |-> CASE r = SP -> Top.top
                                      [] r \in Top.list -> Restored(Top, r)
                                      [] OTHER -> regs[r]]]_vars

(* A MOVEM that has faulted in the middle and is executed again once the   *)
(* memory is there does what it would have done at once (a load that       *)
(* replaces its own base register has lost the base).                      *)
RetriesExact ==
  attempt # NoAttempt /\ attempt.done =>
    LET i == attempt.of
        end == Wrap32(attempt.from[i.reg] + i.size * Cardinality(i.list))
        Memory(r) == Joined(mem, At(attempt.first, i.list, i.size, r), i.size)
    IN /\ i.to = "memory" =>
            /\ regs = [attempt.from EXCEPT ![i.reg] = attempt.first]
            /\ \A r \in i.list : Memory(r) = Low(attempt.from[r], i.size)
       /\ i.to = "registers" /\ i.reg \notin i.list =>
            regs = [r \in Registers |-> CASE r = i.reg -> end
                                          [] r \in i.list -> SignExtended(Memory(r), i.size)
                                          [] OTHER -> attempt.from[r]]
=============================================================================
