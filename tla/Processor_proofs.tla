-------------------------- MODULE Processor_proofs --------------------------
(***************************************************************************)
(* Proofs about the processor core, for every address space, memory        *)
(* layout, vector table, program and set of devices.                       *)
(***************************************************************************)
EXTENDS Processor, SequenceTheorems, TLAPS

Controller == INSTANCE InterruptController_proofs

-----------------------------------------------------------------------------
\* Words and addresses.

LEMMA WordIs == MaxWord \in Nat /\ \A x \in Nat : x <= MaxWord => x \in Word
<1>1. MaxWord \in Nat
  BY DEF MaxWord
<1> QED
  BY <1>1 DEF Word

LEMMA AddressIs == Address \subseteq Nat /\ Address \subseteq Word
<1>1. \A a \in Address : a \in Nat /\ a <= MaxWord
  BY WordIs, SpaceAssumption DEF Address
<1> QED
  BY <1>1, WordIs

LEMMA Reduce == ASSUME NEW a \in Nat PROVE a % Space \in Address
<1>1. Space \in Nat \ {0}
  BY WordIs, SpaceAssumption
<1>2. ASSUME NEW m \in Nat \ {0} PROVE a % m \in 0 .. (m - 1)
  OBVIOUS
<1> QED
  BY <1>1, <1>2 DEF Address

LEMMA PlusType == ASSUME NEW a \in Address, NEW n \in Nat PROVE Plus(a, n) \in Address
<1>1. a + n \in Nat
  BY WordIs, SpaceAssumption DEF Address
<1> QED
  BY <1>1, Reduce DEF Plus

LEMMA MinusType == ASSUME NEW a \in Address, NEW n \in 0 .. 14 PROVE Minus(a, n) \in Address
<1>1. a + Space - n \in Nat
  BY WordIs, SpaceAssumption DEF Address
<1> QED
  BY <1>1, Reduce DEF Minus

LEMMA Codec ==
  /\ \A sr \in StatusRegister : Encode(sr) \in Word
  /\ \A w \in Word : Decode(w) \in StatusRegister
<1>1. ASSUME NEW sr \in StatusRegister PROVE Encode(sr) \in Word
  <2>1. sr.mask \in 0 .. 7
    BY DEF StatusRegister
  <2>2. \A a \in 0 .. 7, b \in {0, 8192} : b + 256 * a \in Nat /\ b + 256 * a <= 65535
    OBVIOUS
  <2>3. Encode(sr) \in Nat /\ Encode(sr) <= 65535
    BY <2>1, <2>2 DEF Encode
  <2>4. Encode(sr) <= MaxWord
    BY <2>3 DEF MaxWord
  <2> QED
    BY <2>3, <2>4, WordIs
<1>2. ASSUME NEW w \in Word PROVE Decode(w) \in StatusRegister
  <2>1. (w \div 256) % 8 \in 0 .. 7
    BY DEF Word
  <2>2. ((w \div 8192) % 2 = 1) \in BOOLEAN
    OBVIOUS
  <2> QED
    BY <2>1, <2>2 DEF Decode, StatusRegister
<1> QED
  BY <1>1, <1>2

LEMMA SetSRType ==
  ASSUME NEW r \in Registers, NEW sr \in StatusRegister
  PROVE  SetSR(r, sr) \in Registers
<1>1. r.sr \in StatusRegister /\ r.sr.s \in BOOLEAN /\ sr.s \in BOOLEAN
  BY DEF Registers, StatusRegister
<1>2. CASE sr.s = r.sr.s
  BY <1>2 DEF SetSR, Registers
<1>3. CASE sr.s /\ ~r.sr.s
  BY <1>3 DEF SetSR, Registers
<1>4. CASE ~sr.s /\ r.sr.s
  BY <1>4 DEF SetSR, Registers
<1> QED
  BY <1>1, <1>2, <1>3, <1>4

LEMMA SupervisorType == \A sr \in StatusRegister : Supervisor(sr) \in StatusRegister
BY DEF Supervisor, StatusRegister

-----------------------------------------------------------------------------
\* Faults and memory accesses.

Fault == [vector : {0, XBusError, XAddressError}, address : Address]

LEMMA FaultType ==
  ASSUME NEW a \in Address, NEW mapped
  PROVE  /\ FaultAt(a, mapped) \in Fault
         /\ FaultAt(a, mapped) = NoFault => a \in mapped
<1>1. a % 2 \in {0, 1}
  BY AddressIs
<1>2. 0 \in Address
  BY WordIs, SpaceAssumption DEF Address
<1>3. CASE a % 2 = 1
  BY <1>3 DEF FaultAt, Fault, NoFault, XAddressError
<1>4. CASE a % 2 = 0 /\ a \notin mapped
  BY <1>4 DEF FaultAt, Fault, NoFault, XBusError
<1>5. CASE a % 2 = 0 /\ a \in mapped
  BY <1>2, <1>5 DEF FaultAt, Fault, NoFault
<1> QED
  BY <1>1, <1>3, <1>4, <1>5

\* At most seven words are accessed in one go: the group 0 stack frame.
LEMMA SmallestIndex ==
  ASSUME NEW S, S \subseteq 1 .. 7, S # {}
  PROVE  Min(S) \in S
<1>1. \E x \in S : \A y \in S : x <= y
  <2>1. PICK x \in S : TRUE
    OBVIOUS
  <2> QED
    BY <2>1
<1> QED
  BY <1>1 DEF Min

LEMMA FirstFaultType ==
  ASSUME NEW n \in 0 .. 7, NEW accesses \in [1 .. n -> Address], NEW mapped
  PROVE  /\ FirstFault(accesses, mapped) \in 0 .. n
         /\ FirstFault(accesses, mapped) # 0 =>
              FaultAt(accesses[FirstFault(accesses, mapped)], mapped) # NoFault
         /\ FirstFault(accesses, mapped) = 0 =>
              \A i \in 1 .. n : FaultAt(accesses[i], mapped) = NoFault
<1> DEFINE faulty == {i \in DOMAIN accesses : FaultAt(accesses[i], mapped) # NoFault}
<1>1. FirstFault(accesses, mapped) = IF faulty = {} THEN 0 ELSE Min(faulty)
  BY DEF FirstFault
<1>2. DOMAIN accesses = 1 .. n /\ 1 .. n \subseteq 1 .. 7
  OBVIOUS
<1>3. faulty # {} => Min(faulty) \in faulty
  BY <1>2, SmallestIndex
<1>4. CASE faulty = {}
  BY <1>1, <1>2, <1>4
<1>5. CASE faulty # {}
  BY <1>1, <1>2, <1>3, <1>5
<1> QED
  BY <1>4, <1>5

LEMMA WriteWordsType ==
  ASSUME NEW n \in 0 .. 7, NEW addresses \in [1 .. n -> Address],
         NEW values \in [1 .. n -> Word], NEW m \in [Ram -> Word]
  PROVE  /\ WriteWords(m, addresses, values).bad \in 0 .. n
         /\ WriteWords(m, addresses, values).fault \in Fault
         /\ WriteWords(m, addresses, values).mem \in [Ram -> Word]
<1> DEFINE bad  == FirstFault(addresses, Ram)
           done == IF bad = 0 THEN DOMAIN addresses ELSE 1 .. (bad - 1)
           new  == [a \in Ram |-> IF \E i \in done : addresses[i] = a
                                  THEN values[CHOOSE i \in done : addresses[i] = a]
                                  ELSE m[a]]
           fault == IF bad = 0 THEN NoFault ELSE FaultAt(addresses[bad], Ram)
<1>1. WriteWords(m, addresses, values) = [bad |-> bad, fault |-> fault, mem |-> new]
  BY DEF WriteWords
<1>2. bad \in 0 .. n
  BY FirstFaultType
<1>3. fault \in Fault
  <2>1. 0 \in Address
    BY WordIs, SpaceAssumption DEF Address
  <2>2. CASE bad = 0
    BY <2>1, <2>2 DEF NoFault, Fault
  <2>3. CASE bad # 0
    <3>1. addresses[bad] \in Address
      BY <1>2, <2>3
    <3> QED
      BY <3>1, <2>3, FaultType
  <2> QED
    BY <2>2, <2>3
<1>4. done \subseteq 1 .. n
  BY <1>2
<1>5. ASSUME NEW a \in Ram PROVE new[a] \in Word
  <2> HIDE DEF done
  <2>1. CASE \E i \in done : addresses[i] = a
    BY <1>4, <2>1
  <2>2. CASE ~ \E i \in done : addresses[i] = a
    BY <2>2
  <2> QED
    BY <2>1, <2>2
<1>6. new \in [Ram -> Word]
  BY <1>5
<1> HIDE DEF bad, new, fault
<1> QED
  BY <1>1, <1>2, <1>3, <1>6

LEMMA HandlerType == \A v \in 0 .. 255 : Handler(v) \in Address
BY VectorTableAssumption DEF Handler, XUninitializedInt

-----------------------------------------------------------------------------
\* Exception processing.

Memory == [Ram -> Word]
Exceptions == [fault : Fault, mem : Memory, regs : Registers, frame : Frame]

LEMMA ShortExceptionType ==
  ASSUME NEW r \in Registers, NEW m \in Memory, NEW vector \in 0 .. 255,
         NEW sr \in StatusRegister, NEW pc \in Address
  PROVE  ShortException(r, m, vector, sr, pc) \in Exceptions
<1> DEFINE entered   == SetSR(r, sr)
           top       == entered.a7
           addresses == <<Minus(top, 4), Minus(top, 2), Minus(top, 6)>>
           values    == <<0, pc, Encode(r.sr)>>
           w         == WriteWords(m, addresses, values)
           sp        == Minus(top, IF w.bad \in {1, 2} THEN 4 ELSE 6)
           regs1     == [entered EXCEPT !.a7 = sp,
                                        !.pc = IF w.bad = 0 THEN Handler(vector) ELSE @]
           frame     == [sp |-> sp, sr |-> r.sr, pc |-> pc, a7 |-> r.a7, level |-> 0]
<1>1. entered \in Registers
  BY SetSRType
<1>2. top \in Address
  BY <1>1 DEF Registers
<1>3. addresses \in [1 .. 3 -> Address]
  BY <1>2, MinusType
<1>4. values \in [1 .. 3 -> Word]
  <2>1. Encode(r.sr) \in Word
    BY Codec DEF Registers
  <2>2. 0 \in Word /\ pc \in Word
    BY WordIs, AddressIs
  <2> QED
    BY <2>1, <2>2
<1> HIDE DEF entered, top, addresses, values
<1>5. w.bad \in 0 .. 3 /\ w.fault \in Fault /\ w.mem \in Memory
  BY <1>3, <1>4, WriteWordsType DEF Memory
<1>6. sp \in Address
  BY <1>2, MinusType
<1> HIDE DEF w, sp
<1>7. regs1 \in Registers
  BY <1>1, <1>6, HandlerType DEF Registers
<1>8. frame \in Frame
  BY <1>6 DEF Frame, Registers
<1>9. ShortException(r, m, vector, sr, pc)
        = [fault |-> w.fault, mem |-> w.mem, regs |-> regs1, frame |-> frame]
  BY DEF ShortException, entered, top, addresses, values, w, sp
<1> HIDE DEF regs1, frame
<1> QED
  BY <1>5, <1>7, <1>8, <1>9 DEF Exceptions

LEMMA SevenWords ==
  ASSUME NEW a \in Word, NEW b \in Word, NEW c \in Word
  PROVE  <<0, 0, a, 0, b, 0, c>> \in [1 .. 7 -> Word]
<1>1. 0 \in Word
  BY WordIs
<1>2. <<0, 0, a, 0>> \in Seq(Word) /\ <<b, 0, c>> \in Seq(Word)
  BY <1>1
<1>3. <<0, 0, a, 0, b, 0, c>> = <<0, 0, a, 0>> \o <<b, 0, c>>
  OBVIOUS
<1>4. <<0, 0, a, 0, b, 0, c>> \in Seq(Word)
  BY <1>2, <1>3
<1>5. Len(<<0, 0, a, 0, b, 0, c>>) = 7
  OBVIOUS
<1> QED
  BY <1>4, <1>5

LEMMA Group0ExceptionType ==
  ASSUME NEW r \in Registers, NEW m \in Memory, NEW fault \in Fault
  PROVE  Group0Exception(r, m, fault) \in Exceptions
<1> DEFINE entered   == SetSR(r, Supervisor(r.sr))
           sp        == Minus(entered.a7, 14)
           addresses == [i \in 1 .. 7 |-> Plus(sp, 2 * (i - 1))]
           values    == <<0, 0, fault.address, 0, Encode(r.sr), 0, r.pc>>
           w         == WriteWords(m, addresses, values)
           regs1     == [entered EXCEPT !.a7 = sp,
                                        !.pc = IF w.bad = 0 THEN Handler(fault.vector) ELSE @]
           frame     == [sp |-> Plus(sp, 8), sr |-> r.sr, pc |-> r.pc, a7 |-> r.a7, level |-> 0]
<1>1. entered \in Registers
  <2>1. Supervisor(r.sr) \in StatusRegister
    BY SupervisorType DEF Registers
  <2> QED
    BY <2>1, SetSRType
<1>2. sp \in Address
  <2>1. entered.a7 \in Address
    BY <1>1 DEF Registers
  <2> HIDE DEF entered
  <2> QED
    BY <2>1, MinusType
<1>3. addresses \in [1 .. 7 -> Address]
  <2> HIDE DEF sp
  <2>1. \A i \in 1 .. 7 : 2 * (i - 1) \in Nat
    OBVIOUS
  <2> QED
    BY <1>2, <2>1, PlusType
<1>4. values \in [1 .. 7 -> Word]
  <2>1. Encode(r.sr) \in Word
    BY Codec DEF Registers
  <2>2. r.pc \in Address /\ fault.address \in Address
    BY DEF Registers, Fault
  <2>3. r.pc \in Word /\ fault.address \in Word
    BY <2>2, AddressIs
  <2> QED
    BY <2>1, <2>3, SevenWords
<1> HIDE DEF entered, sp, addresses, values
<1>5. w.bad \in 0 .. 7 /\ w.fault \in Fault /\ w.mem \in Memory
  BY <1>3, <1>4, WriteWordsType DEF Memory
<1>6. Handler(fault.vector) \in Address
  BY HandlerType DEF Fault, XBusError, XAddressError
<1> HIDE DEF w
<1>7. regs1 \in Registers
  BY <1>1, <1>2, <1>6 DEF Registers
<1>8. frame \in Frame
  BY <1>2, PlusType DEF Frame, Registers
<1>9. Group0Exception(r, m, fault)
        = [fault |-> w.fault, mem |-> w.mem, regs |-> regs1, frame |-> frame]
  BY DEF Group0Exception, entered, sp, addresses, values, w
<1> HIDE DEF regs1, frame
<1> QED
  BY <1>5, <1>7, <1>8, <1>9 DEF Exceptions

\* What the steps below have to establish, besides the controller's variables.
CoreType ==
  /\ regs \in Registers
  /\ mem \in Memory
  /\ frames \in Seq(Frame)
  /\ outcome \in {"ok", "error"}

LEMMA EnterType ==
  ASSUME NEW e \in Exceptions, NEW level \in 0 .. 7, frames \in Seq(Frame), Enter(e, level)
  PROVE  regs' \in Registers /\ mem' \in Memory /\ frames' \in Seq(Frame)
<1>1. e.regs \in Registers /\ e.mem \in Memory /\ e.frame \in Frame
  BY DEF Exceptions
<1>2. [e.frame EXCEPT !.level = level] \in Frame
  BY <1>1 DEF Frame
<1> QED
  BY <1>1, <1>2 DEF Enter

LEMMA FaultErrorType ==
  ASSUME CoreType, NEW r \in Registers, NEW m \in Memory, NEW fault \in Fault,
         NEW next \in {"idle", "check"}, FaultError(r, m, fault, next)
  PROVE  CoreType' /\ phase' \in {"idle", "check"}
<1> DEFINE e == Group0Exception(r, m, fault)
<1>1. e \in Exceptions
  BY Group0ExceptionType
<1>2. /\ Enter(e, 0)
      /\ \/ Finish("error")
         \/ Finish("ok")
         \/ Continue("check")
  BY DEF FaultError
<1> HIDE DEF e
<1>3. regs' \in Registers /\ mem' \in Memory /\ frames' \in Seq(Frame)
  BY <1>1, <1>2, EnterType DEF CoreType
<1> QED
  BY <1>2, <1>3 DEF CoreType, Finish, Continue

LEMMA RaiseType ==
  ASSUME CoreType, NEW vector \in 0 .. 255, NEW pc \in Address, Raise(vector, pc)
  PROVE  CoreType' /\ phase' \in {"idle", "check"}
<1> DEFINE e == ShortException(regs, mem, vector, Supervisor(regs.sr), pc)
<1>1. e \in Exceptions
  <2>1. Supervisor(regs.sr) \in StatusRegister
    BY SupervisorType DEF CoreType, Registers
  <2> QED
    BY <2>1, ShortExceptionType DEF CoreType
<1>2. \/ Enter(e, 0) /\ Continue("check")
      \/ FaultError(e.regs, e.mem, e.fault, "check")
  BY DEF Raise
<1> HIDE DEF e
<1>3. CASE Enter(e, 0) /\ Continue("check")
  BY <1>1, <1>3, EnterType DEF CoreType, Continue
<1>4. CASE FaultError(e.regs, e.mem, e.fault, "check")
  BY <1>1, <1>4, FaultErrorType DEF Exceptions
<1> QED
  BY <1>2, <1>3, <1>4

LEMMA CompleteType ==
  ASSUME CoreType, NEW r \in Registers, NEW m \in Memory, Complete(r, m),
         frames' \in Seq(Frame)
  PROVE  CoreType' /\ phase' \in {"idle", "check"}
BY DEF CoreType, Complete, Continue

LEMMA StackType ==
  ASSUME CoreType, NEW n \in 1 .. 7
  PROVE  /\ StackFault(n) \in Fault
         /\ StackFault(n) = NoFault => \A k \in 0 .. (n - 1) : StackWord(k) \in Word
<1> DEFINE cells == [i \in 1 .. n |-> Plus(regs.a7, 2 * (i - 1))]
           bad   == FirstFault(cells, Ram)
<1>1. cells \in [1 .. n -> Address]
  <2>1. \A i \in 1 .. n : 2 * (i - 1) \in Nat
    OBVIOUS
  <2>2. regs.a7 \in Address
    BY DEF CoreType, Registers
  <2> QED
    BY <2>1, <2>2, PlusType
<1>2. StackFault(n) = IF bad = 0 THEN NoFault ELSE FaultAt(cells[bad], Ram)
  BY DEF StackFault
<1>3. ASSUME NEW k \in 0 .. (n - 1)
      PROVE  k + 1 \in 1 .. n /\ cells[k + 1] = Plus(regs.a7, 2 * k)
  <2>1. k + 1 \in 1 .. n /\ (k + 1) - 1 = k
    OBVIOUS
  <2> QED
    BY <2>1, Zenon
<1> HIDE DEF cells
<1>4. /\ bad \in 0 .. n
      /\ bad # 0 => FaultAt(cells[bad], Ram) # NoFault
      /\ bad = 0 => \A i \in 1 .. n : FaultAt(cells[i], Ram) = NoFault
  <2>1. n \in 0 .. 7
    OBVIOUS
  <2> QED
    BY <1>1, <2>1, FirstFaultType
<1> HIDE DEF bad
<1>5. CASE bad # 0
  <2>1. bad \in 1 .. n
    BY <1>4, <1>5
  <2>2. cells[bad] \in Address
    BY <1>1, <2>1
  <2> QED
    BY <1>2, <1>4, <1>5, <2>2, FaultType
<1>6. CASE bad = 0
  <2>1. NoFault \in Fault
    BY WordIs, SpaceAssumption DEF NoFault, Fault, Address
  <2>2. ASSUME NEW k \in 0 .. (n - 1) PROVE StackWord(k) \in Word
    <3>1. k + 1 \in 1 .. n /\ cells[k + 1] = Plus(regs.a7, 2 * k)
      BY <1>3
    <3>2. cells[k + 1] \in Address
      BY <1>1, <3>1
    <3>3. cells[k + 1] \in Ram
      BY <1>4, <1>6, <3>1, <3>2, FaultType
    <3> QED
      BY <3>1, <3>3 DEF StackWord, CoreType, Memory
  <2> QED
    BY <1>2, <1>6, <2>1, <2>2
<1> QED
  BY <1>5, <1>6

-----------------------------------------------------------------------------
\* The interrupt controller inside the CPU.

LEMMA ControllerType == IC!TypeOK <=> Controller!TypeOK
BY DEF IC!TypeOK, Controller!TypeOK, IC!Levels, Controller!Levels, IC!PendingInterrupt,
       Controller!PendingInterrupt, IC!Grants, Controller!Grants, IC!NoGrant, Controller!NoGrant

LEMMA ControllerTypeNext == Controller!TypeOK' => IC!TypeOK'
BY DEF IC!TypeOK, Controller!TypeOK, IC!Levels, Controller!Levels, IC!PendingInterrupt,
       Controller!PendingInterrupt, IC!Grants, Controller!Grants, IC!NoGrant, Controller!NoGrant

(* The controller's own proof carries over to its copy inside the CPU.     *)
LEMMA AcceptType ==
  ASSUME IC!TypeOK, NEW level \in RequestLevels, NEW vector \in Vectors \cup {NoVector},
         IC!Accept(level, vector)
  PROVE  IC!TypeOK'
<1>1. Controller!Accept(level, vector)
  BY DEF IC!Accept, Controller!Accept, IC!Levels, Controller!Levels, IC!NewRequest,
         Controller!NewRequest, IC!AutoVectorBase, Controller!AutoVectorBase
<1>2. Controller!Next
  BY <1>1 DEF Controller!Next, Controller!Request
<1>3. Controller!TypeOK'
  BY <1>2, ControllerType, Controller!TypeNext, DevicesAssumption
<1> QED
  BY <1>3, ControllerTypeNext

LEMMA DeliverType ==
  ASSUME IC!TypeOK, NEW mask \in 0 .. 7, IC!Deliver(mask)
  PROVE  IC!TypeOK' /\ grant' \in IC!Grants
<1>1. Controller!Deliver(mask)
  BY DEF IC!Deliver, Controller!Deliver, IC!Acceptable, Controller!Acceptable, IC!Levels,
         Controller!Levels, IC!HighestNonEmpty, Controller!HighestNonEmpty, IC!Max, Controller!Max
<1>2. Controller!Next
  BY <1>1 DEF Controller!Next, Controller!Pending, Controller!Masks
<1>3. Controller!TypeOK'
  BY <1>2, ControllerType, Controller!TypeNext, DevicesAssumption
<1>4. IC!TypeOK'
  BY <1>3, ControllerTypeNext
<1>5. grant'.ok
  BY DEF IC!Deliver
<1>6. ~IC!NoGrant.ok
  BY DEF IC!NoGrant
<1>7. grant' \in IC!Grants
  BY <1>4, <1>5, <1>6 DEF IC!TypeOK
<1> QED
  BY <1>4, <1>7

LEMMA ControllerResetType ==
  ASSUME IC!TypeOK, IC!Reset
  PROVE  IC!TypeOK'
<1>1. Controller!Reset
  BY DEF IC!Reset, Controller!Reset, IC!Levels, Controller!Levels
<1>2. Controller!Next
  BY <1>1 DEF Controller!Next
<1>3. Controller!TypeOK'
  BY <1>2, ControllerType, Controller!TypeNext, DevicesAssumption
<1> QED
  BY <1>3, ControllerTypeNext

LEMMA ControllerKept ==
  ASSUME IC!TypeOK, UNCHANGED interrupts
  PROVE  IC!TypeOK'
BY DEF interrupts, IC!TypeOK

-----------------------------------------------------------------------------
\* The instructions.

LEMMA InstructionsType == Instructions \subseteq Instruction
BY ProgramAssumption DEF Instructions

LEMMA RegisterTypes ==
  ASSUME CoreType
  PROVE  /\ regs.sr \in StatusRegister /\ regs.pc \in Address /\ regs.a7 \in Address
         /\ regs.usp \in Address /\ regs.ssp \in Address
BY DEF CoreType, Registers

LEMMA LongType ==
  ASSUME NEW k \in Nat, StackWord(k + 1) \in Word
  PROVE  LongAt(k) \in Address
<1>1. StackWord(k + 1) \in Nat
  BY WordIs DEF Word
<1> QED
  BY <1>1, Reduce DEF LongAt

\* Updates of single registers.
LEMMA RegisterUpdates ==
  ASSUME NEW r \in Registers, NEW a \in Address, NEW b \in Address
  PROVE  /\ [r EXCEPT !.pc = a] \in Registers
         /\ [r EXCEPT !.a7 = a] \in Registers
         /\ [r EXCEPT !.usp = a] \in Registers
         /\ [r EXCEPT !.a7 = a, !.pc = b] \in Registers
BY DEF Registers

Done == CoreType' /\ phase' \in {"idle", "check"}

LEMMA SimpleInstructionType ==
  ASSUME CoreType, NEW i \in Instructions,
         Nop(i) \/ Jump(i) \/ MoveA7(i) \/ AddA7(i) \/ MoveToUsp(i) \/ MoveFromUsp(i)
  PROVE  Done
<1>1. i.arg \in Address /\ i.arg \in Nat
  BY InstructionsType, AddressIs DEF Instruction
<1>2. regs \in Registers /\ mem \in Memory /\ frames \in Seq(Frame)
  BY DEF CoreType
<1>3. CASE Nop(i)
  BY <1>2, <1>3, CompleteType DEF Nop, KeepFrames, Done
<1>4. CASE Jump(i)
  BY <1>1, <1>2, <1>4, RegisterUpdates, CompleteType DEF Jump, KeepFrames, Done
<1>5. CASE MoveA7(i)
  BY <1>1, <1>2, <1>5, RegisterUpdates, CompleteType DEF MoveA7, KeepFrames, Done
<1>6. CASE AddA7(i)
  BY <1>1, <1>2, <1>6, RegisterTypes, PlusType, RegisterUpdates, CompleteType
     DEF AddA7, KeepFrames, Done
<1>7. CASE MoveToUsp(i)
  BY <1>1, <1>2, <1>7, RegisterUpdates, CompleteType DEF MoveToUsp, KeepFrames, Done
<1>8. CASE MoveFromUsp(i)
  BY <1>2, <1>8, RegisterTypes, RegisterUpdates, CompleteType DEF MoveFromUsp, KeepFrames, Done
<1> QED
  BY <1>3, <1>4, <1>5, <1>6, <1>7, <1>8

LEMMA StoreType ==
  ASSUME CoreType, NEW i \in Instructions, Store(i)
  PROVE  Done
<1> DEFINE w == WriteWords(mem, <<i.arg>>, <<i.word>>)
<1>1. i.arg \in Address /\ i.word \in Word
  BY InstructionsType DEF Instruction
<1>2. regs \in Registers /\ mem \in Memory /\ frames \in Seq(Frame)
  BY DEF CoreType
<1>3. <<i.arg>> \in [1 .. 1 -> Address] /\ <<i.word>> \in [1 .. 1 -> Word]
  BY <1>1
<1>4. w.fault \in Fault /\ w.mem \in Memory
  BY <1>2, <1>3, WriteWordsType DEF Memory
<1>5. \/ Complete(regs, w.mem) /\ KeepFrames
      \/ FaultError(regs, w.mem, w.fault, "check")
  BY DEF Store
<1> HIDE DEF w
<1> QED
  BY <1>2, <1>4, <1>5, CompleteType, FaultErrorType DEF KeepFrames, Done

LEMMA JsrType ==
  ASSUME CoreType, NEW i \in Instructions, Jsr(i)
  PROVE  Done
<1> DEFINE r == [regs EXCEPT !.a7 = Minus(@, 4)]
           w == WriteWords(mem, <<r.a7, Plus(r.a7, 2)>>, <<0, regs.pc>>)
<1>1. i.arg \in Address
  BY InstructionsType DEF Instruction
<1>2. regs \in Registers /\ mem \in Memory /\ frames \in Seq(Frame)
  BY DEF CoreType
<1>3. r \in Registers
  <2>1. Minus(regs.a7, 4) \in Address
    BY RegisterTypes, MinusType
  <2> QED
    BY <1>2, <2>1, RegisterUpdates
<1>4. w.fault \in Fault /\ w.mem \in Memory
  <2>1. r.a7 \in Address /\ Plus(r.a7, 2) \in Address
    BY <1>3, PlusType DEF Registers
  <2>2. regs.pc \in Address
    BY RegisterTypes
  <2>3. 0 \in Word /\ regs.pc \in Word
    <3>1. 0 \in Word
      BY WordIs
    <3> QED
      BY <2>2, <3>1, AddressIs, Zenon
  <2> HIDE DEF r
  <2>4. /\ <<r.a7, Plus(r.a7, 2)>> \in [1 .. 2 -> Address]
        /\ <<0, regs.pc>> \in [1 .. 2 -> Word]
    BY <2>1, <2>3
  <2>5. \A addresses \in [1 .. 2 -> Address], values \in [1 .. 2 -> Word] :
          /\ WriteWords(mem, addresses, values).fault \in Fault
          /\ WriteWords(mem, addresses, values).mem \in Memory
    BY <1>2, WriteWordsType DEF Memory
  <2> QED
    BY <2>4, <2>5
<1>5. \/ Complete([r EXCEPT !.pc = i.arg], w.mem) /\ KeepFrames
      \/ FaultError(r, w.mem, w.fault, "check")
  BY DEF Jsr
<1> HIDE DEF r, w
<1>6. [r EXCEPT !.pc = i.arg] \in Registers
  BY <1>1, <1>3, RegisterUpdates
<1> QED
  BY <1>2, <1>3, <1>4, <1>5, <1>6, CompleteType, FaultErrorType DEF KeepFrames, Done

LEMMA ReturnType ==
  ASSUME CoreType, NEW i \in Instructions, Rts(i) \/ Rte(i) \/ Rtr(i)
  PROVE  Done
<1>1. regs \in Registers /\ mem \in Memory /\ frames \in Seq(Frame)
  BY DEF CoreType
<1>2. /\ StackFault(1) \in Fault /\ StackFault(2) \in Fault /\ StackFault(3) \in Fault
      /\ StackFault(2) = NoFault => LongAt(0) \in Address
      /\ StackFault(3) = NoFault => LongAt(1) \in Address /\ StackWord(0) \in Word
  <2>1. /\ StackFault(2) \in Fault
        /\ StackFault(2) = NoFault => StackWord(1) \in Word
    BY StackType
  <2>2. /\ StackFault(3) \in Fault
        /\ StackFault(3) = NoFault => StackWord(2) \in Word /\ StackWord(0) \in Word
    BY StackType
  <2>3. StackFault(1) \in Fault
    BY StackType
  <2>4. StackWord(0 + 1) = StackWord(1) /\ StackWord(1 + 1) = StackWord(2)
    OBVIOUS
  <2> QED
    BY <2>1, <2>2, <2>3, <2>4, LongType
<1>3. \A n \in {2, 4, 6} : Plus(regs.a7, n) \in Address
  BY RegisterTypes, PlusType
<1> DEFINE popped == [regs EXCEPT !.a7 = Plus(@, 2)]
<1>4. popped \in Registers
  BY <1>1, <1>3, RegisterUpdates
<1>5. CASE Rts(i)
  <2>1. \/ FaultError(regs, mem, StackFault(2), "check")
        \/ /\ StackFault(2) = NoFault
           /\ Complete([regs EXCEPT !.a7 = Plus(@, 4), !.pc = LongAt(0)], mem)
           /\ KeepFrames
    BY <1>5 DEF Rts
  <2>2. StackFault(2) = NoFault =>
          [regs EXCEPT !.a7 = Plus(@, 4), !.pc = LongAt(0)] \in Registers
    BY <1>1, <1>2, <1>3, RegisterUpdates
  <2> QED
    BY <1>1, <1>2, <2>1, <2>2, CompleteType, FaultErrorType DEF KeepFrames, Done
<1>6. CASE Rtr(i)
  <2>1. \/ FaultError(regs, mem, StackFault(1), "check")
        \/ FaultError(popped, mem, StackFault(3), "check")
        \/ /\ StackFault(3) = NoFault
           /\ Complete([regs EXCEPT !.a7 = Plus(@, 6), !.pc = LongAt(1)], mem)
           /\ KeepFrames
    BY <1>6 DEF Rtr
  <2>2. StackFault(3) = NoFault =>
          [regs EXCEPT !.a7 = Plus(@, 6), !.pc = LongAt(1)] \in Registers
    BY <1>1, <1>2, <1>3, RegisterUpdates
  <2> HIDE DEF popped
  <2> QED
    BY <1>1, <1>2, <1>4, <2>1, <2>2, CompleteType, FaultErrorType DEF KeepFrames, Done
<1>7. CASE Rte(i)
  <2> DEFINE r == [SetSR([regs EXCEPT !.a7 = Plus(@, 6)], Decode(StackWord(0)))
                     EXCEPT !.pc = LongAt(1)]
  <2>1. \/ FaultError(regs, mem, StackFault(1), "check")
        \/ FaultError(popped, mem, StackFault(3), "check")
        \/ /\ StackFault(3) = NoFault
           /\ Complete(r, mem)
           /\ frames' = IF frames # <<>> /\ TopFrame.sp = regs.a7
                        THEN SubSeq(frames, 1, Len(frames) - 1)
                        ELSE frames
    BY <1>7 DEF Rte
  <2>2. StackFault(3) = NoFault => r \in Registers
    <3>1. [regs EXCEPT !.a7 = Plus(@, 6)] \in Registers
      BY <1>1, <1>3, RegisterUpdates
    <3>2. SUFFICES ASSUME StackFault(3) = NoFault PROVE r \in Registers
      OBVIOUS
    <3>3. SetSR([regs EXCEPT !.a7 = Plus(@, 6)], Decode(StackWord(0))) \in Registers
      BY <1>2, <3>1, <3>2, Codec, SetSRType
    <3> QED
      BY <1>2, <3>2, <3>3, RegisterUpdates
  <2>3. frames # <<>> => SubSeq(frames, 1, Len(frames) - 1) \in Seq(Frame)
    BY <1>1
  <2> HIDE DEF popped, r
  <2> QED
    BY <1>1, <1>2, <1>4, <2>1, <2>2, <2>3, CompleteType, FaultErrorType DEF Done
<1> QED
  BY <1>5, <1>6, <1>7

LEMMA ExceptionInstructionType ==
  ASSUME CoreType, NEW i \in Instructions,
         Trap(i) \/ Illegal(i) \/ LineA(i) \/ PrivilegeViolation(i)
  PROVE  Done
<1>1. regs.pc \in Address
  BY RegisterTypes
<1>2. CASE Trap(i)
  BY <1>1, <1>2, RaiseType DEF Trap, XTrap, Done
<1>3. CASE Illegal(i)
  BY <1>1, <1>3, RaiseType DEF Illegal, XIllegal, Done
<1>4. CASE PrivilegeViolation(i)
  BY <1>1, <1>4, RaiseType DEF PrivilegeViolation, XPrivViolation, Done
<1>5. CASE LineA(i)
  <2> DEFINE e == ShortException(regs, mem, XLineA, Supervisor(regs.sr), Minus(regs.pc, 2))
  <2>1. e \in Exceptions
    <3>1. Supervisor(regs.sr) \in StatusRegister
      BY RegisterTypes, SupervisorType
    <3>2. Minus(regs.pc, 2) \in Address /\ XLineA \in 0 .. 255
      BY <1>1, MinusType DEF XLineA
    <3> QED
      BY <3>1, <3>2, ShortExceptionType DEF CoreType
  <2>2. Enter(e, 0) /\ (Continue("check") \/ Finish("error"))
    BY <1>5 DEF LineA
  <2> HIDE DEF e
  <2>3. regs' \in Registers /\ mem' \in Memory /\ frames' \in Seq(Frame)
    BY <2>1, <2>2, EnterType DEF CoreType
  <2> QED
    BY <2>2, <2>3 DEF Done, CoreType, Continue, Finish
<1> QED
  BY <1>2, <1>3, <1>4, <1>5

LEMMA StatusInstructionType ==
  ASSUME CoreType, NEW i \in Instructions, Stop(i) \/ ResetInstruction(i) \/ MoveToSr(i)
  PROVE  Done
<1>1. regs \in Registers /\ mem \in Memory /\ frames \in Seq(Frame) /\ regs.pc \in Address
  BY DEF CoreType, Registers
<1>2. SetSR(regs, Decode(i.word)) \in Registers
  BY <1>1, Codec, SetSRType, InstructionsType DEF Instruction
<1>3. CASE MoveToSr(i)
  BY <1>1, <1>2, <1>3, CompleteType DEF MoveToSr, KeepFrames, Done
<1>4. CASE ResetInstruction(i)
  BY <1>1, <1>4, CompleteType DEF ResetInstruction, KeepFrames, Done
<1>5. CASE Stop(i)
  <2>1. Plus(regs.pc, 2) \in Address
    BY <1>1, PlusType
  <2>2. [SetSR(regs, Decode(i.word)) EXCEPT !.pc = Plus(regs.pc, 2)] \in Registers
    BY <1>2, <2>1, RegisterUpdates
  <2>3. FaultAt(regs.pc, Code) \in Fault
    BY <1>1, FaultType
  <2>4. \/ /\ Complete([SetSR(regs, Decode(i.word)) EXCEPT !.pc = Plus(regs.pc, 2)], mem)
           /\ KeepFrames
        \/ FaultError(regs, mem, FaultAt(regs.pc, Code), "check")
    BY <1>5 DEF Stop
  <2> QED
    BY <1>1, <2>2, <2>3, <2>4, CompleteType, FaultErrorType DEF KeepFrames, Done
<1> QED
  BY <1>3, <1>4, <1>5

-----------------------------------------------------------------------------
\* The type invariant.

LEMMA TypeInit == Init => TypeOK
<1> SUFFICES ASSUME Init PROVE TypeOK
  OBVIOUS
<1>1. 0 \in Address /\ 0 \in Word
  BY WordIs, SpaceAssumption DEF Address
<1>2. regs \in Registers
  BY <1>1, ResetAssumption DEF Init, ResetRegisters, Registers, StatusRegister
<1>3. mem \in [Ram -> Word]
  BY <1>1 DEF Init
<1>4. IC!TypeOK
  BY DEF Init, IC!Init, IC!TypeOK, IC!Levels, IC!NoGrant
<1>5. frames \in Seq(Frame)
  BY DEF Init
<1>6. phase = "idle" /\ resume = "idle" /\ outcome = "ok" /\ stopped = FALSE
  BY DEF Init
<1> QED
  BY <1>2, <1>3, <1>4, <1>5, <1>6, Zenon DEF TypeOK, Phases

LEMMA ExecuteType == ASSUME TypeOK, Execute PROVE TypeOK'
<1>1. PICK i \in Instructions :
        \/ Nop(i) \/ Jump(i) \/ MoveA7(i) \/ AddA7(i) \/ MoveToUsp(i) \/ MoveFromUsp(i)
        \/ Store(i) \/ Jsr(i)
        \/ Rts(i) \/ Rte(i) \/ Rtr(i)
        \/ Trap(i) \/ Illegal(i) \/ LineA(i) \/ PrivilegeViolation(i)
        \/ Stop(i) \/ ResetInstruction(i) \/ MoveToSr(i)
  BY DEF Execute
<1>2. CoreType
  BY DEF TypeOK, CoreType, Memory
<1>3. Done
  BY <1>1, <1>2, SimpleInstructionType, StoreType, JsrType, ReturnType,
     ExceptionInstructionType, StatusInstructionType
<1>4. resume' = resume /\ stopped' \in BOOLEAN
  BY <1>1 DEF TypeOK, Nop, Jump, MoveA7, AddA7, MoveToUsp, MoveFromUsp, Store, Jsr, Rts, Rte, Rtr,
     Trap, Illegal, LineA, PrivilegeViolation, Stop, ResetInstruction, MoveToSr, Plain
<1>5. UNCHANGED interrupts \/ IC!Reset
  BY <1>1 DEF Nop, Jump, MoveA7, AddA7, MoveToUsp, MoveFromUsp, Store, Jsr, Rts, Rte, Rtr,
     Trap, Illegal, LineA, PrivilegeViolation, Stop, ResetInstruction, MoveToSr, Plain
<1>6. IC!TypeOK'
  BY <1>5, ControllerKept, ControllerResetType DEF TypeOK
<1> QED
  BY <1>3, <1>4, <1>6 DEF Done, CoreType, Memory, TypeOK, Phases

LEMMA FetchType == ASSUME TypeOK, Fetch PROVE TypeOK'
<1>1. CoreType
  BY DEF TypeOK, CoreType, Memory
<1>2. regs.pc \in Address
  BY <1>1, RegisterTypes
<1>3. Plus(regs.pc, 2) \in Address
  BY <1>2, PlusType
<1>4. FaultAt(regs.pc, Code) \in Fault
  BY <1>2, FaultType
<1>5. \/ /\ regs' = [regs EXCEPT !.pc = Plus(@, 2)]
         /\ Continue("execute")
         /\ UNCHANGED <<mem, frames>>
      \/ FaultError(regs, mem, FaultAt(regs.pc, Code), "idle")
  BY DEF Fetch
<1>6. CoreType' /\ phase' \in {"idle", "check", "execute"}
  <2>1. CASE /\ regs' = [regs EXCEPT !.pc = Plus(@, 2)]
             /\ Continue("execute")
             /\ UNCHANGED <<mem, frames>>
    BY <1>1, <1>3, <2>1, RegisterUpdates DEF CoreType, Continue
  <2>2. CASE FaultError(regs, mem, FaultAt(regs.pc, Code), "idle")
    BY <1>1, <1>4, <2>2, FaultErrorType DEF CoreType
  <2> QED
    BY <1>5, <2>1, <2>2
<1>7. UNCHANGED <<stopped, resume>> /\ UNCHANGED interrupts
  BY DEF Fetch, Plain
<1>8. IC!TypeOK'
  BY <1>7, ControllerKept DEF TypeOK
<1> QED
  BY <1>6, <1>7, <1>8 DEF CoreType, Memory, TypeOK, Phases

LEMMA TakeInterruptType ==
  ASSUME TypeOK, NEW next \in {"idle", "fetch"}, TakeInterrupt(next)
  PROVE  TypeOK'
<1>1. regs.sr.mask \in 0 .. 7
  BY DEF TypeOK, Registers, StatusRegister
<1>2. IC!TypeOK' /\ grant' \in IC!Grants
  BY <1>1, DeliverType DEF TypeOK, TakeInterrupt
<1> QED
  BY <1>2 DEF TypeOK, TakeInterrupt, Continue, Phases

LEMMA AcceptStepType == ASSUME TypeOK, Accept PROVE TypeOK'
<1> DEFINE e == ShortException(regs, mem, grant.request.vector,
                               [s |-> TRUE, mask |-> grant.level], regs.pc)
<1>1. CoreType
  BY DEF TypeOK, CoreType, Memory
<1>2. grant \in IC!Grants
  BY DEF TypeOK, Accept
<1>3. grant.level \in 1 .. 7 /\ grant.request.vector \in 0 .. 255
  BY <1>2 DEF IC!Grants, IC!Levels, IC!PendingInterrupt
<1>4. [s |-> TRUE, mask |-> grant.level] \in StatusRegister
  BY <1>3 DEF StatusRegister
<1>5. e \in Exceptions
  BY <1>1, <1>3, <1>4, RegisterTypes, ShortExceptionType DEF CoreType
<1>6. Enter(e, grant.level) /\ (Finish("error") \/ Finish("ok") \/ Continue("fetch"))
  BY DEF Accept
<1> HIDE DEF e
<1>7. regs' \in Registers /\ mem' \in Memory /\ frames' \in Seq(Frame)
  BY <1>1, <1>3, <1>5, <1>6, EnterType DEF CoreType
<1>8. UNCHANGED <<stopped, resume>> /\ UNCHANGED interrupts
  BY DEF Accept, Plain
<1>9. IC!TypeOK'
  BY <1>8, ControllerKept DEF TypeOK
<1> QED
  BY <1>6, <1>7, <1>8, <1>9 DEF Memory, TypeOK, Phases, Finish, Continue

LEMMA RequestType ==
  ASSUME TypeOK, NEW level \in RequestLevels, NEW vector \in Vectors \cup {NoVector},
         RequestInterrupt(level, vector)
  PROVE  TypeOK'
<1>1. IC!TypeOK'
  BY AcceptType DEF TypeOK, RequestInterrupt
<1>2. grant' = grant
  BY DEF RequestInterrupt, IC!Accept
<1> QED
  BY <1>1, <1>2, ZenonT(60) DEF TypeOK, RequestInterrupt, IC!Grants, IC!Levels, IC!PendingInterrupt

LEMMA HostResetType == ASSUME TypeOK, HostReset PROVE TypeOK'
<1>1. IC!TypeOK'
  BY ControllerResetType DEF TypeOK, HostReset
<1>2. ResetRegisters \in Registers
  BY WordIs, SpaceAssumption, ResetAssumption
     DEF ResetRegisters, Registers, StatusRegister, Address
<1>3. <<>> \in Seq(Frame)
  OBVIOUS
<1> QED
  BY <1>1, <1>2, <1>3 DEF TypeOK, HostReset

LEMMA TypeNext == TypeOK /\ [Next]_vars => TypeOK'
<1> SUFFICES ASSUME TypeOK, [Next]_vars PROVE TypeOK'
  OBVIOUS
<1>1. CASE StepStopped
  <2>1. IC!TypeOK'
    BY <1>1, ControllerKept DEF StepStopped, TypeOK
  <2> QED
    BY <1>1, <2>1 DEF StepStopped, TypeOK, Finish, Phases
<1>2. CASE WakeUp
  BY <1>2, TakeInterruptType DEF WakeUp
<1>3. CASE Fetch
  BY <1>3, FetchType
<1>4. CASE Execute
  BY <1>4, ExecuteType
<1>5. CASE CheckNothing
  <2>1. IC!TypeOK'
    BY <1>5, ControllerKept DEF CheckNothing, TypeOK
  <2> QED
    BY <1>5, <2>1 DEF CheckNothing, TypeOK, Finish, Phases
<1>6. CASE CheckTakes
  BY <1>6, TakeInterruptType DEF CheckTakes
<1>7. CASE Accept
  BY <1>7, AcceptStepType
<1>8. ASSUME NEW level \in RequestLevels, NEW vector \in Vectors \cup {NoVector},
             RequestInterrupt(level, vector)
      PROVE  TypeOK'
  BY <1>8, RequestType
<1>9. CASE HostReset
  BY <1>9, HostResetType
<1>10. CASE UNCHANGED vars
  <2>1. IC!TypeOK'
    BY <1>10, ControllerKept DEF vars, TypeOK
  <2> QED
    BY <1>10, <2>1, ZenonT(60) DEF vars, interrupts, TypeOK, IC!Grants, IC!Levels, IC!PendingInterrupt
<1> QED
  BY <1>1, <1>2, <1>3, <1>4, <1>5, <1>6, <1>7, <1>8, <1>9, <1>10 DEF Next, StepMoves

(* Whatever the program, the memory map and the devices are, every address *)
(* register stays on the bus, SR keeps a mask of 0 to 7, and stacked words *)
(* are words.                                                              *)
THEOREM TypeCorrect == Spec => []TypeOK
<1>1. Init => TypeOK
  BY TypeInit
<1>2. TypeOK /\ [Next]_vars => TypeOK'
  BY TypeNext
<1> QED
  BY <1>1, <1>2, PTL DEF Spec

-----------------------------------------------------------------------------
\* A stopped CPU.

LEMMA DeliverGrants ==
  ASSUME NEW mask \in 0 .. 7, IC!Deliver(mask)
  PROVE  grant'.ok /\ grant'.level > mask
<1> DEFINE levels == IC!Acceptable(mask)
<1>1. grant'.ok /\ grant'.level = IC!Max(levels)
  BY DEF IC!Deliver
<1>2. levels # {} /\ levels \subseteq 1 .. 7 /\ \A l \in levels : l > mask
  BY DEF IC!Deliver, IC!Acceptable, IC!Levels
<1>3. IC!Max(levels) \in levels
  <2> HIDE DEF levels
  <2>1. \E x \in levels : \A y \in levels : x >= y
    <3>1. PICK x \in levels : TRUE
      BY <1>2
    <3> QED
      BY <1>2, <3>1
  <2> QED
    BY <2>1 DEF IC!Max
<1> QED
  BY <1>1, <1>2, <1>3

LEMMA StopStep ==
  ASSUME TypeOK, [Next]_vars, stopped, phase = "idle"
  PROVE  \/ regs' = ResetRegisters /\ ~stopped'
         \/ /\ UNCHANGED <<regs, mem, frames>>
            /\ ~stopped' => grant'.ok /\ grant'.level > regs.sr.mask
<1>1. CASE StepStopped
  BY <1>1 DEF StepStopped
<1>2. CASE WakeUp
  <2>1. regs.sr.mask \in 0 .. 7
    BY DEF TypeOK, Registers, StatusRegister
  <2>2. IC!Deliver(regs.sr.mask) /\ UNCHANGED <<regs, mem, frames>>
    BY <1>2 DEF WakeUp, TakeInterrupt
  <2> QED
    BY <2>1, <2>2, DeliverGrants
<1>3. CASE Fetch
  BY <1>3 DEF Fetch
<1>4. CASE Execute
  <2>1. phase = "execute"
    BY <1>4 DEF Execute, Nop, Jump, MoveA7, AddA7, MoveToUsp, MoveFromUsp, Store, Jsr, Rts, Rte,
       Rtr, Trap, Illegal, LineA, PrivilegeViolation, Stop, ResetInstruction, MoveToSr,
       ExecutingPrivileged, Executing
  <2> QED
    BY <2>1
<1>5. CASE CheckNothing \/ CheckTakes \/ Accept
  BY <1>5 DEF CheckNothing, CheckTakes, Accept
<1>6. ASSUME NEW level \in RequestLevels, NEW vector \in Vectors \cup {NoVector},
             RequestInterrupt(level, vector)
      PROVE  UNCHANGED <<regs, mem, frames, stopped>>
  BY <1>6 DEF RequestInterrupt
<1>7. CASE HostReset
  BY <1>7 DEF HostReset
<1>8. CASE UNCHANGED vars
  BY <1>8 DEF vars
<1> QED
  BY <1>1, <1>2, <1>3, <1>4, <1>5, <1>6, <1>7, <1>8 DEF Next, StepMoves

(* Whatever the program and the devices are, a stopped CPU keeps registers *)
(* and memory until a request above its mask is taken, or the host resets. *)
THEOREM StopCorrect == Spec => StopHolds
<1>1. TypeOK /\ [Next]_vars =>
        [stopped /\ phase = "idle" =>
           \/ regs' = ResetRegisters /\ ~stopped'
           \/ /\ UNCHANGED <<regs, mem, frames>>
              /\ ~stopped' => grant'.ok /\ grant'.level > regs.sr.mask]_vars
  BY StopStep
<1> QED
  BY <1>1, TypeCorrect, PTL DEF Spec, StopHolds

-----------------------------------------------------------------------------
\* Addresses below a stack pointer.

LEMMA ModuloTwice ==
  \A m \in Nat \ {0} : \A x \in 0 .. (m - 1) : x % m = x /\ (x + m) % m = x
<1> SUFFICES ASSUME NEW m \in Nat \ {0}, NEW x \in 0 .. (m - 1)
             PROVE  x % m = x /\ (x + m) % m = x
  OBVIOUS
<1>1. x % m = x
  OBVIOUS
<1>2. (x + m) % m = x
  OBVIOUS
<1> QED
  BY <1>1, <1>2

LEMMA SpaceIs == Space \in Nat \ {0} /\ Space >= 16
BY WordIs, SpaceAssumption

LEMMA MinusIs ==
  ASSUME NEW a \in Address, NEW n \in 0 .. 14
  PROVE  Minus(a, n) = IF n <= a THEN a - n ELSE a + Space - n
<1>1. a \in 0 .. (Space - 1) /\ Space \in Nat \ {0} /\ Space >= 16
  BY SpaceIs DEF Address
<1>2. CASE n <= a
  <2>1. a - n \in 0 .. (Space - 1) /\ a + Space - n = (a - n) + Space
    BY <1>1, <1>2
  <2> QED
    BY <1>1, <1>2, <2>1, ModuloTwice DEF Minus
<1>3. CASE ~(n <= a)
  <2>1. a + Space - n \in 0 .. (Space - 1)
    BY <1>1, <1>3
  <2> QED
    BY <1>1, <1>3, <2>1, ModuloTwice DEF Minus
<1> QED
  BY <1>2, <1>3

LEMMA PlusIs ==
  ASSUME NEW a \in Address, NEW n \in 0 .. 14
  PROVE  Plus(a, n) = IF a + n < Space THEN a + n ELSE a + n - Space
<1>1. a \in 0 .. (Space - 1) /\ Space \in Nat \ {0} /\ Space >= 16
  BY SpaceIs DEF Address
<1>2. CASE a + n < Space
  <2>1. a + n \in 0 .. (Space - 1)
    BY <1>1, <1>2
  <2> QED
    BY <1>1, <1>2, <2>1, ModuloTwice DEF Plus
<1>3. CASE ~(a + n < Space)
  <2>1. a + n - Space \in 0 .. (Space - 1) /\ a + n = (a + n - Space) + Space
    BY <1>1, <1>3
  <2> QED
    BY <1>1, <1>3, <2>1, ModuloTwice DEF Plus
<1> QED
  BY <1>2, <1>3

LEMMA PlusMinus ==
  ASSUME NEW a \in Address, NEW n \in 0 .. 14, NEW k \in 0 .. n
  PROVE  Plus(Minus(a, n), k) = IF k = n THEN a ELSE Minus(a, n - k)
<1>1. a \in 0 .. (Space - 1) /\ Space \in Nat /\ Space >= 16
  BY SpaceIs DEF Address
<1>2. Minus(a, n) \in Address
  BY MinusType
<1>3. k \in 0 .. 14 /\ n - k \in 0 .. 14
  OBVIOUS
<1>4. Minus(a, n) = IF n <= a THEN a - n ELSE a + Space - n
  BY MinusIs
<1>5. Minus(a, n - k) = IF n - k <= a THEN a - (n - k) ELSE a + Space - (n - k)
  BY <1>3, MinusIs
<1>6. Plus(Minus(a, n), k) = IF Minus(a, n) + k < Space THEN Minus(a, n) + k
                             ELSE Minus(a, n) + k - Space
  BY <1>2, <1>3, PlusIs
<1> QED
  BY <1>1, <1>4, <1>5, <1>6

LEMMA MinusApart ==
  ASSUME NEW a \in Address, NEW n \in 0 .. 14, NEW k \in 0 .. 14, Minus(a, n) = Minus(a, k)
  PROVE  n = k
<1>1. a \in 0 .. (Space - 1) /\ Space \in Nat /\ Space >= 16
  BY SpaceIs DEF Address
<1> QED
  BY <1>1, MinusIs

\* n words below top are writable.
Room(top, n) == \A k \in 1 .. n : Minus(top, 2 * k) \in Ram

LEMMA RoomFaultless ==
  ASSUME NEW a \in Ram
  PROVE  FaultAt(a, Ram) = NoFault
<1>1. a % 2 = 0 /\ a \in Ram
  BY MemoryAssumption
<1> QED
  BY <1>1 DEF FaultAt

\* Writes to different addresses of RAM all arrive.
LEMMA WritesArrive ==
  ASSUME NEW n \in 1 .. 7, NEW addresses \in [1 .. n -> Ram], NEW values \in [1 .. n -> Word],
         NEW m \in [Ram -> Word],
         \A i, j \in 1 .. n : addresses[i] = addresses[j] => i = j
  PROVE  /\ WriteWords(m, addresses, values).bad = 0
         /\ WriteWords(m, addresses, values).fault = NoFault
         /\ \A i \in 1 .. n : WriteWords(m, addresses, values).mem[addresses[i]] = values[i]
<1>1. \A i \in DOMAIN addresses : FaultAt(addresses[i], Ram) = NoFault
  BY RoomFaultless
<1>2. FirstFault(addresses, Ram) = 0
  BY <1>1 DEF FirstFault
<1> DEFINE new == [a \in Ram |-> IF \E i \in DOMAIN addresses : addresses[i] = a
                                 THEN values[CHOOSE i \in DOMAIN addresses : addresses[i] = a]
                                 ELSE m[a]]
<1>3. WriteWords(m, addresses, values) = [bad |-> 0, fault |-> NoFault, mem |-> new]
  BY <1>2 DEF WriteWords
<1>4. ASSUME NEW i \in 1 .. n PROVE new[addresses[i]] = values[i]
  <2>1. addresses[i] \in Ram /\ DOMAIN addresses = 1 .. n
    OBVIOUS
  <2>2. (CHOOSE j \in DOMAIN addresses : addresses[j] = addresses[i]) = i
    BY <2>1
  <2> QED
    BY <2>1, <2>2
<1> HIDE DEF new
<1> QED
  BY <1>3, <1>4

(* A frame of r and pc is stacked right below top, the stack pointer of    *)
(* the mode that is entered, and A7 is size bytes lower.                   *)
StacksBelow(e, top, entered, size, vector, r, pc) ==
  /\ e.fault = NoFault
  /\ e.regs = [entered EXCEPT !.a7 = Minus(top, size), !.pc = Handler(vector)]
  /\ e.frame = [sp |-> Minus(top, 6), sr |-> r.sr, pc |-> pc, a7 |-> r.a7, level |-> 0]
  /\ Stacked(e.mem, e.frame)
  /\ Plus(e.frame.sp, 6) = top

LEMMA ShortExceptionStacks ==
  ASSUME NEW r \in Registers, NEW m \in Memory, NEW vector \in 0 .. 255,
         NEW sr \in StatusRegister, NEW pc \in Address, NEW top \in Address,
         top = SetSR(r, sr).a7, Room(top, 3)
  PROVE  StacksBelow(ShortException(r, m, vector, sr, pc), top, SetSR(r, sr), 6, vector, r, pc)
<1> DEFINE addresses == <<Minus(top, 4), Minus(top, 2), Minus(top, 6)>>
           values    == <<0, pc, Encode(r.sr)>>
           w         == WriteWords(m, addresses, values)
           e         == ShortException(r, m, vector, sr, pc)
<1>1. Minus(top, 2) \in Ram /\ Minus(top, 4) \in Ram /\ Minus(top, 6) \in Ram
  <2>1. 1 \in 1 .. 3 /\ 2 \in 1 .. 3 /\ 3 \in 1 .. 3 /\ 2 * 1 = 2 /\ 2 * 2 = 4 /\ 2 * 3 = 6
    OBVIOUS
  <2>2. \A k \in 1 .. 3 : Minus(top, 2 * k) \in Ram
    BY DEF Room
  <2>3. Minus(top, 2 * 1) \in Ram /\ Minus(top, 2 * 2) \in Ram /\ Minus(top, 2 * 3) \in Ram
    BY <2>1, <2>2
  <2> QED
    BY <2>1, <2>3
<1>2. Minus(top, 2) # Minus(top, 4) /\ Minus(top, 2) # Minus(top, 6) /\ Minus(top, 4) # Minus(top, 6)
  BY MinusApart
<1>3. /\ addresses \in [1 .. 3 -> Ram]
      /\ \A i, j \in 1 .. 3 : addresses[i] = addresses[j] => i = j
  BY <1>1, <1>2
<1>4. values \in [1 .. 3 -> Word]
  <2>1. Encode(r.sr) \in Word
    BY Codec DEF Registers
  <2>2. 0 \in Word /\ pc \in Word
    BY WordIs, AddressIs
  <2> QED
    BY <2>1, <2>2
<1>5. addresses[1] = Minus(top, 4) /\ addresses[2] = Minus(top, 2) /\ addresses[3] = Minus(top, 6)
  OBVIOUS
<1>6. values[1] = 0 /\ values[2] = pc /\ values[3] = Encode(r.sr)
  OBVIOUS
<1>7. ShortException(r, m, vector, sr, pc) =
        [fault |-> w.fault, mem |-> w.mem,
         regs  |-> [SetSR(r, sr) EXCEPT
                      !.a7 = Minus(top, IF w.bad \in {1, 2} THEN 4 ELSE 6),
                      !.pc = IF w.bad = 0 THEN Handler(vector) ELSE @],
         frame |-> [sp |-> Minus(top, IF w.bad \in {1, 2} THEN 4 ELSE 6), sr |-> r.sr,
                    pc |-> pc, a7 |-> r.a7, level |-> 0]]
  BY DEF ShortException
<1> HIDE DEF addresses, values
<1>8. /\ w.bad = 0 /\ w.fault = NoFault
      /\ \A i \in 1 .. 3 : w.mem[addresses[i]] = values[i]
  BY <1>3, <1>4, WritesArrive DEF Memory
<1>9. /\ w.mem[Minus(top, 4)] = 0 /\ w.mem[Minus(top, 2)] = pc
      /\ w.mem[Minus(top, 6)] = Encode(r.sr)
  BY <1>5, <1>6, <1>8
<1> HIDE DEF w
<1>10. e = [fault |-> NoFault, mem |-> w.mem,
            regs  |-> [SetSR(r, sr) EXCEPT !.a7 = Minus(top, 6), !.pc = Handler(vector)],
            frame |-> [sp |-> Minus(top, 6), sr |-> r.sr, pc |-> pc, a7 |-> r.a7, level |-> 0]]
  BY <1>7, <1>8
<1>11. /\ Plus(Minus(top, 6), 2) = Minus(top, 4)
       /\ Plus(Minus(top, 6), 4) = Minus(top, 2)
       /\ Plus(Minus(top, 6), 6) = top
  <2>1. /\ Plus(Minus(top, 6), 2) = Minus(top, 6 - 2)
        /\ Plus(Minus(top, 6), 4) = Minus(top, 6 - 4)
        /\ Plus(Minus(top, 6), 6) = top
    BY PlusMinus
  <2> QED
    BY <2>1
<1> HIDE DEF e
<1> QED
  BY <1>9, <1>10, <1>11 DEF StacksBelow, Stacked, e

(* A bus or address error frame: SR and PC are its upper three words.      *)
LEMMA Group0ExceptionStacks ==
  ASSUME NEW r \in Registers, NEW m \in Memory, NEW fault \in Fault, NEW top \in Address,
         top = SetSR(r, Supervisor(r.sr)).a7, Room(top, 7)
  PROVE  StacksBelow(Group0Exception(r, m, fault), top, SetSR(r, Supervisor(r.sr)), 14,
                     fault.vector, r, r.pc)
<1> DEFINE sp        == Minus(top, 14)
           addresses == [i \in 1 .. 7 |-> Plus(sp, 2 * (i - 1))]
           values    == <<0, 0, fault.address, 0, Encode(r.sr), 0, r.pc>>
           w         == WriteWords(m, addresses, values)
           e         == Group0Exception(r, m, fault)
<1>1. ASSUME NEW i \in 1 .. 7 PROVE addresses[i] = Minus(top, 2 * (8 - i))
  <2>1. 2 * (i - 1) \in 0 .. 14 /\ 2 * (i - 1) # 14 /\ 14 - 2 * (i - 1) = 2 * (8 - i)
    OBVIOUS
  <2>2. \A k \in 0 .. 14 : k # 14 => Plus(sp, k) = Minus(top, 14 - k)
    BY PlusMinus
  <2> HIDE DEF sp
  <2>3. addresses[i] = Plus(sp, 2 * (i - 1))
    OBVIOUS
  <2> QED
    BY <2>1, <2>2, <2>3
<1>2. ASSUME NEW i \in 1 .. 7 PROVE addresses[i] \in Ram
  <2>1. 8 - i \in 1 .. 7
    OBVIOUS
  <2> QED
    BY <1>1, <2>1 DEF Room
<1>3. ASSUME NEW i \in 1 .. 7, NEW j \in 1 .. 7, addresses[i] = addresses[j] PROVE i = j
  <2>1. 2 * (8 - i) \in 0 .. 14 /\ 2 * (8 - j) \in 0 .. 14
    OBVIOUS
  <2>2. Minus(top, 2 * (8 - i)) = Minus(top, 2 * (8 - j))
    BY <1>1, <1>3
  <2>3. 2 * (8 - i) = 2 * (8 - j)
    BY <2>1, <2>2, MinusApart
  <2> QED
    BY <2>3
<1>4. addresses \in [1 .. 7 -> Ram]
  <2>1. addresses = [i \in 1 .. 7 |-> addresses[i]]
    OBVIOUS
  <2> HIDE DEF addresses
  <2> QED
    BY <1>2, <2>1
<1>5. values \in [1 .. 7 -> Word]
  <2>1. Encode(r.sr) \in Word
    BY Codec DEF Registers
  <2>2. r.pc \in Address /\ fault.address \in Address
    BY DEF Registers, Fault
  <2>3. r.pc \in Word /\ fault.address \in Word
    BY <2>2, AddressIs
  <2> QED
    BY <2>1, <2>3, SevenWords
<1>6. values[5] = Encode(r.sr) /\ values[6] = 0 /\ values[7] = r.pc
  OBVIOUS
<1>7. addresses[5] = Minus(top, 6) /\ addresses[6] = Minus(top, 4) /\ addresses[7] = Minus(top, 2)
  <2>1. /\ 5 \in 1 .. 7 /\ 6 \in 1 .. 7 /\ 7 \in 1 .. 7
        /\ 2 * (8 - 5) = 6 /\ 2 * (8 - 6) = 4 /\ 2 * (8 - 7) = 2
    OBVIOUS
  <2> HIDE DEF addresses
  <2>2. /\ addresses[5] = Minus(top, 2 * (8 - 5)) /\ addresses[6] = Minus(top, 2 * (8 - 6))
        /\ addresses[7] = Minus(top, 2 * (8 - 7))
    BY <1>1, <2>1
  <2> QED
    BY <2>1, <2>2
<1>8. Group0Exception(r, m, fault) =
        [fault |-> w.fault, mem |-> w.mem,
         regs  |-> [SetSR(r, Supervisor(r.sr)) EXCEPT
                      !.a7 = sp, !.pc = IF w.bad = 0 THEN Handler(fault.vector) ELSE @],
         frame |-> [sp |-> Plus(sp, 8), sr |-> r.sr, pc |-> r.pc, a7 |-> r.a7, level |-> 0]]
  BY DEF Group0Exception
<1>9. /\ Plus(sp, 8) = Minus(top, 6)
      /\ Plus(Minus(top, 6), 2) = Minus(top, 4)
      /\ Plus(Minus(top, 6), 4) = Minus(top, 2)
      /\ Plus(Minus(top, 6), 6) = top
  <2>1. /\ Plus(Minus(top, 14), 8) = Minus(top, 14 - 8)
        /\ Plus(Minus(top, 6), 2) = Minus(top, 6 - 2)
        /\ Plus(Minus(top, 6), 4) = Minus(top, 6 - 4)
        /\ Plus(Minus(top, 6), 6) = top
    BY PlusMinus
  <2> QED
    BY <2>1
<1> HIDE DEF addresses, values, sp
<1>10. /\ w.bad = 0 /\ w.fault = NoFault
       /\ \A i \in 1 .. 7 : w.mem[addresses[i]] = values[i]
  BY <1>3, <1>4, <1>5, WritesArrive DEF Memory
<1>11. /\ w.mem[Minus(top, 6)] = Encode(r.sr) /\ w.mem[Minus(top, 4)] = 0
       /\ w.mem[Minus(top, 2)] = r.pc
  BY <1>6, <1>7, <1>10
<1> HIDE DEF w
<1>12. e = [fault |-> NoFault, mem |-> w.mem,
            regs  |-> [SetSR(r, Supervisor(r.sr)) EXCEPT !.a7 = sp, !.pc = Handler(fault.vector)],
            frame |-> [sp |-> Minus(top, 6), sr |-> r.sr, pc |-> r.pc, a7 |-> r.a7, level |-> 0]]
  BY <1>8, <1>9, <1>10
<1> HIDE DEF e
<1> QED
  BY <1>9, <1>11, <1>12 DEF StacksBelow, Stacked, e, sp

-----------------------------------------------------------------------------
\* User mode.

\* The step stays in user mode, or enters a handler with a frame on the supervisor stack.
Stays == ~regs'.sr.s /\ regs'.ssp = regs.ssp /\ regs'.sr.mask = regs.sr.mask

EntersHandler ==
  /\ phase' = "idle" => outcome' = "ok"
  /\ regs'.pc \in Handlers
  /\ Len(frames') = Len(frames) + 1
  /\ LET f == frames'[Len(frames')]
     IN  f.sr = regs.sr /\ Stacked(mem', f) /\ Plus(f.sp, 6) = regs.ssp

UserMode == TypeOK /\ ~regs.sr.s

LEMMA UserTypes ==
  ASSUME UserMode
  PROVE  /\ CoreType /\ regs \in Registers /\ mem \in Memory /\ frames \in Seq(Frame)
         /\ regs.ssp \in Address /\ regs.sr \in StatusRegister /\ ~regs.sr.s
         /\ RoomOnSupervisorStack => Room(regs.ssp, 3) /\ Room(regs.ssp, 7)
<1>1. CoreType /\ ~regs.sr.s
  BY DEF UserMode, TypeOK, CoreType, Memory
<1>2. RoomOnSupervisorStack => Room(regs.ssp, 3) /\ Room(regs.ssp, 7)
  BY DEF RoomOnSupervisorStack, Room
<1> QED
  BY <1>1, <1>2, RegisterTypes DEF CoreType

\* The supervisor's stack pointer comes out of its bank.
LEMMA BankedStack ==
  ASSUME NEW r \in Registers, NEW sr \in StatusRegister, ~r.sr.s, sr.s
  PROVE  SetSR(r, sr).a7 = r.ssp /\ SetSR(r, sr) \in Registers
<1>1. r.sr.s \in BOOLEAN /\ sr.s \in BOOLEAN
  BY DEF Registers, StatusRegister
<1>2. SetSR(r, sr) = [r EXCEPT !.sr = sr, !.usp = r.a7, !.a7 = r.ssp]
  BY <1>1 DEF SetSR
<1> QED
  BY <1>2, SetSRType DEF Registers

LEMMA FrameOnTop ==
  ASSUME UserMode, NEW e, NEW level \in 0 .. 7, Enter(e, level),
         phase' = "idle" => outcome' = "ok",
         NEW v \in 0 .. 255, NEW entered \in Registers, NEW size,
         NEW r \in Registers, NEW pc \in Address, r.sr = regs.sr,
         StacksBelow(e, regs.ssp, entered, size, v, r, pc)
  PROVE  EntersHandler
<1> DEFINE f == [e.frame EXCEPT !.level = level]
<1>0. /\ e.fault = NoFault
      /\ e.regs = [entered EXCEPT !.a7 = Minus(regs.ssp, size), !.pc = Handler(v)]
      /\ e.frame = [sp |-> Minus(regs.ssp, 6), sr |-> r.sr, pc |-> pc, a7 |-> r.a7, level |-> 0]
      /\ Stacked(e.mem, e.frame) /\ Plus(e.frame.sp, 6) = regs.ssp
  BY DEF StacksBelow
<1>1. /\ e.frame.sp = Minus(regs.ssp, 6) /\ e.frame.sr = regs.sr /\ e.frame.pc = pc
      /\ e.regs.pc = Handler(v)
  BY <1>0 DEF Registers
<1>2. f.sp = e.frame.sp /\ f.sr = e.frame.sr /\ f.pc = e.frame.pc
  OBVIOUS
<1>3. regs' = e.regs /\ mem' = e.mem /\ frames' = Append(frames, f)
  BY <1>0 DEF Enter
<1>4. frames \in Seq(Frame) /\ f \in Frame
  <2>1. Minus(regs.ssp, 6) \in Address
    BY UserTypes, MinusType
  <2>2. r.sr \in StatusRegister /\ r.a7 \in Address
    BY DEF Registers
  <2> QED
    BY <1>0, <2>1, <2>2, UserTypes DEF Frame
<1> HIDE DEF f
<1>5. Len(frames') = Len(frames) + 1 /\ frames'[Len(frames')] = f
  BY <1>3, <1>4
<1>6. regs'.pc \in Handlers
  BY <1>1, <1>3 DEF Handlers
<1>7. Stacked(mem', f)
  BY <1>0, <1>2, <1>3 DEF Stacked
<1> QED
  BY <1>0, <1>1, <1>2, <1>5, <1>6, <1>7 DEF EntersHandler

LEMMA UserFault ==
  ASSUME UserMode, RoomOnSupervisorStack, NEW next \in {"idle", "check"},
         NEW r \in Registers, r.sr = regs.sr, r.ssp = regs.ssp,
         NEW m \in Memory, NEW fault \in Fault, FaultError(r, m, fault, next)
  PROVE  EntersHandler
<1> DEFINE e == Group0Exception(r, m, fault)
<1>1. SetSR(r, Supervisor(r.sr)).a7 = regs.ssp /\ SetSR(r, Supervisor(r.sr)) \in Registers
  <2>1. Supervisor(r.sr) \in StatusRegister /\ Supervisor(r.sr).s /\ ~r.sr.s
    BY UserTypes, SupervisorType DEF Supervisor, StatusRegister
  <2> QED
    BY <2>1, BankedStack
<1>2. StacksBelow(e, regs.ssp, SetSR(r, Supervisor(r.sr)), 14, fault.vector, r, r.pc)
  <2>1. regs.ssp \in Address /\ Room(regs.ssp, 7)
    BY UserTypes
  <2>2. regs.ssp = SetSR(r, Supervisor(r.sr)).a7
    BY <1>1
  <2> QED
    BY <2>1, <2>2, Group0ExceptionStacks
<1>3. fault.vector \in 0 .. 255
  BY DEF Fault, XBusError, XAddressError
<1>4. Enter(e, 0) /\ (IF next = "idle" THEN Finish("ok") ELSE Continue(next))
  BY <1>2 DEF FaultError, StacksBelow
<1>5. phase' = "idle" => outcome' = "ok"
  BY <1>4 DEF Finish, Continue
<1>6. r.pc \in Address
  BY DEF Registers
<1>7. 0 \in 0 .. 7
  OBVIOUS
<1>8. Enter(e, 0)
  BY <1>4
<1> HIDE DEF e
<1> QED
  BY <1>1, <1>2, <1>3, <1>5, <1>6, <1>7, <1>8, FrameOnTop

LEMMA UserException ==
  ASSUME UserMode, RoomOnSupervisorStack, NEW vector \in 0 .. 255, NEW sr \in StatusRegister, sr.s,
         NEW pc \in Address, NEW level \in 0 .. 7
  PROVE  LET e == ShortException(regs, mem, vector, sr, pc)
         IN  /\ e.fault = NoFault
             /\ Enter(e, level) /\ (phase' = "idle" => outcome' = "ok") => EntersHandler
<1> DEFINE e == ShortException(regs, mem, vector, sr, pc)
<1>1. SetSR(regs, sr).a7 = regs.ssp /\ SetSR(regs, sr) \in Registers
  BY UserTypes, BankedStack
<1>2. StacksBelow(e, regs.ssp, SetSR(regs, sr), 6, vector, regs, pc)
  <2>1. /\ regs \in Registers /\ mem \in Memory
        /\ regs.ssp \in Address /\ Room(regs.ssp, 3)
    BY UserTypes
  <2>2. regs.ssp = SetSR(regs, sr).a7
    BY <1>1
  <2> QED
    BY <2>1, <2>2, ShortExceptionStacks
<1>3. regs \in Registers
  BY UserTypes
<1> HIDE DEF e
<1>4. ASSUME Enter(e, level), phase' = "idle" => outcome' = "ok" PROVE EntersHandler
  BY <1>1, <1>2, <1>3, <1>4, FrameOnTop
<1> QED
  BY <1>2, <1>4 DEF e, StacksBelow

LEMMA UserRaise ==
  ASSUME UserMode, RoomOnSupervisorStack, NEW vector \in 0 .. 255, NEW pc \in Address,
         Raise(vector, pc)
  PROVE  EntersHandler
<1> DEFINE e == ShortException(regs, mem, vector, Supervisor(regs.sr), pc)
<1>1. Supervisor(regs.sr) \in StatusRegister /\ Supervisor(regs.sr).s
  BY UserTypes, SupervisorType DEF Supervisor, StatusRegister
<1>2. /\ e.fault = NoFault
      /\ Enter(e, 0) /\ (phase' = "idle" => outcome' = "ok") => EntersHandler
  <2>1. 0 \in 0 .. 7
    OBVIOUS
  <2> QED
    BY <1>1, <2>1, UserException, Zenon
<1>3. Enter(e, 0) /\ Continue("check")
  BY <1>2 DEF Raise
<1> QED
  BY <1>2, <1>3 DEF Continue

\* Instructions that leave SR alone, and their faults.
LEMMA UserInstruction ==
  ASSUME UserMode, RoomOnSupervisorStack, NEW i \in Instructions,
         \/ Nop(i) \/ Jump(i) \/ MoveA7(i) \/ AddA7(i)
         \/ Store(i) \/ Jsr(i) \/ Rts(i) \/ Rtr(i)
  PROVE  Stays \/ EntersHandler
<1>1. /\ regs \in Registers /\ mem \in Memory /\ regs.a7 \in Address /\ regs.pc \in Address
      /\ i.arg \in Address /\ i.word \in Word
  BY UserTypes, RegisterTypes, InstructionsType DEF Instruction
<1>2. CASE Nop(i) \/ Jump(i) \/ MoveA7(i) \/ AddA7(i)
  BY <1>1, <1>2, UserTypes DEF Nop, Jump, MoveA7, AddA7, Complete, Stays, Registers
<1>3. CASE Store(i)
  <2> DEFINE w == WriteWords(mem, <<i.arg>>, <<i.word>>)
  <2>1. w.fault \in Fault /\ w.mem \in Memory
    <3>1. <<i.arg>> \in [1 .. 1 -> Address] /\ <<i.word>> \in [1 .. 1 -> Word]
      BY <1>1
    <3> QED
      BY <1>1, <3>1, WriteWordsType DEF Memory
  <2>2. regs' = regs \/ FaultError(regs, w.mem, w.fault, "check")
    BY <1>3 DEF Store, Complete
  <2> HIDE DEF w
  <2>3. CASE regs' = regs
    BY <2>3, UserTypes DEF Stays
  <2>4. CASE FaultError(regs, w.mem, w.fault, "check")
    BY <1>1, <2>1, <2>4, UserFault
  <2> QED
    BY <2>2, <2>3, <2>4
<1>4. CASE Jsr(i)
  <2> DEFINE r == [regs EXCEPT !.a7 = Minus(@, 4)]
             w == WriteWords(mem, <<r.a7, Plus(r.a7, 2)>>, <<0, regs.pc>>)
  <2>1. r \in Registers /\ r.sr = regs.sr /\ r.ssp = regs.ssp
    <3>1. Minus(regs.a7, 4) \in Address
      BY <1>1, MinusType
    <3> QED
      BY <1>1, <3>1, RegisterUpdates DEF Registers
  <2>2. w.fault \in Fault /\ w.mem \in Memory
    <3>1. r.a7 \in Address /\ Plus(r.a7, 2) \in Address
      BY <2>1, PlusType DEF Registers
    <3>2. 0 \in Word
      BY WordIs
    <3>3. regs.pc \in Word
      BY <1>1, AddressIs, Zenon
    <3> HIDE DEF r
    <3>4. /\ <<r.a7, Plus(r.a7, 2)>> \in [1 .. 2 -> Address]
          /\ <<0, regs.pc>> \in [1 .. 2 -> Word]
      BY <3>1, <3>2, <3>3
    <3>5. \A addresses \in [1 .. 2 -> Address], values \in [1 .. 2 -> Word] :
            /\ WriteWords(mem, addresses, values).fault \in Fault
            /\ WriteWords(mem, addresses, values).mem \in Memory
      BY <1>1, WriteWordsType DEF Memory
    <3> QED
      BY <3>4, <3>5
  <2>3. regs' = [r EXCEPT !.pc = i.arg] \/ FaultError(r, w.mem, w.fault, "check")
    BY <1>4 DEF Jsr, Complete
  <2> HIDE DEF r, w
  <2>4. CASE regs' = [r EXCEPT !.pc = i.arg]
    BY <2>1, <2>4, UserTypes DEF Stays, Registers
  <2>5. CASE FaultError(r, w.mem, w.fault, "check")
    BY <2>1, <2>2, <2>5, UserFault
  <2> QED
    BY <2>3, <2>4, <2>5
<1>5. CASE Rts(i) \/ Rtr(i)
  <2> DEFINE popped == [regs EXCEPT !.a7 = Plus(@, 2)]
  <2>1. popped \in Registers /\ popped.sr = regs.sr /\ popped.ssp = regs.ssp
    <3>1. Plus(regs.a7, 2) \in Address
      BY <1>1, PlusType
    <3> QED
      BY <1>1, <3>1, RegisterUpdates DEF Registers
  <2>2. StackFault(1) \in Fault /\ StackFault(2) \in Fault /\ StackFault(3) \in Fault
    BY UserTypes, StackType
  <2>3. \/ regs' = [regs EXCEPT !.a7 = Plus(@, 4), !.pc = LongAt(0)]
        \/ regs' = [regs EXCEPT !.a7 = Plus(@, 6), !.pc = LongAt(1)]
        \/ FaultError(regs, mem, StackFault(1), "check")
        \/ FaultError(regs, mem, StackFault(2), "check")
        \/ FaultError(popped, mem, StackFault(3), "check")
    BY <1>5 DEF Rts, Rtr, Complete
  <2> HIDE DEF popped
  <2>4. CASE \/ regs' = [regs EXCEPT !.a7 = Plus(@, 4), !.pc = LongAt(0)]
             \/ regs' = [regs EXCEPT !.a7 = Plus(@, 6), !.pc = LongAt(1)]
    BY <1>1, <2>4, UserTypes DEF Stays, Registers
  <2>5. CASE FaultError(regs, mem, StackFault(1), "check")
    BY <1>1, <2>2, <2>5, UserFault
  <2>6. CASE FaultError(regs, mem, StackFault(2), "check")
    BY <1>1, <2>2, <2>6, UserFault
  <2>7. CASE FaultError(popped, mem, StackFault(3), "check")
    BY <1>1, <2>1, <2>2, <2>7, UserFault
  <2> QED
    BY <2>3, <2>4, <2>5, <2>6, <2>7
<1> QED
  BY <1>2, <1>3, <1>4, <1>5

\* Instructions that are exceptions in user mode.
LEMMA UserTrap ==
  ASSUME UserMode, RoomOnSupervisorStack, NEW i \in Instructions,
         Trap(i) \/ Illegal(i) \/ LineA(i) \/ PrivilegeViolation(i)
  PROVE  EntersHandler
<1>1. regs.pc \in Address /\ Minus(regs.pc, 2) \in Address
  BY UserTypes, RegisterTypes, MinusType
<1>2. CASE Trap(i)
  BY <1>1, <1>2, UserRaise DEF Trap, XTrap
<1>3. CASE Illegal(i)
  BY <1>1, <1>3, UserRaise DEF Illegal, XIllegal
<1>4. CASE PrivilegeViolation(i)
  BY <1>1, <1>4, UserRaise DEF PrivilegeViolation, XPrivViolation
<1>5. CASE LineA(i)
  <2> DEFINE e == ShortException(regs, mem, XLineA, Supervisor(regs.sr), Minus(regs.pc, 2))
  <2>1. Supervisor(regs.sr) \in StatusRegister /\ Supervisor(regs.sr).s /\ XLineA \in 0 .. 255
    BY UserTypes, SupervisorType DEF Supervisor, StatusRegister, XLineA
  <2>2. /\ e.fault = NoFault
        /\ Enter(e, 0) /\ (phase' = "idle" => outcome' = "ok") => EntersHandler
    <3>1. 0 \in 0 .. 7
      OBVIOUS
    <3> QED
      BY <1>1, <2>1, <3>1, UserException, Zenon
  <2>3. Enter(e, 0) /\ Continue("check")
    BY <1>5, <2>2 DEF LineA
  <2> QED
    BY <2>2, <2>3 DEF Continue
<1> QED
  BY <1>2, <1>3, <1>4, <1>5

LEMMA UserStep ==
  ASSUME TypeOK, [Next]_vars, ~regs.sr.s
  PROVE  regs' = ResetRegisters \/ Stays \/ (RoomOnSupervisorStack => EntersHandler)
<1> SUFFICES ASSUME RoomOnSupervisorStack
             PROVE  regs' = ResetRegisters \/ Stays \/ EntersHandler
  OBVIOUS
<1> USE DEF UserMode
<1>1. UserMode
  OBVIOUS
<1>2. regs' = regs => Stays
  BY DEF Stays
<1>3. CASE StepStopped \/ WakeUp \/ CheckNothing \/ CheckTakes
  BY <1>2, <1>3 DEF StepStopped, WakeUp, CheckNothing, CheckTakes, TakeInterrupt
<1>4. CASE Fetch
  <2>1. regs \in Registers /\ mem \in Memory /\ FaultAt(regs.pc, Code) \in Fault
    BY <1>1, UserTypes, RegisterTypes, FaultType
  <2>2. \/ regs' = [regs EXCEPT !.pc = Plus(@, 2)]
        \/ FaultError(regs, mem, FaultAt(regs.pc, Code), "idle")
    BY <1>4 DEF Fetch
  <2>3. CASE regs' = [regs EXCEPT !.pc = Plus(@, 2)]
    BY <2>1, <2>3 DEF Stays, Registers
  <2>4. CASE FaultError(regs, mem, FaultAt(regs.pc, Code), "idle")
    BY <1>1, <2>1, <2>4, UserFault
  <2> QED
    BY <2>2, <2>3, <2>4
<1>5. CASE Execute
  <2>1. PICK i \in Instructions :
          \/ Nop(i) \/ Jump(i) \/ MoveA7(i) \/ AddA7(i)
          \/ Store(i) \/ Jsr(i) \/ Rts(i) \/ Rtr(i)
          \/ Trap(i) \/ Illegal(i) \/ LineA(i) \/ PrivilegeViolation(i)
          \/ Stop(i) \/ ResetInstruction(i) \/ MoveToSr(i) \/ MoveToUsp(i) \/ MoveFromUsp(i)
          \/ Rte(i)
    BY <1>5 DEF Execute
  <2>2. ~ (\/ Stop(i) \/ ResetInstruction(i) \/ MoveToSr(i) \/ MoveToUsp(i) \/ MoveFromUsp(i)
           \/ Rte(i))
    BY DEF Stop, ResetInstruction, MoveToSr, MoveToUsp, MoveFromUsp, Rte, ExecutingPrivileged
  <2> QED
    BY <1>1, <2>1, <2>2, UserInstruction, UserTrap
<1>6. CASE Accept
  <2> DEFINE sr == [s |-> TRUE, mask |-> grant.level]
             e  == ShortException(regs, mem, grant.request.vector, sr, regs.pc)
  <2>1. grant.level \in 0 .. 7 /\ grant.request.vector \in 0 .. 255
    BY <1>6 DEF TypeOK, Accept, IC!Grants, IC!Levels, IC!PendingInterrupt
  <2>2. sr \in StatusRegister /\ sr.s /\ regs.pc \in Address
    BY <1>1, <2>1, UserTypes, RegisterTypes, SMTT(40) DEF StatusRegister
  <2> HIDE DEF sr
  <2>3. /\ e.fault = NoFault
        /\ Enter(e, grant.level) /\ (phase' = "idle" => outcome' = "ok") => EntersHandler
    BY <1>1, <2>1, <2>2, UserException
  <2>4. Enter(e, grant.level) /\ (Finish("ok") \/ Continue("fetch"))
    BY <1>6, <2>3 DEF Accept, sr
  <2>5. phase' = "idle" => outcome' = "ok"
    BY <2>4 DEF Finish, Continue
  <2> QED
    BY <2>3, <2>4, <2>5
<1>7. ASSUME NEW level \in RequestLevels, NEW vector \in Vectors \cup {NoVector},
             RequestInterrupt(level, vector)
      PROVE  Stays
  BY <1>2, <1>7 DEF RequestInterrupt
<1>8. CASE HostReset
  BY <1>8 DEF HostReset
<1>9. CASE UNCHANGED vars
  BY <1>2, <1>9 DEF vars
<1> QED
  BY <1>3, <1>4, <1>5, <1>6, <1>7, <1>8, <1>9 DEF Next, StepMoves

(* Whatever user code does, with its stack pointer, with memory and with   *)
(* privileged instructions, it gets into supervisor mode only through a    *)
(* handler, with its own SR and PC on the supervisor stack.                *)
THEOREM UserModeCorrect == Spec => UserModeConfined
<1>1. TypeOK /\ [Next]_vars =>
        [~regs.sr.s =>
           \/ regs' = ResetRegisters
           \/ /\ ~regs'.sr.s
              /\ regs'.ssp = regs.ssp
              /\ regs'.sr.mask = regs.sr.mask
           \/ RoomOnSupervisorStack =>
                /\ phase' = "idle" => outcome' = "ok"
                /\ regs'.pc \in Handlers
                /\ Len(frames') = Len(frames) + 1
                /\ LET f == frames'[Len(frames')]
                   IN  f.sr = regs.sr /\ Stacked(mem', f) /\ Plus(f.sp, 6) = regs.ssp]_vars
  BY UserStep DEF Stays, EntersHandler
<1> QED
  BY <1>1, TypeCorrect, PTL DEF Spec, UserModeConfined

-----------------------------------------------------------------------------
\* Nesting of exceptions.

(* The supervisor stack begins above the vector table and has no holes: a  *)
(* cell between RAM and the initial stack pointer is RAM.                  *)
StackIsWhole ==
  /\ ResetSSP % 2 = 0 /\ ResetSSP >= 20
  /\ \A a \in Ram : a >= 20
  /\ \A a \in Address : a % 2 = 0 /\ a < ResetSSP /\ (\E b \in Ram : b < a) => a \in Ram

(* Supervisor code keeps to its stack: outside handlers A7 is left alone;  *)
(* handlers may push, do not store into the stack, and mask interrupts but *)
(* never unmask them.  User code is free.                                  *)
OrderlySupervisor ==
  /\ Disciplined /\ ~HostRetries
  /\ \A i \in BootProgram :
       i.op \in {"nop", "jump", "store", "trap", "illegal", "lineA", "stop", "reset",
                 "moveToSr", "moveToUsp"}
  /\ \A i \in HandlerProgram :
       /\ i.op \in {"nop", "jump", "jsr", "store", "addA7", "trap", "illegal", "lineA", "stop",
                    "reset", "moveToSr", "rte"}
       /\ i.op = "store" /\ i.arg \in Ram => i.arg >= ResetSSP
       /\ i.op \in {"stop", "moveToSr"} => Decode(i.word) = [s |-> TRUE, mask |-> 7]

\* The frames fs are stacked in m, one below the other, from the initial stack pointer on.
Chain(m, fs) ==
  /\ \A i \in 1 .. Len(fs) :
       /\ fs[i].sp \in Ram /\ fs[i].sp + 6 <= ResetSSP
       /\ Stacked(m, fs[i])
       /\ i = 1 => fs[i].sp + 6 = ResetSSP
       /\ i > 1 => fs[i].sr.s
       /\ fs[i].sr.s => fs[i].a7 = fs[i].sp + 6
  /\ \A i, j \in 1 .. Len(fs) :
       i < j => /\ fs[j].sp + 6 <= fs[i].sp
                /\ fs[i].level <= fs[j].sr.mask
                /\ fs[j].level > 0 => fs[i].level < fs[j].level

Below(a, fs) ==
  /\ a % 2 = 0
  /\ fs = <<>> => a = ResetSSP
  /\ fs # <<>> => a \in Ram /\ a <= fs[Len(fs)].sp

\* The stack pointers fit the frames.
Fits(r, fs) ==
  /\ r.sr.s => Below(r.a7, fs)
  /\ ~r.sr.s => fs = <<>> /\ r.ssp = ResetSSP
  /\ fs # <<>> /\ ~fs[1].sr.s => r.usp = fs[1].a7

Masked(r, fs) == \A i \in 1 .. Len(fs) : fs[i].level <= r.sr.mask

NestCore ==
  /\ Chain(mem, frames)
  /\ Masked(regs, frames)
  /\ outcome = "ok" => Fits(regs, frames)
  /\ outcome = "error" => phase = "idle" /\ regs.sr.s

NestInv ==
  /\ TypeOK
  /\ NestCore
  /\ phase = "accept" => grant.level > regs.sr.mask

LEMMA Below14 ==
  ASSUME NEW top \in Address, 14 <= top, NEW k \in 0 .. 14
  PROVE  Minus(top, k) = top - k
<1>1. top \in Nat /\ k <= top
  BY SpaceIs DEF Address
<1> QED
  BY <1>1, MinusIs

\* Writes change what is at their addresses and nothing else.
LEMMA WritesElsewhere ==
  ASSUME NEW n \in 0 .. 7, NEW addresses \in [1 .. n -> Address],
         NEW values \in [1 .. n -> Word], NEW m \in [Ram -> Word],
         NEW a \in Ram, \A i \in 1 .. n : addresses[i] # a
  PROVE  WriteWords(m, addresses, values).mem[a] = m[a]
<1> DEFINE bad  == FirstFault(addresses, Ram)
           done == IF bad = 0 THEN DOMAIN addresses ELSE 1 .. (bad - 1)
<1>1. bad \in 0 .. n
  BY FirstFaultType
<1>2. done \subseteq 1 .. n
  BY <1>1
<1>3. WriteWords(m, addresses, values).mem =
        [b \in Ram |-> IF \E i \in done : addresses[i] = b
                       THEN values[CHOOSE i \in done : addresses[i] = b]
                       ELSE m[b]]
  BY DEF WriteWords
<1> HIDE DEF done
<1> QED
  BY <1>2, <1>3

SameAbove(m1, m2, top) == \A a \in Ram : a >= top => m1[a] = m2[a]

\* Whatever is above RAM and below the initial stack pointer is RAM.
LEMMA NoHole ==
  ASSUME StackIsWhole, NEW a \in Ram, NEW b \in Address, b % 2 = 0, a <= b, b < ResetSSP
  PROVE  b \in Ram
<1>1. a \in Nat /\ b \in Nat
  BY MemoryAssumption, AddressIs
<1>2. CASE a = b
  BY <1>2
<1>3. CASE a < b
  BY <1>3 DEF StackIsWhole
<1> QED
  BY <1>1, <1>2, <1>3

LEMMA EvenBelow ==
  \A t \in Nat : t % 2 = 0 => \A k \in 0 .. 7 : 2 * k <= t => (t - 2 * k) % 2 = 0
OBVIOUS

LEMMA KeepsPC ==
  ASSUME NEW r \in Registers, NEW a
  PROVE  [r EXCEPT !.a7 = a, !.pc = @] = [r EXCEPT !.a7 = a]
BY DEF Registers

(* A frame goes onto the stack as a whole, or its lowest word is not RAM.  *)
ShortOutcome(e, r, m, vector, sr, pc, top) ==
  /\ SameAbove(e.mem, m, top)
  /\ \/ /\ top - 6 \in Ram
        /\ StacksBelow(e, top, SetSR(r, sr), 6, vector, r, pc)
     \/ /\ top - 6 \notin Ram
        /\ e.fault # NoFault
        /\ e.regs.a7 \in {top - 4, top - 6}
        /\ e.regs = [SetSR(r, sr) EXCEPT !.a7 = e.regs.a7]

Group0Outcome(e, r, m, fault, top) ==
  /\ SameAbove(e.mem, m, top)
  /\ \/ /\ top - 14 \in Ram
        /\ StacksBelow(e, top, SetSR(r, Supervisor(r.sr)), 14, fault.vector, r, r.pc)
     \/ /\ top - 14 \notin Ram
        /\ e.fault # NoFault
        /\ e.regs.sr = Supervisor(r.sr)

LEMMA ShortAllOrNothing ==
  ASSUME StackIsWhole, NEW r \in Registers, NEW m \in Memory, NEW vector \in 0 .. 255,
         NEW sr \in StatusRegister, NEW pc \in Address, NEW top \in Address,
         top = SetSR(r, sr).a7, top % 2 = 0, 14 <= top, top <= ResetSSP
  PROVE  ShortOutcome(ShortException(r, m, vector, sr, pc), r, m, vector, sr, pc, top)
<1> DEFINE addresses == <<Minus(top, 4), Minus(top, 2), Minus(top, 6)>>
           values    == <<0, pc, Encode(r.sr)>>
           w         == WriteWords(m, addresses, values)
           e         == ShortException(r, m, vector, sr, pc)
<1>1. /\ Minus(top, 2) = top - 2 /\ Minus(top, 4) = top - 4 /\ Minus(top, 6) = top - 6
      /\ top \in Nat
  <2>1. \A k \in 0 .. 14 : Minus(top, k) = top - k
    BY Below14
  <2>2. top \in Nat
    BY AddressIs
  <2> QED
    BY <2>1, <2>2
<1>2. addresses \in [1 .. 3 -> Address]
  BY MinusType
<1>3. values \in [1 .. 3 -> Word]
  <2>1. Encode(r.sr) \in Word
    BY Codec DEF Registers
  <2>2. 0 \in Word /\ pc \in Word
    BY WordIs, AddressIs
  <2> QED
    BY <2>1, <2>2
<1>4. addresses[1] = top - 4 /\ addresses[2] = top - 2 /\ addresses[3] = top - 6
  BY <1>1
<1>5. ShortException(r, m, vector, sr, pc) =
        [fault |-> w.fault, mem |-> w.mem,
         regs  |-> [SetSR(r, sr) EXCEPT
                      !.a7 = Minus(top, IF w.bad \in {1, 2} THEN 4 ELSE 6),
                      !.pc = IF w.bad = 0 THEN Handler(vector) ELSE @],
         frame |-> [sp |-> Minus(top, IF w.bad \in {1, 2} THEN 4 ELSE 6), sr |-> r.sr,
                    pc |-> pc, a7 |-> r.a7, level |-> 0]]
  BY DEF ShortException
<1> HIDE DEF addresses, values
<1>6. e.mem = w.mem
  BY <1>5
<1>7. SameAbove(e.mem, m, top)
  <2>1. SUFFICES ASSUME NEW a \in Ram, a >= top PROVE w.mem[a] = m[a]
    BY <1>6 DEF SameAbove
  <2>2. \A i \in 1 .. 3 : addresses[i] # a
    <3>1. a \in Nat
      BY MemoryAssumption, AddressIs
    <3> QED
      BY <1>1, <1>4, <2>1, <3>1
  <2> QED
    BY <1>2, <1>3, <2>2, WritesElsewhere DEF Memory
<1>8. CASE top - 6 \in Ram
  <2>1. /\ top - 4 \in Address /\ top - 2 \in Address
        /\ (top - 4) % 2 = 0 /\ (top - 2) % 2 = 0
    <3>1. /\ (top - 2 * 2) % 2 = 0 /\ (top - 2 * 1) % 2 = 0
      BY <1>1, EvenBelow
    <3>2. Minus(top, 4) \in Address /\ Minus(top, 2) \in Address
      BY MinusType
    <3> QED
      BY <1>1, <3>1, <3>2
  <2>2. ResetSSP \in Nat
    BY ResetAssumption, AddressIs
  <2>3. top - 4 \in Ram /\ top - 2 \in Ram
    BY <1>1, <1>8, <2>1, <2>2, NoHole
  <2>4. Room(top, 3)
    <3>1. SUFFICES ASSUME NEW k \in 1 .. 3 PROVE Minus(top, 2 * k) \in Ram
      BY DEF Room
    <3>2. k = 1 \/ k = 2 \/ k = 3
      OBVIOUS
    <3>3. 2 * 1 = 2 /\ 2 * 2 = 4 /\ 2 * 3 = 6
      OBVIOUS
    <3> QED
      BY <1>1, <1>8, <2>3, <3>2, <3>3
  <2> QED
    BY <1>7, <1>8, <2>4, ShortExceptionStacks DEF ShortOutcome
<1>9. CASE top - 6 \notin Ram
  <2>1. /\ w.bad = FirstFault(addresses, Ram)
        /\ w.fault = IF w.bad = 0 THEN NoFault ELSE FaultAt(addresses[w.bad], Ram)
    BY DEF WriteWords
  <2>2. FirstFault(addresses, Ram) # 0
    <3>1. SUFFICES ASSUME FirstFault(addresses, Ram) = 0 PROVE FALSE
      OBVIOUS
    <3>2. FaultAt(addresses[3], Ram) = NoFault
      BY <1>2, <3>1, FirstFaultType
    <3>3. addresses[3] \in Address
      BY <1>2
    <3> QED
      BY <1>4, <1>9, <3>2, <3>3, FaultType
  <2>3. FaultAt(addresses[FirstFault(addresses, Ram)], Ram) # NoFault
    BY <1>2, <2>2, FirstFaultType
  <2> HIDE DEF w
  <2>4. w.bad # 0 /\ w.fault # NoFault
    BY <2>1, <2>2, <2>3
  <2>5. /\ e.fault # NoFault
        /\ e.regs = [SetSR(r, sr) EXCEPT !.a7 = Minus(top, IF w.bad \in {1, 2} THEN 4 ELSE 6)]
    <3>1. e.fault = w.fault /\ e.regs = [SetSR(r, sr) EXCEPT
                       !.a7 = Minus(top, IF w.bad \in {1, 2} THEN 4 ELSE 6), !.pc = @]
      BY <1>5, <2>4
    <3>2. SetSR(r, sr) \in Registers
      BY SetSRType
    <3> QED
      BY <2>4, <3>1, <3>2, KeepsPC
  <2>6. Minus(top, IF w.bad \in {1, 2} THEN 4 ELSE 6) \in {top - 4, top - 6}
    BY <1>1
  <2> HIDE DEF e
  <2>7. SetSR(r, sr) \in Registers
    BY SetSRType
  <2>8. e.regs.a7 = Minus(top, IF w.bad \in {1, 2} THEN 4 ELSE 6)
    BY <2>5, <2>7 DEF Registers
  <2> QED
    BY <1>7, <1>9, <2>5, <2>6, <2>8 DEF ShortOutcome, e
<1> QED
  BY <1>8, <1>9

LEMMA Group0AllOrNothing ==
  ASSUME StackIsWhole, NEW r \in Registers, NEW m \in Memory, NEW fault \in Fault,
         NEW top \in Address,
         top = SetSR(r, Supervisor(r.sr)).a7, top % 2 = 0, 14 <= top, top <= ResetSSP
  PROVE  Group0Outcome(Group0Exception(r, m, fault), r, m, fault, top)
<1> DEFINE entered   == SetSR(r, Supervisor(r.sr))
           sp        == Minus(top, 14)
           addresses == [i \in 1 .. 7 |-> Plus(sp, 2 * (i - 1))]
           values    == <<0, 0, fault.address, 0, Encode(r.sr), 0, r.pc>>
           w         == WriteWords(m, addresses, values)
           e         == Group0Exception(r, m, fault)
<1>0. Supervisor(r.sr) \in StatusRegister /\ r.sr \in StatusRegister
  BY SupervisorType DEF Registers
<1>1. top \in Nat /\ sp = top - 14
  BY AddressIs, Below14
<1>2. ASSUME NEW i \in 1 .. 7
      PROVE  addresses[i] = top - 2 * (8 - i) /\ addresses[i] \in Address
  <2>1. 2 * (i - 1) \in 0 .. 14 /\ 2 * (i - 1) # 14 /\ 14 - 2 * (i - 1) = 2 * (8 - i)
        /\ 2 * (8 - i) \in 0 .. 14
    OBVIOUS
  <2>2. \A k \in 0 .. 14 : k # 14 => Plus(sp, k) = Minus(top, 14 - k)
    BY PlusMinus
  <2> HIDE DEF sp
  <2>3. addresses[i] = Plus(sp, 2 * (i - 1))
    OBVIOUS
  <2>4. addresses[i] = Minus(top, 2 * (8 - i))
    BY <2>1, <2>2, <2>3
  <2> HIDE DEF addresses
  <2> QED
    BY <2>1, <2>4, Below14, MinusType
<1>3. addresses \in [1 .. 7 -> Address]
  <2>1. addresses = [i \in 1 .. 7 |-> addresses[i]]
    OBVIOUS
  <2> HIDE DEF addresses
  <2> QED
    BY <1>2, <2>1
<1>4. values \in [1 .. 7 -> Word]
  <2>1. Encode(r.sr) \in Word
    BY Codec DEF Registers
  <2>2. r.pc \in Address /\ fault.address \in Address
    BY DEF Registers, Fault
  <2>3. r.pc \in Word /\ fault.address \in Word
    BY <2>2, AddressIs
  <2> QED
    BY <2>1, <2>3, SevenWords
<1>5. Group0Exception(r, m, fault) =
        [fault |-> w.fault, mem |-> w.mem,
         regs  |-> [SetSR(r, Supervisor(r.sr)) EXCEPT
                      !.a7 = sp, !.pc = IF w.bad = 0 THEN Handler(fault.vector) ELSE @],
         frame |-> [sp |-> Plus(sp, 8), sr |-> r.sr, pc |-> r.pc, a7 |-> r.a7, level |-> 0]]
  BY DEF Group0Exception
<1> HIDE DEF addresses, values
<1>6. e.mem = w.mem
  BY <1>5
<1>7. SameAbove(e.mem, m, top)
  <2>1. SUFFICES ASSUME NEW a \in Ram, a >= top PROVE w.mem[a] = m[a]
    BY <1>6 DEF SameAbove
  <2>2. ASSUME NEW i \in 1 .. 7 PROVE addresses[i] # a
    <3>1. a \in Nat
      BY MemoryAssumption, AddressIs
    <3> QED
      BY <1>1, <1>2, <2>1, <3>1
  <2> QED
    BY <1>3, <1>4, <2>2, WritesElsewhere DEF Memory
<1>8. CASE top - 14 \in Ram
  <2>1. Room(top, 7)
    <3>1. SUFFICES ASSUME NEW k \in 1 .. 7 PROVE Minus(top, 2 * k) \in Ram
      BY DEF Room
    <3>2. 2 * k \in 0 .. 14 /\ k \in 0 .. 7
      OBVIOUS
    <3>3. Minus(top, 2 * k) = top - 2 * k /\ Minus(top, 2 * k) \in Address
      BY <3>2, Below14, MinusType
    <3>4. (top - 2 * k) % 2 = 0
      <4>1. 2 * k <= top
        BY <1>1, <3>2
      <4> QED
        BY <1>1, <3>2, <4>1, EvenBelow
    <3>5. top - 14 <= top - 2 * k /\ top - 2 * k < ResetSSP
      <4>1. ResetSSP \in Nat
        BY ResetAssumption, AddressIs
      <4> QED
        BY <1>1, <4>1
    <3> QED
      BY <1>8, <3>3, <3>4, <3>5, NoHole
  <2> QED
    BY <1>7, <1>8, <2>1, Group0ExceptionStacks DEF Group0Outcome
<1>9. CASE top - 14 \notin Ram
  <2>1. /\ w.bad = FirstFault(addresses, Ram)
        /\ w.fault = IF w.bad = 0 THEN NoFault ELSE FaultAt(addresses[w.bad], Ram)
    BY DEF WriteWords
  <2>2. FirstFault(addresses, Ram) # 0
    <3>1. SUFFICES ASSUME FirstFault(addresses, Ram) = 0 PROVE FALSE
      OBVIOUS
    <3>2. 1 \in 1 .. 7 /\ 2 * (8 - 1) = 14
      OBVIOUS
    <3>3. FaultAt(addresses[1], Ram) = NoFault
      BY <1>3, <3>1, <3>2, FirstFaultType
    <3>4. addresses[1] = top - 14 /\ addresses[1] \in Address
      BY <1>2, <3>2
    <3> QED
      BY <1>9, <3>3, <3>4, FaultType
  <2>3. FaultAt(addresses[FirstFault(addresses, Ram)], Ram) # NoFault
    BY <1>3, <2>2, FirstFaultType
  <2> HIDE DEF w
  <2>4. w.bad # 0 /\ w.fault # NoFault
    BY <2>1, <2>2, <2>3
  <2>5. e.fault # NoFault /\ e.regs = [entered EXCEPT !.a7 = sp]
    <3>1. e.fault = w.fault /\ e.regs = [entered EXCEPT !.a7 = sp, !.pc = @]
      BY <1>5, <2>4
    <3>2. entered \in Registers
      BY <1>0, SetSRType
    <3> QED
      BY <2>4, <3>1, <3>2, KeepsPC
  <2>6. entered \in Registers /\ entered.sr = Supervisor(r.sr)
    <3>1. r.sr.s \in BOOLEAN /\ Supervisor(r.sr).s
      BY <1>0 DEF StatusRegister, Supervisor
    <3>2. SetSR(r, Supervisor(r.sr)).sr = Supervisor(r.sr)
      BY <1>0, <3>1 DEF SetSR, Registers
    <3> QED
      BY <1>0, <3>2, SetSRType
  <2> HIDE DEF e, entered
  <2>7. e.regs.sr = Supervisor(r.sr)
    BY <2>5, <2>6 DEF Registers
  <2> QED
    BY <1>7, <1>9, <2>5, <2>7 DEF Group0Outcome, e
<1> QED
  BY <1>8, <1>9

\* Cells of a frame on the stack.
LEMMA FrameCells ==
  ASSUME StackIsWhole, NEW sp \in Ram, sp + 6 <= ResetSSP
  PROVE  /\ sp \in Nat /\ sp % 2 = 0
         /\ Plus(sp, 2) = sp + 2 /\ Plus(sp, 4) = sp + 4 /\ Plus(sp, 6) = sp + 6
         /\ sp + 2 \in Ram /\ sp + 4 \in Ram
<1>1. sp \in Address /\ sp \in Nat /\ sp % 2 = 0 /\ ResetSSP \in Nat /\ ResetSSP < Space
      /\ Space \in Nat
  BY MemoryAssumption, AddressIs, ResetAssumption, SpaceIs DEF Address
<1>2. Plus(sp, 2) = sp + 2 /\ Plus(sp, 4) = sp + 4 /\ Plus(sp, 6) = sp + 6
  BY <1>1, PlusIs
<1>3. (sp + 2) % 2 = 0 /\ (sp + 4) % 2 = 0
  BY <1>1
<1>4. sp + 2 \in Address /\ sp + 4 \in Address
  BY <1>1 DEF Address
<1>5. sp + 2 \in Ram
  BY <1>1, <1>3, <1>4, NoHole
<1>6. sp + 4 \in Ram
  BY <1>1, <1>3, <1>4, NoHole
<1> QED
  BY <1>1, <1>2, <1>5, <1>6

LEMMA FrameNumbers ==
  ASSUME NEW f \in Frame
  PROVE  f.sp \in Nat /\ f.a7 \in Address /\ f.pc \in Address /\ f.sr \in StatusRegister
         /\ f.level \in Nat
<1>1. /\ f.sp \in Address /\ f.a7 \in Address /\ f.pc \in Address /\ f.sr \in StatusRegister
      /\ f.level \in 0 .. 7
  BY DEF Frame
<1>2. f.level \in Nat
  BY <1>1
<1>3. f.sp \in Nat
  BY <1>1, AddressIs, Zenon
<1> QED
  BY <1>1, <1>2, <1>3

\* What is written below a frame does not touch it.
LEMMA StackedKept ==
  ASSUME StackIsWhole, NEW f \in Frame, f.sp \in Ram, f.sp + 6 <= ResetSSP,
         NEW m, NEW m2, NEW top \in Nat, top <= f.sp, SameAbove(m2, m, top), Stacked(m, f)
  PROVE  Stacked(m2, f)
<1>1. f.sp \in Nat /\ Plus(f.sp, 2) = f.sp + 2 /\ Plus(f.sp, 4) = f.sp + 4
      /\ f.sp + 2 \in Ram /\ f.sp + 4 \in Ram
  BY FrameCells
<1>2. m2[f.sp] = m[f.sp] /\ m2[f.sp + 2] = m[f.sp + 2] /\ m2[f.sp + 4] = m[f.sp + 4]
  BY <1>1 DEF SameAbove
<1> QED
  BY <1>1, <1>2 DEF Stacked

LEMMA ChainOrder ==
  ASSUME NEW m, NEW fs \in Seq(Frame), Chain(m, fs), NEW i \in 1 .. Len(fs)
  PROVE  fs[Len(fs)].sp <= fs[i].sp
<1>1. fs[i].sp \in Nat /\ fs[Len(fs)].sp \in Nat
  <2>1. Len(fs) \in 1 .. Len(fs)
    OBVIOUS
  <2> QED
    BY <2>1, MemoryAssumption, AddressIs DEF Chain
<1>2. CASE i = Len(fs)
  BY <1>1, <1>2
<1>3. CASE i < Len(fs)
  BY <1>1, <1>3 DEF Chain
<1> QED
  BY <1>2, <1>3

LEMMA ChainKept ==
  ASSUME StackIsWhole, NEW fs \in Seq(Frame), NEW m, NEW m2, Chain(m, fs),
         NEW top \in Nat, fs # <<>> => top <= fs[Len(fs)].sp, SameAbove(m2, m, top)
  PROVE  Chain(m2, fs)
<1>1. ASSUME NEW i \in 1 .. Len(fs) PROVE Stacked(m2, fs[i])
  <2>1. fs # <<>> /\ fs[i] \in Frame /\ Len(fs) \in 1 .. Len(fs)
    OBVIOUS
  <2>2. fs[i].sp \in Ram /\ fs[i].sp + 6 <= ResetSSP /\ Stacked(m, fs[i])
        /\ fs[Len(fs)].sp \in Ram
    BY <2>1 DEF Chain
  <2>3. fs[i].sp \in Nat /\ fs[Len(fs)].sp \in Nat
    BY <2>2, MemoryAssumption, AddressIs
  <2>4. top <= fs[i].sp
    BY <2>1, <2>3, ChainOrder
  <2> QED
    BY <2>1, <2>2, <2>4, StackedKept
<1> QED
  BY <1>1 DEF Chain

\* Registers r from which an exception enters supervisor mode with its frame below top.
Enters(r, fs, top) ==
  /\ top \in Address /\ top % 2 = 0
  /\ r.sr.s => top = r.a7
  /\ ~r.sr.s => fs = <<>> /\ top = r.ssp
  /\ fs = <<>> => top = ResetSSP
  /\ fs # <<>> => 14 <= top /\ top <= fs[Len(fs)].sp
  /\ fs # <<>> /\ ~fs[1].sr.s => r.usp = fs[1].a7

LEMMA EntersTop ==
  ASSUME StackIsWhole, NEW r, NEW fs \in Seq(Frame), NEW m, Chain(m, fs), NEW top, Enters(r, fs, top)
  PROVE  top \in Nat /\ 14 <= top /\ top <= ResetSSP
<1>1. top \in Nat /\ ResetSSP \in Nat
  BY AddressIs, ResetAssumption DEF Enters
<1>2. CASE fs = <<>>
  BY <1>1, <1>2 DEF Enters, StackIsWhole
<1>3. CASE fs # <<>>
  <2>1. Len(fs) \in 1 .. Len(fs)
    BY <1>3
  <2>2. fs[Len(fs)].sp \in Ram /\ fs[Len(fs)].sp + 6 <= ResetSSP
    BY <2>1 DEF Chain
  <2>3. fs[Len(fs)].sp \in Nat
    BY <2>2, MemoryAssumption, AddressIs
  <2> QED
    BY <1>1, <1>3, <2>2, <2>3 DEF Enters
<1> QED
  BY <1>2, <1>3

LEMMA EntersSetSR ==
  ASSUME NEW r \in Registers, NEW sr \in StatusRegister, sr.s, NEW fs, NEW top, Enters(r, fs, top)
  PROVE  /\ SetSR(r, sr) \in Registers /\ SetSR(r, sr).a7 = top /\ SetSR(r, sr).sr = sr
         /\ r.sr.s => SetSR(r, sr).usp = r.usp
         /\ ~r.sr.s => SetSR(r, sr).usp = r.a7
<1>1. r.sr.s \in BOOLEAN /\ sr.s \in BOOLEAN
  BY DEF Registers, StatusRegister
<1>2. CASE r.sr.s
  <2>1. SetSR(r, sr) = [r EXCEPT !.sr = sr]
    BY <1>1, <1>2 DEF SetSR
  <2> QED
    BY <1>2, <2>1, SetSRType DEF Registers, Enters
<1>3. CASE ~r.sr.s
  <2>1. SetSR(r, sr) = [r EXCEPT !.sr = sr, !.usp = r.a7, !.a7 = r.ssp]
    BY <1>1, <1>3 DEF SetSR
  <2> QED
    BY <1>3, <2>1, SetSRType DEF Registers, Enters
<1> QED
  BY <1>1, <1>2, <1>3

(* An exception frame extends the chain; registers fit the longer one.     *)
Extends(e, fs, level) ==
  LET fs2 == Append(fs, [e.frame EXCEPT !.level = level])
  IN  Chain(e.mem, fs2) /\ Masked(e.regs, fs2) /\ Fits(e.regs, fs2)

LEMMA FrameAdded ==
  ASSUME StackIsWhole, NEW r \in Registers, NEW fs \in Seq(Frame), NEW m, NEW top,
         Chain(m, fs), Masked(r, fs), Enters(r, fs, top),
         NEW sr \in StatusRegister, sr.s, r.sr.mask <= sr.mask,
         NEW level \in 0 .. 7, level <= sr.mask, level > 0 => r.sr.mask < level,
         NEW size \in {6, 14}, top - size \in Ram, NEW vector \in 0 .. 255, NEW pc \in Address,
         NEW e, StacksBelow(e, top, SetSR(r, sr), size, vector, r, pc), SameAbove(e.mem, m, top)
  PROVE  Extends(e, fs, level)
<1> DEFINE new == [e.frame EXCEPT !.level = level]
           fs2 == Append(fs, new)
           n   == Len(fs)
<1>1. top \in Nat /\ 14 <= top /\ top <= ResetSSP /\ top \in Address /\ ResetSSP \in Nat
  BY EntersTop, ResetAssumption, AddressIs DEF Enters
<1>2. Minus(top, 6) = top - 6 /\ Minus(top, size) = top - size
  <2>1. \A k \in 0 .. 14 : Minus(top, k) = top - k
    BY <1>1, Below14
  <2> QED
    BY <2>1
<1>3. new = [sp |-> top - 6, sr |-> r.sr, pc |-> pc, a7 |-> r.a7, level |-> level]
  BY <1>2 DEF StacksBelow
<1>4. top - 6 \in Ram
  <2>1. (top - 2 * 3) % 2 = 0
    BY <1>1, EvenBelow DEF Enters
  <2>2. Minus(top, 6) \in Address
    BY <1>1, MinusType, SMTT(40)
  <2>3. (top - 6) \in Address /\ (top - 6) % 2 = 0 /\ top - 6 < ResetSSP /\ top - size <= top - 6
    BY <1>1, <1>2, <2>1, <2>2
  <2> QED
    BY <2>3, NoHole
<1>5. new \in Frame
  BY <1>2, <1>3, <1>4, MemoryAssumption DEF Frame, Registers
<1>6. Stacked(e.mem, new)
  <2>1. Stacked(e.mem, e.frame) /\ e.frame = [sp |-> top - 6, sr |-> r.sr, pc |-> pc, a7 |-> r.a7, level |-> 0]
    BY <1>2 DEF StacksBelow
  <2> QED
    BY <1>3, <2>1 DEF Stacked
<1>7. n \in Nat /\ Len(fs2) = n + 1 /\ fs2[n + 1] = new /\ (\A i \in 1 .. n : fs2[i] = fs[i])
  <2> HIDE DEF new
  <2> QED
    BY <1>5
<1>8. Chain(e.mem, fs)
  BY <1>1, ChainKept DEF Enters
<1>9. ASSUME NEW i \in 1 .. n
      PROVE  /\ top <= fs[i].sp /\ fs[i].level <= r.sr.mask /\ fs[i] \in Frame
             /\ fs # <<>> /\ r.sr.s
  <2>1. fs # <<>> /\ fs[i] \in Frame /\ n \in 1 .. n
    OBVIOUS
  <2>2. fs[i].sp \in Nat /\ fs[n].sp \in Nat
    BY <2>1, MemoryAssumption, AddressIs DEF Chain
  <2>3. fs[n].sp <= fs[i].sp
    BY ChainOrder
  <2>4. fs[i].level <= r.sr.mask
    BY DEF Masked
  <2> QED
    BY <1>1, <2>1, <2>2, <2>3, <2>4 DEF Enters
<1>10. new.sp = top - 6 /\ new.sr = r.sr /\ new.a7 = r.a7 /\ new.level = level
  BY <1>3
<1> HIDE DEF new, fs2
<1>11. ASSUME NEW i \in 1 .. Len(fs2)
       PROVE  /\ fs2[i].sp \in Ram /\ fs2[i].sp + 6 <= ResetSSP
              /\ Stacked(e.mem, fs2[i])
              /\ i = 1 => fs2[i].sp + 6 = ResetSSP
              /\ i > 1 => fs2[i].sr.s
              /\ fs2[i].sr.s => fs2[i].a7 = fs2[i].sp + 6
  <2>1. CASE i \in 1 .. n
    BY <1>7, <1>8, <2>1 DEF Chain
  <2>2. CASE i = n + 1
    <3>1. fs2[i] = new /\ new.sp + 6 = top
      BY <1>1, <1>7, <1>10, <2>2
    <3>2. i = 1 => top = ResetSSP
      BY <1>7, <2>2 DEF Enters
    <3>3. i > 1 => new.sr.s
      <4>1. i > 1 => n \in 1 .. n
        BY <1>7, <2>2
      <4> QED
        BY <1>9, <1>10, <4>1
    <3>4. new.sr.s => new.a7 = top
      BY <1>10 DEF Enters
    <3> QED
      BY <1>1, <1>4, <1>6, <1>10, <3>1, <3>2, <3>3, <3>4
  <2> QED
    BY <1>7, <2>1, <2>2
<1>12. ASSUME NEW i \in 1 .. Len(fs2), NEW j \in 1 .. Len(fs2), i < j
       PROVE  /\ fs2[j].sp + 6 <= fs2[i].sp
              /\ fs2[i].level <= fs2[j].sr.mask
              /\ fs2[j].level > 0 => fs2[i].level < fs2[j].level
  <2>1. CASE j \in 1 .. n
    BY <1>7, <1>8, <1>12, <2>1 DEF Chain
  <2>2. CASE j = n + 1
    <3>1. i \in 1 .. n /\ fs2[i] = fs[i] /\ fs2[j] = new
      BY <1>7, <1>12, <2>2
    <3>2. top <= fs[i].sp /\ fs[i].level <= r.sr.mask /\ fs[i] \in Frame
      BY <1>9, <3>1
    <3>3. fs[i].level \in Nat /\ r.sr.mask \in Nat /\ fs[i].sp \in Nat
      BY <3>2, FrameNumbers DEF Registers, StatusRegister
    <3>4. new.sp + 6 <= fs[i].sp
      BY <1>1, <1>10, <3>2, <3>3
    <3>5. new.level > 0 => fs[i].level < new.level
      BY <1>10, <3>2, <3>3, SMTT(40)
    <3> QED
      BY <1>10, <3>1, <3>2, <3>4, <3>5
  <2> QED
    BY <1>7, <2>1, <2>2
<1>13. Chain(e.mem, fs2)
  BY <1>11, <1>12 DEF Chain
<1>14. /\ SetSR(r, sr) \in Registers /\ SetSR(r, sr).sr = sr
       /\ r.sr.s => SetSR(r, sr).usp = r.usp
       /\ ~r.sr.s => SetSR(r, sr).usp = r.a7
  BY EntersSetSR
<1>15. /\ e.regs.sr = sr /\ e.regs.a7 = top - size
       /\ r.sr.s => e.regs.usp = r.usp
       /\ ~r.sr.s => e.regs.usp = r.a7
  <2>1. e.regs = [SetSR(r, sr) EXCEPT !.a7 = top - size, !.pc = Handler(vector)]
    BY <1>2 DEF StacksBelow
  <2> QED
    BY <1>14, <2>1 DEF Registers
<1>16. Masked(e.regs, fs2)
  <2>1. SUFFICES ASSUME NEW i \in 1 .. Len(fs2) PROVE fs2[i].level <= sr.mask
    BY <1>15 DEF Masked
  <2>2. CASE i \in 1 .. n
    <3>1. fs[i].level <= r.sr.mask /\ fs[i] \in Frame
      BY <1>9, <2>2
    <3>2. fs[i].level \in Nat /\ r.sr.mask \in Nat /\ sr.mask \in Nat
      BY <3>1, FrameNumbers, SMTT(40) DEF Registers, StatusRegister
    <3> QED
      BY <1>7, <2>2, <3>1, <3>2
  <2>3. CASE i = n + 1
    BY <1>7, <1>10, <2>3
  <2> QED
    BY <1>7, <2>2, <2>3
<1>17. Fits(e.regs, fs2)
  <2>1. fs2 # <<>> /\ fs2[Len(fs2)] = new
    BY <1>7
  <2>2. Below(e.regs.a7, fs2)
    <3>1. (top - size) % 2 = 0
      BY MemoryAssumption
    <3>2. top - size <= new.sp
      BY <1>1, <1>10
    <3> QED
      BY <1>15, <2>1, <3>1, <3>2 DEF Below
  <2>3. ~fs2[1].sr.s => e.regs.usp = fs2[1].a7
    <3>1. CASE fs = <<>>
      <4>1. n = 0 /\ fs2[1] = new
        BY <1>7, <3>1
      <4> QED
        BY <1>10, <1>15, <4>1
    <3>2. CASE fs # <<>>
      <4>1. 1 \in 1 .. n
        BY <3>2
      <4> QED
        BY <1>7, <1>9, <1>15, <4>1 DEF Enters
    <3> QED
      BY <3>1, <3>2
  <2> QED
    BY <1>15, <2>1, <2>2, <2>3 DEF Fits
<1> QED
  BY <1>13, <1>16, <1>17 DEF Extends, fs2, new

NoFramePopped == Len(frames) <= Len(frames')

\* The instruction or the acceptance of an interrupt starts with everything in order.
Orderly ==
  /\ CoreType /\ outcome = "ok"
  /\ Chain(mem, frames) /\ Masked(regs, frames) /\ Fits(regs, frames)

EntryTop(r) == IF r.sr.s THEN r.a7 ELSE r.ssp

LEMMA FitsEnters ==
  ASSUME StackIsWhole, NEW r \in Registers, NEW fs \in Seq(Frame), NEW m, Chain(m, fs), Fits(r, fs)
  PROVE  Enters(r, fs, EntryTop(r)) /\ EntryTop(r) >= 20
<1> DEFINE top == EntryTop(r)
<1>1. top \in Address /\ ResetSSP \in Nat
  BY ResetAssumption, AddressIs DEF EntryTop, Registers
<1>2. CASE r.sr.s
  <2>1. top = r.a7 /\ Below(top, fs)
    BY <1>2 DEF EntryTop, Fits
  <2>2. CASE fs = <<>>
    BY <1>1, <1>2, <2>1, <2>2 DEF Below, Enters, StackIsWhole
  <2>3. CASE fs # <<>>
    <3>1. top % 2 = 0 /\ top \in Ram /\ top <= fs[Len(fs)].sp /\ top >= 20
      BY <2>1, <2>3 DEF Below, StackIsWhole
    <3>2. ~fs[1].sr.s => r.usp = fs[1].a7
      BY <2>3 DEF Fits
    <3>3. top \in Nat
      BY <1>1, AddressIs
    <3>4. 14 <= top
      BY <3>1, <3>3
    <3> HIDE DEF top
    <3>5. Enters(r, fs, top)
      BY <1>1, <1>2, <2>1, <2>3, <3>1, <3>2, <3>4 DEF Enters
    <3> QED
      BY <3>1, <3>5 DEF top
  <2> QED
    BY <2>2, <2>3
<1>3. CASE ~r.sr.s
  <2>1. fs = <<>> /\ r.ssp = ResetSSP /\ top = r.ssp
    BY <1>3 DEF EntryTop, Fits
  <2> QED
    BY <1>1, <1>3, <2>1 DEF Enters, StackIsWhole
<1> QED
  BY <1>2, <1>3

(* A bus or address error leaves the chain longer, or the CPU at a stop    *)
(* with an error.                                                          *)
LEMMA FaultErrorNests ==
  ASSUME StackIsWhole, CoreType, outcome = "ok", NEW r \in Registers, NEW m \in Memory,
         NEW fault \in Fault, NEW next \in {"idle", "check"}, NEW top,
         Chain(m, frames), Masked(r, frames), Enters(r, frames, top), FaultError(r, m, fault, next)
  PROVE  NestCore' /\ NoFramePopped
<1> DEFINE e == Group0Exception(r, m, fault)
<1>1. /\ frames \in Seq(Frame) /\ r.sr \in StatusRegister /\ r.pc \in Address
      /\ fault.vector \in 0 .. 255
  BY DEF CoreType, Registers, Fault, XBusError, XAddressError
<1>2. /\ Supervisor(r.sr) \in StatusRegister /\ Supervisor(r.sr).s
      /\ Supervisor(r.sr).mask = r.sr.mask /\ r.sr.mask \in 0 .. 7
  BY <1>1, SupervisorType DEF Supervisor, StatusRegister
<1>3. SetSR(r, Supervisor(r.sr)).a7 = top
  BY <1>2, EntersSetSR
<1>4. top \in Nat /\ 14 <= top /\ top <= ResetSSP /\ top \in Address /\ top % 2 = 0
  BY <1>1, EntersTop DEF Enters
<1>5. /\ SameAbove(e.mem, m, top)
      /\ \/ /\ top - 14 \in Ram
            /\ StacksBelow(e, top, SetSR(r, Supervisor(r.sr)), 14, fault.vector, r, r.pc)
         \/ /\ top - 14 \notin Ram
            /\ e.fault # NoFault
            /\ e.regs.sr = Supervisor(r.sr)
  <2>1. Group0Outcome(e, r, m, fault, top)
    BY <1>3, <1>4, Group0AllOrNothing
  <2> QED
    BY <2>1 DEF Group0Outcome
<1>6. /\ Enter(e, 0)
      /\ IF e.fault # NoFault THEN Finish("error")
         ELSE IF next = "idle" THEN Finish("ok")
         ELSE Continue(next)
  BY DEF FaultError
<1> HIDE DEF e
<1>7. CASE /\ top - 14 \in Ram
           /\ StacksBelow(e, top, SetSR(r, Supervisor(r.sr)), 14, fault.vector, r, r.pc)
  <2>1. e.fault = NoFault
    BY <1>7 DEF StacksBelow
  <2>2. outcome' = "ok"
    BY <1>6, <2>1 DEF Finish, Continue
  <2>3. /\ regs' = e.regs /\ mem' = e.mem
        /\ frames' = Append(frames, [e.frame EXCEPT !.level = 0])
    BY <1>6, <2>1 DEF Enter
  <2>4. 0 \in 0 .. 7 /\ 14 \in {6, 14} /\ r.sr.mask <= Supervisor(r.sr).mask
        /\ 0 <= Supervisor(r.sr).mask /\ ~(0 > 0)
    BY <1>2
  <2>5. LET fs2 == Append(frames, [e.frame EXCEPT !.level = 0])
        IN  Chain(e.mem, fs2) /\ Masked(e.regs, fs2) /\ Fits(e.regs, fs2)
    <3>1. Extends(e, frames, 0)
      BY <1>1, <1>2, <1>5, <1>7, <2>4, FrameAdded, ZenonT(60)
    <3> QED
      BY <3>1 DEF Extends
  <2>6. Len(frames') = Len(frames) + 1
    BY <1>1, <2>3
  <2> QED
    BY <1>1, <2>2, <2>3, <2>5, <2>6 DEF NestCore, NoFramePopped
<1>8. CASE /\ e.fault # NoFault
           /\ e.regs.sr = Supervisor(r.sr)
  <2>1. regs' = e.regs /\ mem' = e.mem /\ frames' = frames /\ phase' = "idle" /\ outcome' = "error"
    BY <1>6, <1>8 DEF Enter, Finish
  <2>2. Chain(e.mem, frames)
    BY <1>1, <1>4, <1>5, ChainKept DEF Enters
  <2>3. Masked(e.regs, frames)
    BY <1>2, <1>8 DEF Masked
  <2> QED
    BY <1>1, <1>2, <1>8, <2>1, <2>2, <2>3 DEF NestCore, NoFramePopped
<1> QED
  BY <1>5, <1>7, <1>8

LEMMA ShortNests ==
  ASSUME StackIsWhole, Orderly, NEW vector \in 0 .. 255, NEW sr \in StatusRegister, sr.s,
         regs.sr.mask <= sr.mask, NEW level \in 0 .. 7, level <= sr.mask,
         level > 0 => regs.sr.mask < level, NEW pc \in Address,
         NEW e, e = ShortException(regs, mem, vector, sr, pc), Enter(e, level)
  PROVE  /\ Chain(mem', frames') /\ Masked(regs', frames') /\ NoFramePopped /\ regs'.sr.s
         /\ e.fault = NoFault => Fits(regs', frames')
<1> DEFINE top == EntryTop(regs)
<1>1. /\ regs \in Registers /\ mem \in Memory /\ frames \in Seq(Frame)
      /\ Chain(mem, frames) /\ Masked(regs, frames)
  BY DEF Orderly, CoreType
<1>2. Enters(regs, frames, top) /\ top >= 20
  BY <1>1, FitsEnters DEF Orderly
<1> HIDE DEF top
<1>3. top \in Nat /\ 14 <= top /\ top <= ResetSSP /\ top \in Address /\ top % 2 = 0
  BY <1>1, <1>2, EntersTop DEF Enters
<1>4. SetSR(regs, sr).a7 = top /\ SetSR(regs, sr) \in Registers /\ SetSR(regs, sr).sr = sr
  BY <1>1, <1>2, EntersSetSR
<1>5. /\ SameAbove(e.mem, mem, top)
      /\ \/ /\ top - 6 \in Ram
            /\ StacksBelow(e, top, SetSR(regs, sr), 6, vector, regs, pc)
         \/ /\ top - 6 \notin Ram
            /\ e.fault # NoFault
            /\ e.regs.a7 \in {top - 4, top - 6}
            /\ e.regs = [SetSR(regs, sr) EXCEPT !.a7 = e.regs.a7]
  <2>1. ShortOutcome(e, regs, mem, vector, sr, pc, top)
    BY <1>1, <1>3, <1>4, ShortAllOrNothing
  <2> QED
    BY <2>1 DEF ShortOutcome
<1>6. CASE top - 6 \in Ram /\ StacksBelow(e, top, SetSR(regs, sr), 6, vector, regs, pc)
  <2>1. e.fault = NoFault
    BY <1>6 DEF StacksBelow
  <2>2. /\ regs' = e.regs /\ mem' = e.mem
        /\ frames' = Append(frames, [e.frame EXCEPT !.level = level])
    BY <2>1 DEF Enter
  <2>3. LET fs2 == Append(frames, [e.frame EXCEPT !.level = level])
        IN  Chain(e.mem, fs2) /\ Masked(e.regs, fs2) /\ Fits(e.regs, fs2)
    <3>1. 6 \in {6, 14} /\ top - 6 \in Ram
      BY <1>6
    <3>2. StacksBelow(e, top, SetSR(regs, sr), 6, vector, regs, pc) /\ SameAbove(e.mem, mem, top)
      BY <1>5, <1>6
    <3>3. Extends(e, frames, level)
      BY <1>1, <1>2, <3>1, <3>2, FrameAdded, ZenonT(60)
    <3> QED
      BY <3>3 DEF Extends
  <2>4. Len(frames') = Len(frames) + 1
    BY <1>1, <2>2
  <2>5. e.regs.sr = sr
    <3>1. e.regs = [SetSR(regs, sr) EXCEPT !.a7 = Minus(top, 6), !.pc = Handler(vector)]
      BY <1>6 DEF StacksBelow
    <3> QED
      BY <1>4, <3>1 DEF Registers
  <2> QED
    BY <1>1, <2>2, <2>3, <2>4, <2>5 DEF NoFramePopped
<1>7. CASE /\ e.fault # NoFault
           /\ e.regs = [SetSR(regs, sr) EXCEPT !.a7 = e.regs.a7]
  <2>1. regs' = e.regs /\ mem' = e.mem /\ frames' = frames
    BY <1>7 DEF Enter
  <2>2. Chain(e.mem, frames)
    BY <1>1, <1>2, <1>3, <1>5, ChainKept DEF Enters
  <2>3. e.regs.sr = sr
    BY <1>4, <1>7 DEF Registers
  <2>4. Masked(e.regs, frames)
    <3>1. SUFFICES ASSUME NEW i \in 1 .. Len(frames) PROVE frames[i].level <= sr.mask
      BY <2>3 DEF Masked
    <3>2. frames[i] \in Frame /\ frames[i].level <= regs.sr.mask
      BY <1>1 DEF Masked
    <3>3. frames[i].level \in Nat /\ regs.sr.mask \in Nat /\ sr.mask \in Nat
      BY <1>1, <3>2, FrameNumbers DEF Registers, StatusRegister
    <3> QED
      BY <3>2, <3>3
  <2> QED
    BY <1>1, <1>7, <2>1, <2>2, <2>3, <2>4 DEF NoFramePopped
<1> QED
  BY <1>5, <1>6, <1>7

(* When a short frame does not fit, neither does the one of the bus error. *)
LEMMA RaiseNests ==
  ASSUME StackIsWhole, Orderly, NEW vector \in 0 .. 255, NEW pc \in Address, Raise(vector, pc)
  PROVE  NestCore' /\ NoFramePopped
<1> DEFINE top == EntryTop(regs)
           sr  == Supervisor(regs.sr)
           e   == ShortException(regs, mem, vector, sr, pc)
<1>1. /\ regs \in Registers /\ mem \in Memory /\ frames \in Seq(Frame)
      /\ Chain(mem, frames) /\ Masked(regs, frames) /\ regs.sr \in StatusRegister
  BY DEF Orderly, CoreType, Registers
<1>2. sr \in StatusRegister /\ sr.s /\ sr.mask = regs.sr.mask /\ sr.mask \in 0 .. 7
  BY <1>1, SupervisorType DEF Supervisor, StatusRegister
<1>3. e \in Exceptions
  BY <1>1, <1>2, ShortExceptionType
<1>4. Enters(regs, frames, top) /\ top >= 20
  BY <1>1, FitsEnters DEF Orderly
<1> HIDE DEF top, sr
<1>5. top \in Nat /\ 14 <= top /\ top <= ResetSSP /\ top \in Address /\ top % 2 = 0
  BY <1>1, <1>4, EntersTop DEF Enters
<1>6. SetSR(regs, sr).a7 = top /\ SetSR(regs, sr) \in Registers /\ SetSR(regs, sr).sr = sr
  BY <1>1, <1>2, <1>4, EntersSetSR
<1>7. /\ SameAbove(e.mem, mem, top)
      /\ \/ e.fault = NoFault
         \/ /\ top - 6 \notin Ram
            /\ e.fault # NoFault
            /\ e.regs.a7 \in {top - 4, top - 6}
            /\ e.regs = [SetSR(regs, sr) EXCEPT !.a7 = e.regs.a7]
  <2>1. ShortOutcome(e, regs, mem, vector, sr, pc, top)
    BY <1>1, <1>2, <1>5, <1>6, ShortAllOrNothing
  <2> QED
    BY <2>1 DEF ShortOutcome, StacksBelow
<1>8. CASE e.fault = NoFault
  <2>1. Enter(e, 0) /\ Continue("check")
    BY <1>8 DEF Raise, sr
  <2>2. regs.sr.mask <= sr.mask /\ 0 <= sr.mask /\ 0 \in 0 .. 7 /\ ~(0 > 0)
    BY <1>2
  <2> HIDE DEF e
  <2>3. /\ Chain(mem', frames') /\ Masked(regs', frames') /\ NoFramePopped
        /\ Fits(regs', frames')
    BY <1>2, <1>8, <2>1, <2>2, ShortNests DEF e
  <2> QED
    BY <2>1, <2>3 DEF NestCore, Continue, Orderly
<1>9. CASE /\ top - 6 \notin Ram
           /\ e.fault # NoFault
           /\ e.regs.a7 \in {top - 4, top - 6}
           /\ e.regs = [SetSR(regs, sr) EXCEPT !.a7 = e.regs.a7]
  <2> DEFINE t  == e.regs.a7
             e2 == Group0Exception(e.regs, e.mem, e.fault)
  <2>1. FaultError(e.regs, e.mem, e.fault, "check")
    BY <1>9 DEF Raise, sr
  <2>2. e.regs \in Registers /\ e.mem \in Memory /\ e.fault \in Fault
    BY <1>3 DEF Exceptions
  <2> HIDE DEF e
  <2>3. e.regs.sr = sr
    BY <1>6, <1>9 DEF Registers
  <2>4. SetSR(e.regs, Supervisor(e.regs.sr)).a7 = t /\ Supervisor(sr) = sr
    <3>1. Supervisor(sr) = sr
      BY <1>2 DEF Supervisor, StatusRegister
    <3>2. SetSR(e.regs, sr) = [e.regs EXCEPT !.sr = sr]
      BY <2>3 DEF SetSR
    <3> QED
      BY <2>2, <2>3, <3>1, <3>2 DEF Registers
  <2>5. t \in Address /\ t % 2 = 0 /\ 14 <= t /\ t <= ResetSSP /\ t <= top /\ t \in Nat
        /\ t - 14 <= top - 6 /\ top - 6 < ResetSSP /\ (top - 6) % 2 = 0 /\ top - 6 \in Address
    <3>1. t \in Address
      BY <2>2 DEF Registers
    <3>2. (top - 2 * 2) % 2 = 0 /\ (top - 2 * 3) % 2 = 0
      BY <1>5, EvenBelow
    <3>3. ResetSSP \in Nat
      BY ResetAssumption, AddressIs
    <3>4. top - 6 \in Address
      <4>1. Minus(top, 6) = top - 6 /\ Minus(top, 6) \in Address
        BY <1>5, Below14, MinusType
      <4> QED
        BY <4>1
    <3> QED
      BY <1>4, <1>5, <1>9, <3>1, <3>2, <3>3, <3>4
  <2>6. t - 14 \notin Ram
    BY <1>9, <2>5, NoHole
  <2>7. /\ SameAbove(e2.mem, e.mem, t)
        /\ e2.fault # NoFault
        /\ e2.regs.sr = sr
    <3>1. Group0Outcome(e2, e.regs, e.mem, e.fault, t)
      BY <2>2, <2>4, <2>5, Group0AllOrNothing
    <3> QED
      BY <2>3, <2>4, <2>6, <3>1 DEF Group0Outcome
  <2>8. /\ regs' = e2.regs /\ mem' = e2.mem /\ frames' = frames
        /\ phase' = "idle" /\ outcome' = "error"
    BY <2>1, <2>7 DEF FaultError, Enter, Finish
  <2> HIDE DEF e2
  <2>9. SameAbove(e2.mem, mem, top)
    <3>1. SUFFICES ASSUME NEW a \in Ram, a >= top PROVE e2.mem[a] = mem[a]
      BY DEF SameAbove
    <3>2. a \in Nat
      BY MemoryAssumption, AddressIs
    <3>3. a >= t
      BY <1>5, <2>5, <3>1, <3>2
    <3> QED
      BY <1>7, <2>7, <3>1, <3>3 DEF SameAbove
  <2>10. Chain(e2.mem, frames)
    BY <1>1, <1>4, <1>5, <2>9, ChainKept DEF Enters
  <2>11. Masked(e2.regs, frames)
    BY <1>1, <1>2, <2>7 DEF Masked
  <2> QED
    BY <1>1, <1>2, <2>7, <2>8, <2>10, <2>11 DEF NestCore, NoFramePopped
<1> QED
  BY <1>7, <1>8, <1>9

LEMMA DecodeEncode == \A sr \in StatusRegister : Decode(Encode(sr)) = sr
<1> SUFFICES ASSUME NEW sr \in StatusRegister PROVE Decode(Encode(sr)) = sr
  OBVIOUS
<1>1. sr.mask \in 0 .. 7 /\ sr.s \in BOOLEAN /\ sr = [s |-> sr.s, mask |-> sr.mask]
  BY DEF StatusRegister
<1>2. \A k \in 0 .. 7 : /\ (256 * k) \div 8192 = 0 /\ ((256 * k) \div 256) % 8 = k
                        /\ (8192 + 256 * k) \div 8192 = 1 /\ ((8192 + 256 * k) \div 256) % 8 = k
  OBVIOUS
<1>3. CASE sr.s
  <2>1. Encode(sr) = 8192 + 256 * sr.mask
    BY <1>3 DEF Encode
  <2>2. (Encode(sr) \div 8192) % 2 = 1 /\ (Encode(sr) \div 256) % 8 = sr.mask
    BY <1>1, <1>2, <2>1
  <2>3. ((Encode(sr) \div 8192) % 2 = 1) = TRUE
    BY <2>2
  <2>4. Decode(Encode(sr)) = [s |-> TRUE, mask |-> sr.mask]
    <3> DEFINE p == (Encode(sr) \div 8192) % 2 = 1
               q == (Encode(sr) \div 256) % 8
    <3>1. Decode(Encode(sr)) = [s |-> p, mask |-> q]
      BY DEF Decode
    <3>2. p = TRUE /\ q = sr.mask
      BY <2>2, <2>3
    <3> HIDE DEF p, q
    <3> QED
      BY <3>1, <3>2, Zenon
  <2>5. sr.s = TRUE
    BY <1>1, <1>3, Zenon
  <2> QED
    BY <1>1, <2>4, <2>5, Zenon
<1>4. CASE ~sr.s
  <2>1. Encode(sr) = 256 * sr.mask
    BY <1>1, <1>4 DEF Encode
  <2>2. (Encode(sr) \div 8192) % 2 = 0 /\ (Encode(sr) \div 256) % 8 = sr.mask
    BY <1>1, <1>2, <2>1
  <2>3. ((Encode(sr) \div 8192) % 2 = 1) = FALSE
    BY <2>2
  <2> QED
    BY <1>1, <1>4, <2>2, <2>3 DEF Decode
<1> QED
  BY <1>3, <1>4

LEMMA StackReadable ==
  ASSUME NEW n \in 1 .. 7, \A k \in 0 .. (n - 1) : Plus(regs.a7, 2 * k) \in Ram
  PROVE  StackFault(n) = NoFault
<1> DEFINE cells == [i \in 1 .. n |-> Plus(regs.a7, 2 * (i - 1))]
<1>1. ASSUME NEW i \in DOMAIN cells PROVE FaultAt(cells[i], Ram) = NoFault
  <2>1. i \in 1 .. n /\ i - 1 \in 0 .. (n - 1)
    OBVIOUS
  <2>2. cells[i] = Plus(regs.a7, 2 * (i - 1))
    BY <2>1
  <2> QED
    BY <2>1, <2>2, RoomFaultless
<1>2. FirstFault(cells, Ram) = 0
  BY <1>1 DEF FirstFault
<1> QED
  BY <1>2 DEF StackFault

\* The words of a frame at A7 can be read, and are what was stacked.
LEMMA FrameReadable ==
  ASSUME StackIsWhole, CoreType, NEW f \in Frame, f.sp \in Ram, f.sp + 6 <= ResetSSP,
         Stacked(mem, f), regs.a7 = f.sp
  PROVE  /\ StackFault(1) = NoFault /\ StackFault(3) = NoFault
         /\ Decode(StackWord(0)) = f.sr /\ LongAt(1) = f.pc
         /\ Plus(regs.a7, 6) = f.sp + 6
<1>1. /\ f.sp \in Nat /\ Plus(f.sp, 2) = f.sp + 2 /\ Plus(f.sp, 4) = f.sp + 4
      /\ Plus(f.sp, 6) = f.sp + 6 /\ f.sp + 2 \in Ram /\ f.sp + 4 \in Ram
  BY FrameCells
<1>2. Plus(f.sp, 0) = f.sp
  <2>1. f.sp \in Address /\ Space \in Nat
    BY MemoryAssumption, SpaceIs
  <2>2. f.sp < Space
    BY <2>1 DEF Address
  <2>3. 0 \in 0 .. 14
    OBVIOUS
  <2> QED
    BY <1>1, <2>1, <2>2, <2>3, PlusIs
<1>3. 2 * 0 = 0 /\ 2 * 1 = 2 /\ 2 * 2 = 4 /\ 1 + 1 = 2
  OBVIOUS
<1>4. StackFault(1) = NoFault
  <2>1. \A k \in 0 .. (1 - 1) : k = 0
    OBVIOUS
  <2> QED
    BY <1>2, <1>3, <2>1, StackReadable
<1>5. StackFault(3) = NoFault
  <2>1. \A k \in 0 .. (3 - 1) : k = 0 \/ k = 1 \/ k = 2
    OBVIOUS
  <2>2. ASSUME NEW k \in 0 .. (3 - 1) PROVE Plus(regs.a7, 2 * k) \in Ram
    BY <1>1, <1>2, <1>3, <2>1
  <2> QED
    BY <2>2, StackReadable
<1>6. StackWord(0) = Encode(f.sr)
  BY <1>2, <1>3 DEF StackWord, Stacked
<1>7. Decode(StackWord(0)) = f.sr
  BY <1>6, DecodeEncode, FrameNumbers
<1>8. LongAt(1) = f.pc
  <2>1. StackWord(2) = f.pc
    BY <1>3 DEF StackWord, Stacked
  <2>2. f.pc \in 0 .. (Space - 1) /\ Space \in Nat \ {0}
    BY FrameNumbers, SpaceIs DEF Address
  <2>3. f.pc % Space = f.pc
    BY <2>2, ModuloTwice
  <2> QED
    BY <1>3, <2>1, <2>3 DEF LongAt
<1> QED
  BY <1>1, <1>4, <1>5, <1>7, <1>8

\* Without its last frame the chain is a chain.
LEMMA ChainPrefix ==
  ASSUME NEW m, NEW fs \in Seq(Frame), fs # <<>>, Chain(m, fs)
  PROVE  LET fs2 == SubSeq(fs, 1, Len(fs) - 1)
         IN  /\ Chain(m, fs2) /\ Len(fs2) = Len(fs) - 1
             /\ \A i \in 1 .. Len(fs2) : fs2[i] = fs[i] /\ i \in 1 .. Len(fs) /\ i < Len(fs)
<1> DEFINE fs2 == SubSeq(fs, 1, Len(fs) - 1)
<1>1. Len(fs2) = Len(fs) - 1 /\ \A i \in 1 .. Len(fs2) : fs2[i] = fs[i] /\ i \in 1 .. Len(fs) /\ i < Len(fs)
  <2>1. Len(fs) \in Nat /\ Len(fs) >= 1 /\ Len(fs) - 1 \in Int /\ 1 \in Int
    OBVIOUS
  <2>2. \A i \in 1 .. (Len(fs) - 1) : fs[i] \in Frame
    OBVIOUS
  <2>3. /\ Len(fs2) = IF 1 <= Len(fs) - 1 THEN Len(fs) - 1 - 1 + 1 ELSE 0
        /\ \A i \in 1 .. (Len(fs) - 1 - 1 + 1) : fs2[i] = fs[1 + i - 1]
    BY <2>1, <2>2, SubSeqProperties
  <2> HIDE DEF fs2
  <2>4. Len(fs2) = Len(fs) - 1
    <3>1. \A k \in Nat : k >= 1 => (IF 1 <= k - 1 THEN k - 1 - 1 + 1 ELSE 0) = k - 1
      OBVIOUS
    <3> QED
      BY <2>1, <2>3, <3>1
  <2>5. ASSUME NEW i \in 1 .. Len(fs2)
        PROVE  fs2[i] = fs[i] /\ i \in 1 .. Len(fs) /\ i < Len(fs)
    <3>1. i \in 1 .. (Len(fs) - 1 - 1 + 1) /\ 1 + i - 1 = i
      BY <2>1, <2>4
    <3>2. fs2[i] = fs[1 + i - 1]
      BY <2>3, <3>1
    <3> QED
      BY <2>1, <2>4, <3>1, <3>2
  <2> QED
    BY <2>4, <2>5
<1> HIDE DEF fs2
<1>2. Chain(m, fs2)
  BY <1>1 DEF Chain
<1> QED
  BY <1>1, <1>2 DEF fs2

LEMMA OrderlyTypes ==
  ASSUME Orderly
  PROVE  /\ regs \in Registers /\ mem \in Memory /\ frames \in Seq(Frame)
         /\ Chain(mem, frames) /\ Masked(regs, frames) /\ Fits(regs, frames)
         /\ regs.sr \in StatusRegister /\ regs.sr.s \in BOOLEAN /\ CoreType /\ outcome = "ok"
         /\ frames # <<>> => frames[Len(frames)] \in Frame
BY DEF Orderly, CoreType, Registers, StatusRegister

\* RTE: the registers are those the frame holds.
Resumes(f) ==
  /\ frames' = SubSeq(frames, 1, Len(frames) - 1)
  /\ regs'.pc = f.pc /\ regs'.sr = f.sr /\ regs'.a7 = f.a7

LEMMA RteNests ==
  ASSUME StackIsWhole, OrderlySupervisor, Orderly, NEW i \in Instructions, Rte(i)
  PROVE  NestCore' /\ Resumes(TopFrame)
<1> DEFINE n   == Len(frames)
           f   == TopFrame
           fs2 == SubSeq(frames, 1, n - 1)
           r   == [regs EXCEPT !.a7 = Plus(@, 6)]
<1>1. regs.sr.s /\ frames # <<>> /\ regs.a7 = f.sp
  BY DEF Rte, ExecutingPrivileged, Executing, Permitted, OrderlySupervisor
<1>2. n \in 1 .. n /\ n \in Nat /\ n >= 1 /\ f = frames[n] /\ f \in Frame
  <2>1. n \in Nat /\ n >= 1
    BY <1>1, OrderlyTypes
  <2> QED
    BY <1>1, <2>1, OrderlyTypes DEF TopFrame
<1>3. /\ f.sp \in Ram /\ f.sp + 6 <= ResetSSP /\ Stacked(mem, f)
      /\ n = 1 => f.sp + 6 = ResetSSP
      /\ n > 1 => f.sr.s
      /\ f.sr.s => f.a7 = f.sp + 6
  BY <1>2, OrderlyTypes DEF Chain
<1>4. f.sp \in Nat /\ f.sp \in Address /\ f.a7 \in Address /\ f.pc \in Address
      /\ f.sr \in StatusRegister /\ f.sr.s \in BOOLEAN
  BY <1>2, <1>3, FrameNumbers, MemoryAssumption DEF StatusRegister
<1> HIDE DEF f
<1>5. /\ StackFault(1) = NoFault /\ StackFault(3) = NoFault
      /\ Decode(StackWord(0)) = f.sr /\ LongAt(1) = f.pc /\ Plus(regs.a7, 6) = f.sp + 6
  BY <1>1, <1>2, <1>3, OrderlyTypes, FrameReadable
<1>6. /\ regs' = [SetSR(r, f.sr) EXCEPT !.pc = f.pc] /\ mem' = mem
      /\ frames' = fs2 /\ outcome' = outcome
  BY <1>1, <1>5 DEF Rte, Complete, Continue, f
<1>7. r \in Registers /\ r.a7 = f.sp + 6 /\ r.sr = regs.sr /\ r.usp = regs.usp
  <2>1. Plus(regs.a7, 6) \in Address
    BY <1>1, <1>4, PlusType
  <2> QED
    BY <1>5, <2>1, OrderlyTypes, RegisterUpdates DEF Registers
<1>8. /\ Chain(mem, fs2) /\ Len(fs2) = n - 1
      /\ \A j \in 1 .. Len(fs2) : fs2[j] = frames[j] /\ j \in 1 .. n /\ j < n
  BY <1>1, OrderlyTypes, ChainPrefix
<1> HIDE DEF r, fs2
<1>9. regs'.sr = f.sr /\ regs'.pc = f.pc
  <2>1. SetSR(r, f.sr) \in Registers
    BY <1>4, <1>7, SetSRType
  <2>2. SetSR(r, f.sr).sr = f.sr
    BY <1>1, <1>4, <1>7 DEF SetSR, Registers
  <2> QED
    BY <1>6, <2>1, <2>2 DEF Registers
<1>10. f.sr.s => regs'.a7 = f.sp + 6 /\ regs'.usp = regs.usp
  <2>1. SUFFICES ASSUME f.sr.s PROVE regs'.a7 = f.sp + 6 /\ regs'.usp = regs.usp
    OBVIOUS
  <2>2. SetSR(r, f.sr) = [r EXCEPT !.sr = f.sr]
    BY <1>1, <1>7, <2>1 DEF SetSR
  <2> QED
    BY <1>6, <1>7, <2>2 DEF Registers
<1>11. ~f.sr.s => regs'.a7 = regs.usp /\ regs'.ssp = f.sp + 6 /\ n = 1
  <2>0. ~f.sr.s => n = 1
    <3>1. n = 1 \/ n > 1
      BY <1>2
    <3> QED
      BY <1>3, <3>1, Zenon
  <2>1. SUFFICES ASSUME ~f.sr.s PROVE regs'.a7 = regs.usp /\ regs'.ssp = f.sp + 6
    BY <2>0
  <2>2. SetSR(r, f.sr) = [r EXCEPT !.sr = f.sr, !.ssp = r.a7, !.a7 = r.usp]
    BY <1>1, <1>4, <1>7, <2>1 DEF SetSR
  <2> QED
    BY <1>6, <1>7, <2>2 DEF Registers
<1>12. ~f.sr.s => regs.usp = f.a7
  <2>1. SUFFICES ASSUME ~f.sr.s PROVE regs.usp = f.a7
    OBVIOUS
  <2>2. frames[1] = f
    BY <1>2, <1>11, <2>1
  <2> QED
    BY <1>1, <2>1, <2>2, OrderlyTypes DEF Fits
<1>13. Resumes(f)
  BY <1>3, <1>6, <1>9, <1>10, <1>11, <1>12 DEF Resumes, fs2
<1>14. Masked(regs', fs2)
  <2>1. SUFFICES ASSUME NEW j \in 1 .. Len(fs2) PROVE fs2[j].level <= f.sr.mask
    BY <1>9 DEF Masked
  <2>2. fs2[j] = frames[j] /\ j \in 1 .. n /\ j < n
    BY <1>8
  <2> QED
    BY <1>2, <2>2, OrderlyTypes DEF Chain
<1>15. Fits(regs', fs2)
  <2>1. CASE n = 1
    <3>1. fs2 = <<>>
      BY <1>2, <1>6, <1>8, <2>1, OrderlyTypes DEF fs2
    <3>2. f.sp + 6 = ResetSSP
      BY <1>3, <2>1
    <3> QED
      BY <1>9, <1>10, <1>11, <3>1, <3>2 DEF Fits, Below, StackIsWhole
  <2>2. CASE n > 1
    <3>1. Len(fs2) = n - 1 /\ n - 1 \in 1 .. n /\ n - 1 \in 1 .. Len(fs2) /\ 1 \in 1 .. Len(fs2)
      BY <1>2, <1>8, <2>2
    <3>2. fs2[Len(fs2)] = frames[n - 1] /\ fs2[1] = frames[1] /\ fs2 # <<>>
      BY <1>8, <3>1
    <3>3. f.sp + 6 <= frames[n - 1].sp /\ frames[n - 1].sp \in Ram
          /\ frames[n - 1].sp + 6 <= ResetSSP
      BY <1>2, <2>2, <3>1, OrderlyTypes DEF Chain
    <3>4. f.sp + 6 \in Ram /\ (f.sp + 6) % 2 = 0
      <4>1. f.sp % 2 = 0 /\ frames[n - 1].sp \in Nat /\ ResetSSP \in Nat
        BY <1>3, <3>3, MemoryAssumption, ResetAssumption, AddressIs
      <4>2. (f.sp + 6) % 2 = 0
        BY <1>4, <4>1
      <4>3. f.sp + 6 \in Address
        BY <1>5, <1>1, <1>4, PlusType
      <4>4. f.sp <= f.sp + 6 /\ f.sp + 6 < ResetSSP
        BY <1>4, <3>3, <4>1
      <4> QED
        BY <1>3, <4>2, <4>3, <4>4, NoHole
    <3>5. f.sr.s
      BY <1>3, <2>2
    <3>6. Below(f.sp + 6, fs2)
      BY <3>2, <3>3, <3>4 DEF Below
    <3>7. ~fs2[1].sr.s => regs.usp = fs2[1].a7
      BY <1>1, <3>2, OrderlyTypes DEF Fits
    <3> QED
      BY <1>9, <1>10, <3>2, <3>5, <3>6, <3>7 DEF Fits
  <2> QED
    <3>1. n = 1 \/ n > 1
      BY <1>2
    <3> QED
      BY <2>1, <2>2, <3>1
<1>16. NestCore'
  BY <1>6, <1>8, <1>14, <1>15, OrderlyTypes DEF NestCore
<1> QED
  BY <1>13, <1>16 DEF f


-----------------------------------------------------------------------------
\* Instructions and the nesting.

LEMMA NoFrames == \A r, m : Chain(m, <<>>) /\ Masked(r, <<>>)
<1>1. \A i \in 1 .. Len(<<>>) : FALSE
  OBVIOUS
<1> QED
  BY <1>1 DEF Chain, Masked

\* Whose program the instruction belongs to.
LEMMA WhoRuns ==
  ASSUME OrderlySupervisor, Orderly, NEW i \in Instructions
  PROVE  \/ ~regs.sr.s /\ frames = <<>> /\ regs.ssp = ResetSSP
         \/ regs.sr.s /\ frames = <<>> /\ i \in BootProgram /\ regs.a7 = ResetSSP
         \/ regs.sr.s /\ frames # <<>> /\ i \in HandlerProgram
<1>1. Fits(regs, frames) /\ regs.sr.s \in BOOLEAN
  BY OrderlyTypes
<1>2. CASE ~regs.sr.s
  BY <1>1, <1>2 DEF Fits
<1>3. CASE regs.sr.s /\ frames = <<>>
  BY <1>1, <1>3 DEF Fits, Below, Instructions
<1>4. CASE regs.sr.s /\ frames # <<>>
  BY <1>4 DEF Instructions
<1> QED
  BY <1>1, <1>2, <1>3, <1>4

LEMMA CompleteNests ==
  ASSUME Orderly, NEW r, NEW m, Complete(r, m), KeepFrames,
         Chain(m, frames), Masked(r, frames), Fits(r, frames)
  PROVE  NestCore' /\ NoFramePopped
<1>1. regs' = r /\ mem' = m /\ frames' = frames /\ outcome' = "ok"
  BY OrderlyTypes DEF Complete, Continue, KeepFrames
<1>2. Len(frames) \in Nat
  BY OrderlyTypes
<1> QED
  BY <1>1, <1>2 DEF NestCore, NoFramePopped

\* The program counter has no part in the nesting.
LEMMA PCFree ==
  ASSUME NEW r \in Registers, NEW fs, NEW a \in Address, Masked(r, fs), Fits(r, fs)
  PROVE  /\ Masked([r EXCEPT !.pc = a], fs) /\ Fits([r EXCEPT !.pc = a], fs)
         /\ [r EXCEPT !.pc = a] \in Registers
<1> DEFINE r2 == [r EXCEPT !.pc = a]
<1>1. r2.sr = r.sr /\ r2.a7 = r.a7 /\ r2.usp = r.usp /\ r2.ssp = r.ssp /\ r2 \in Registers
  BY DEF Registers
<1> HIDE DEF r2
<1>2. Masked(r2, fs) /\ Fits(r2, fs)
  BY <1>1 DEF Masked, Fits
<1> QED
  BY <1>1, <1>2 DEF r2

\* Whatever user code does to its own registers and to memory.
LEMMA UserNests ==
  ASSUME StackIsWhole, Orderly, ~regs.sr.s,
         NEW r \in Registers, r.sr = regs.sr, r.ssp = regs.ssp, NEW m \in Memory
  PROVE  /\ Complete(r, m) /\ KeepFrames => NestCore' /\ NoFramePopped
         /\ \A fault \in Fault : FaultError(r, m, fault, "check") => NestCore' /\ NoFramePopped
<1>1. frames = <<>> /\ r.ssp = ResetSSP /\ ~r.sr.s
  BY OrderlyTypes DEF Fits
<1>2. Chain(m, frames) /\ Masked(r, frames) /\ Fits(r, frames)
  BY <1>1, NoFrames DEF Fits
<1>3. Enters(r, frames, EntryTop(r))
  BY <1>2, OrderlyTypes, FitsEnters
<1>4. Complete(r, m) /\ KeepFrames => NestCore' /\ NoFramePopped
  BY <1>2, CompleteNests
<1>5. ASSUME NEW fault \in Fault, FaultError(r, m, fault, "check")
      PROVE  NestCore' /\ NoFramePopped
  BY <1>2, <1>3, <1>5, OrderlyTypes, FaultErrorNests
<1> QED
  BY <1>4, <1>5

\* The registers as they are, with memory in which the chain is intact.
LEMMA SameRegistersNest ==
  ASSUME StackIsWhole, Orderly, NEW m \in Memory, Chain(m, frames)
  PROVE  /\ Complete(regs, m) /\ KeepFrames => NestCore' /\ NoFramePopped
         /\ \A fault \in Fault : FaultError(regs, m, fault, "check") => NestCore' /\ NoFramePopped
<1>1. Enters(regs, frames, EntryTop(regs))
  BY OrderlyTypes, FitsEnters
<1>2. Complete(regs, m) /\ KeepFrames => NestCore' /\ NoFramePopped
  BY OrderlyTypes, CompleteNests
<1>3. ASSUME NEW fault \in Fault, FaultError(regs, m, fault, "check")
      PROVE  NestCore' /\ NoFramePopped
  BY <1>1, <1>3, OrderlyTypes, FaultErrorNests
<1> QED
  BY <1>2, <1>3

LEMMA SimpleNests ==
  ASSUME StackIsWhole, OrderlySupervisor, Orderly, NEW i \in Instructions,
         Nop(i) \/ Jump(i) \/ ResetInstruction(i)
  PROVE  NestCore' /\ NoFramePopped
<1>1. CASE Nop(i) \/ ResetInstruction(i)
  <2>1. Complete(regs, mem) /\ KeepFrames
    BY <1>1 DEF Nop, ResetInstruction
  <2> QED
    BY <2>1, OrderlyTypes, CompleteNests
<1>2. CASE Jump(i)
  <2>1. Complete([regs EXCEPT !.pc = i.arg], mem) /\ KeepFrames
    BY <1>2 DEF Jump
  <2>2. i.arg \in Address
    BY InstructionsType DEF Instruction
  <2> QED
    BY <2>1, <2>2, OrderlyTypes, PCFree, CompleteNests
<1> QED
  BY <1>1, <1>2

LEMMA StackPointerNests ==
  ASSUME StackIsWhole, OrderlySupervisor, Orderly, NEW i \in Instructions,
         MoveA7(i) \/ AddA7(i) \/ MoveToUsp(i) \/ MoveFromUsp(i)
  PROVE  NestCore' /\ NoFramePopped
<1>1. i.arg \in Address /\ i.arg \in Nat
  BY InstructionsType, AddressIs DEF Instruction
<1>2. regs \in Registers /\ regs.a7 \in Address /\ regs.usp \in Address
  BY OrderlyTypes, RegisterTypes
<1>3. CASE ~regs.sr.s
  <2>1. ~MoveToUsp(i) /\ ~MoveFromUsp(i)
    BY <1>3 DEF MoveToUsp, MoveFromUsp, ExecutingPrivileged
  <2>2. PICK a \in Address : Complete([regs EXCEPT !.a7 = a], mem) /\ KeepFrames
    <3>1. Plus(regs.a7, i.arg) \in Address
      BY <1>1, <1>2, PlusType
    <3> QED
      BY <1>1, <2>1, <3>1 DEF MoveA7, AddA7
  <2>3. /\ [regs EXCEPT !.a7 = a] \in Registers /\ [regs EXCEPT !.a7 = a].sr = regs.sr
        /\ [regs EXCEPT !.a7 = a].ssp = regs.ssp
    BY <1>2 DEF Registers
  <2> QED
    BY <1>3, <2>2, <2>3, OrderlyTypes, UserNests
<1>4. CASE regs.sr.s /\ frames = <<>> /\ i \in BootProgram /\ regs.a7 = ResetSSP
  <2>1. MoveToUsp(i)
    BY <1>4 DEF OrderlySupervisor, MoveA7, AddA7, MoveFromUsp, ExecutingPrivileged, Executing
  <2> DEFINE r == [regs EXCEPT !.usp = i.arg]
  <2>2. Complete(r, mem) /\ KeepFrames
    BY <2>1 DEF MoveToUsp
  <2>3. r.sr = regs.sr /\ r.a7 = regs.a7
    BY <1>2 DEF Registers
  <2> HIDE DEF r
  <2>4. Fits(r, frames)
    BY <1>4, <2>3 DEF Fits, Below, StackIsWhole
  <2>5. Masked(r, frames)
    BY <1>4, NoFrames
  <2> QED
    BY <2>2, <2>4, <2>5, OrderlyTypes, CompleteNests
<1>5. CASE regs.sr.s /\ frames # <<>> /\ i \in HandlerProgram
  <2>1. AddA7(i) /\ i.op = "addA7"
    BY <1>5 DEF OrderlySupervisor, MoveA7, AddA7, MoveToUsp, MoveFromUsp, ExecutingPrivileged,
         Executing
  <2> DEFINE a == Plus(regs.a7, i.arg)
             r == [regs EXCEPT !.a7 = a]
  <2>2. Complete(r, mem) /\ KeepFrames
    BY <2>1 DEF AddA7
  <2>3. a = TopFrame.sp
    BY <2>1 DEF AddA7, Executing, Permitted, OrderlySupervisor
  <2>4. r.sr = regs.sr /\ r.a7 = a /\ r.usp = regs.usp
    BY <1>2 DEF Registers
  <2> HIDE DEF r, a
  <2>5. a \in Ram /\ a = frames[Len(frames)].sp
    <3>1. Len(frames) \in 1 .. Len(frames)
      BY <1>5, OrderlyTypes
    <3> QED
      BY <2>3, <3>1, OrderlyTypes DEF Chain, TopFrame
  <2>6. Below(a, frames)
    <3>1. a \in Nat /\ a % 2 = 0
      BY <2>5, MemoryAssumption, AddressIs
    <3> QED
      BY <1>5, <2>5, <3>1 DEF Below
  <2>7. Fits(r, frames) /\ Masked(r, frames)
    BY <1>5, <2>4, <2>6, OrderlyTypes DEF Fits, Masked
  <2> QED
    BY <2>2, <2>7, OrderlyTypes, CompleteNests
<1> QED
  BY <1>3, <1>4, <1>5, WhoRuns

LEMMA ReturnNests ==
  ASSUME StackIsWhole, OrderlySupervisor, Orderly, NEW i \in Instructions, Rts(i) \/ Rtr(i)
  PROVE  NestCore' /\ NoFramePopped
<1>1. ~regs.sr.s
  <2>1. i.op \in {"rts", "rtr"}
    BY DEF Rts, Rtr, Executing
  <2>2. ~(i \in BootProgram) /\ ~(i \in HandlerProgram)
    BY <2>1 DEF OrderlySupervisor
  <2> QED
    BY <2>2, WhoRuns
<1>2. /\ StackFault(1) \in Fault /\ StackFault(2) \in Fault /\ StackFault(3) \in Fault
      /\ StackFault(2) = NoFault => LongAt(0) \in Address
      /\ StackFault(3) = NoFault => LongAt(1) \in Address
  <2>1. /\ StackFault(2) \in Fault
        /\ StackFault(2) = NoFault => StackWord(1) \in Word
    BY OrderlyTypes, StackType
  <2>2. /\ StackFault(3) \in Fault
        /\ StackFault(3) = NoFault => StackWord(2) \in Word
    BY OrderlyTypes, StackType
  <2>3. StackFault(1) \in Fault
    BY OrderlyTypes, StackType
  <2>4. StackWord(0 + 1) = StackWord(1) /\ StackWord(1 + 1) = StackWord(2)
    OBVIOUS
  <2> QED
    BY <2>1, <2>2, <2>3, <2>4, LongType
<1>3. \A n \in {2, 4, 6} : Plus(regs.a7, n) \in Address
  BY OrderlyTypes, RegisterTypes, PlusType
<1>4. regs \in Registers /\ mem \in Memory
  BY OrderlyTypes
<1>5. \A a \in Address, b \in Address :
        LET r == [regs EXCEPT !.a7 = a, !.pc = b]
        IN  r \in Registers /\ r.sr = regs.sr /\ r.ssp = regs.ssp
  BY <1>4 DEF Registers
<1>6. \A a \in Address :
        LET r == [regs EXCEPT !.a7 = a]
        IN  r \in Registers /\ r.sr = regs.sr /\ r.ssp = regs.ssp
  BY <1>4 DEF Registers
<1>7. \/ FaultError(regs, mem, StackFault(1), "check")
      \/ FaultError(regs, mem, StackFault(2), "check")
      \/ FaultError([regs EXCEPT !.a7 = Plus(@, 2)], mem, StackFault(3), "check")
      \/ /\ StackFault(2) = NoFault
         /\ Complete([regs EXCEPT !.a7 = Plus(@, 4), !.pc = LongAt(0)], mem) /\ KeepFrames
      \/ /\ StackFault(3) = NoFault
         /\ Complete([regs EXCEPT !.a7 = Plus(@, 6), !.pc = LongAt(1)], mem) /\ KeepFrames
  BY DEF Rts, Rtr
<1>8. ASSUME FaultError(regs, mem, StackFault(1), "check") \/ FaultError(regs, mem, StackFault(2), "check")
      PROVE  NestCore' /\ NoFramePopped
  BY <1>1, <1>2, <1>4, <1>8, UserNests
<1>9. ASSUME FaultError([regs EXCEPT !.a7 = Plus(@, 2)], mem, StackFault(3), "check")
      PROVE  NestCore' /\ NoFramePopped
  <2> DEFINE r == [regs EXCEPT !.a7 = Plus(@, 2)]
  <2>1. r \in Registers /\ r.sr = regs.sr /\ r.ssp = regs.ssp
    BY <1>3, <1>6
  <2>2. FaultError(r, mem, StackFault(3), "check")
    BY <1>9
  <2> HIDE DEF r
  <2> QED
    BY <1>1, <1>2, <1>4, <2>1, <2>2, UserNests
<1>10. ASSUME NEW a \in Address, NEW b \in Address,
              Complete([regs EXCEPT !.a7 = a, !.pc = b], mem), KeepFrames
       PROVE  NestCore' /\ NoFramePopped
  <2> DEFINE r == [regs EXCEPT !.a7 = a, !.pc = b]
  <2>1. r \in Registers /\ r.sr = regs.sr /\ r.ssp = regs.ssp
    BY <1>5
  <2>2. Complete(r, mem) /\ KeepFrames
    BY <1>10
  <2> HIDE DEF r
  <2> QED
    BY <1>1, <1>4, <2>1, <2>2, UserNests
<1>11. Plus(regs.a7, 4) \in Address /\ Plus(regs.a7, 6) \in Address
  BY <1>3
<1>12. CASE /\ StackFault(2) = NoFault
            /\ Complete([regs EXCEPT !.a7 = Plus(@, 4), !.pc = LongAt(0)], mem) /\ KeepFrames
  BY <1>2, <1>10, <1>11, <1>12
<1>13. CASE /\ StackFault(3) = NoFault
            /\ Complete([regs EXCEPT !.a7 = Plus(@, 6), !.pc = LongAt(1)], mem) /\ KeepFrames
  BY <1>2, <1>10, <1>11, <1>13
<1> QED
  BY <1>7, <1>8, <1>9, <1>12, <1>13

\* What is written outside the stack does not touch the chain.
LEMMA ChainStays ==
  ASSUME StackIsWhole, NEW fs \in Seq(Frame), NEW m, NEW m2, Chain(m, fs),
         \A a \in Ram : a < ResetSSP => m2[a] = m[a]
  PROVE  Chain(m2, fs)
<1>1. ASSUME NEW i \in 1 .. Len(fs) PROVE Stacked(m2, fs[i])
  <2>1. fs[i].sp \in Ram /\ fs[i].sp + 6 <= ResetSSP /\ Stacked(m, fs[i])
    BY DEF Chain
  <2>2. /\ fs[i].sp \in Nat /\ Plus(fs[i].sp, 2) = fs[i].sp + 2 /\ Plus(fs[i].sp, 4) = fs[i].sp + 4
        /\ fs[i].sp + 2 \in Ram /\ fs[i].sp + 4 \in Ram
    BY <2>1, FrameCells
  <2>3. fs[i].sp < ResetSSP /\ fs[i].sp + 2 < ResetSSP /\ fs[i].sp + 4 < ResetSSP
    <3>1. ResetSSP \in Nat
      BY ResetAssumption, AddressIs
    <3> QED
      BY <2>1, <2>2, <3>1
  <2>4. /\ m2[fs[i].sp] = m[fs[i].sp] /\ m2[fs[i].sp + 2] = m[fs[i].sp + 2]
        /\ m2[fs[i].sp + 4] = m[fs[i].sp + 4]
    BY <2>1, <2>2, <2>3
  <2> QED
    BY <2>1, <2>2, <2>4 DEF Stacked
<1> QED
  BY <1>1 DEF Chain

LEMMA StoreNests ==
  ASSUME StackIsWhole, OrderlySupervisor, Orderly, NEW i \in Instructions, Store(i)
  PROVE  NestCore' /\ NoFramePopped
<1> DEFINE w == WriteWords(mem, <<i.arg>>, <<i.word>>)
<1>1. i.arg \in Address /\ i.word \in Word
  BY InstructionsType DEF Instruction
<1>2. <<i.arg>> \in [1 .. 1 -> Address] /\ <<i.word>> \in [1 .. 1 -> Word]
  BY <1>1
<1>3. w.fault \in Fault /\ w.mem \in Memory
  BY <1>2, OrderlyTypes, WriteWordsType DEF Memory
<1>4. Chain(w.mem, frames)
  <2>1. CASE frames = <<>>
    BY <2>1, NoFrames
  <2>2. CASE frames # <<>>
    <3>1. i \in HandlerProgram /\ i.op = "store"
      BY <2>2, WhoRuns DEF Store, Executing
    <3>2. i.arg \in Ram => i.arg >= ResetSSP
      BY <3>1 DEF OrderlySupervisor
    <3>3. ASSUME NEW a \in Ram, a < ResetSSP PROVE w.mem[a] = mem[a]
      <4>1. i.arg # a
        <5>1. a \in Nat /\ i.arg \in Nat /\ ResetSSP \in Nat
          BY <1>1, MemoryAssumption, ResetAssumption, AddressIs
        <5> QED
          BY <3>2, <3>3, <5>1
      <4>2. \A k \in 1 .. 1 : <<i.arg>>[k] # a
        BY <4>1
      <4>3. 1 \in 0 .. 7
        OBVIOUS
      <4> QED
        BY <1>2, <4>2, <4>3, OrderlyTypes, WritesElsewhere DEF Memory
    <3> HIDE DEF w
    <3> QED
      BY <3>3, OrderlyTypes, ChainStays
  <2> QED
    BY <2>1, <2>2
<1>5. \/ Complete(regs, w.mem) /\ KeepFrames
      \/ FaultError(regs, w.mem, w.fault, "check")
  BY DEF Store
<1> HIDE DEF w
<1> QED
  BY <1>3, <1>4, <1>5, SameRegistersNest

LEMMA JsrNests ==
  ASSUME StackIsWhole, OrderlySupervisor, Orderly, NEW i \in Instructions, Jsr(i)
  PROVE  NestCore' /\ NoFramePopped
<1> DEFINE r == [regs EXCEPT !.a7 = Minus(@, 4)]
           w == WriteWords(mem, <<r.a7, Plus(r.a7, 2)>>, <<0, regs.pc>>)
<1>1. i.arg \in Address
  BY InstructionsType DEF Instruction
<1>2. /\ Minus(regs.a7, 4) \in Address /\ r \in Registers
      /\ r.a7 = Minus(regs.a7, 4) /\ r.sr = regs.sr /\ r.ssp = regs.ssp /\ r.usp = regs.usp
  <2>1. Minus(regs.a7, 4) \in Address
    BY OrderlyTypes, RegisterTypes, MinusType
  <2> QED
    BY <2>1, OrderlyTypes DEF Registers
<1>3. \/ w.bad = 0 /\ Complete([r EXCEPT !.pc = i.arg], w.mem) /\ KeepFrames
      \/ FaultError(r, w.mem, w.fault, "check")
  BY DEF Jsr
<1> HIDE DEF r
<1>4. /\ <<r.a7, Plus(r.a7, 2)>> \in [1 .. 2 -> Address]
      /\ <<0, regs.pc>> \in [1 .. 2 -> Word]
  <2>1. r.a7 \in Address /\ Plus(r.a7, 2) \in Address
    BY <1>2, PlusType
  <2>2. 0 \in Word /\ regs.pc \in Word
    <3>1. 0 \in Word /\ regs.pc \in Address
      BY WordIs, OrderlyTypes, RegisterTypes
    <3> QED
      BY <3>1, AddressIs, Zenon
  <2> QED
    BY <2>1, <2>2
<1>5. w.fault \in Fault /\ w.mem \in Memory
  <2>1. \A addresses \in [1 .. 2 -> Address], values \in [1 .. 2 -> Word] :
          /\ WriteWords(mem, addresses, values).fault \in Fault
          /\ WriteWords(mem, addresses, values).mem \in Memory
    BY OrderlyTypes, WriteWordsType DEF Memory
  <2> QED
    BY <1>4, <2>1
<1>6. CASE ~regs.sr.s
  <2> DEFINE r2 == [r EXCEPT !.pc = i.arg]
  <2>1. r2 \in Registers /\ r2.sr = regs.sr /\ r2.ssp = regs.ssp
    BY <1>1, <1>2 DEF Registers
  <2>2. \/ Complete(r2, w.mem) /\ KeepFrames
        \/ FaultError(r, w.mem, w.fault, "check")
    BY <1>3
  <2> HIDE DEF w, r2
  <2> QED
    BY <1>2, <1>5, <1>6, <2>1, <2>2, UserNests
<1>7. CASE regs.sr.s /\ frames = <<>> /\ i \in BootProgram /\ regs.a7 = ResetSSP
  BY <1>7 DEF Jsr, Executing, OrderlySupervisor
<1>8. CASE regs.sr.s /\ frames # <<>> /\ i \in HandlerProgram
  <2> DEFINE top == regs.a7
  <2>1. Enters(regs, frames, top) /\ top >= 20 /\ Below(top, frames) /\ top \in Address
    <3>1. EntryTop(regs) = top
      BY <1>8 DEF EntryTop
    <3> QED
      BY <1>8, <3>1, OrderlyTypes, FitsEnters DEF Fits, Enters
  <2> HIDE DEF top
  <2>2. /\ top \in Nat /\ top % 2 = 0 /\ top <= frames[Len(frames)].sp
        /\ frames[Len(frames)].sp \in Nat /\ frames[Len(frames)].sp < ResetSSP /\ ResetSSP \in Nat
    <3>1. Len(frames) \in 1 .. Len(frames)
      BY <1>8, OrderlyTypes
    <3>2. frames[Len(frames)].sp \in Ram /\ frames[Len(frames)].sp + 6 <= ResetSSP
      BY <3>1, OrderlyTypes DEF Chain
    <3>3. top \in Nat /\ frames[Len(frames)].sp \in Nat /\ ResetSSP \in Nat
      BY <2>1, <3>2, MemoryAssumption, ResetAssumption, AddressIs
    <3>4. top % 2 = 0 /\ top <= frames[Len(frames)].sp
      BY <1>8, <2>1 DEF Below
    <3> QED
      BY <3>2, <3>3, <3>4
  <2>3. r.a7 = top - 4 /\ Plus(r.a7, 2) = top - 2
    <3>1. 4 \in 0 .. 14 /\ 14 <= top /\ 2 \in 0 .. 14
      BY <2>1, <2>2
    <3>2. Minus(top, 4) = top - 4
      BY <2>1, <3>1, Below14
    <3>3. top < Space /\ Space \in Nat
      BY <2>1, <2>2, SpaceIs DEF Address
    <3>4. (top - 4) + 2 = top - 2 /\ top - 4 \in Nat /\ (top - 4) + 2 < Space
      BY <2>1, <2>2, <3>3
    <3>5. top - 4 \in Address
      BY <1>2, <3>2 DEF top
    <3>6. Plus(top - 4, 2) = (top - 4) + 2
      BY <3>1, <3>4, <3>5, PlusIs
    <3> QED
      BY <1>2, <3>2, <3>4, <3>6 DEF top
  <2>4. SameAbove(w.mem, mem, top)
    <3>1. SUFFICES ASSUME NEW a \in Ram, a >= top PROVE w.mem[a] = mem[a]
      BY DEF SameAbove
    <3>2. a \in Nat
      BY MemoryAssumption, AddressIs
    <3>3. \A k \in 1 .. 2 : <<r.a7, Plus(r.a7, 2)>>[k] # a
      <4>1. top - 4 # a /\ top - 2 # a
        BY <2>2, <3>1, <3>2
      <4> QED
        BY <2>3, <4>1
    <3>4. 2 \in 0 .. 7
      OBVIOUS
    <3> QED
      BY <1>4, <3>3, <3>4, OrderlyTypes, WritesElsewhere DEF Memory
  <2>5. w.bad = 0 => top - 4 \in Ram
    <3>1. SUFFICES ASSUME w.bad = 0 PROVE top - 4 \in Ram
      OBVIOUS
    <3>2. FirstFault(<<r.a7, Plus(r.a7, 2)>>, Ram) = 0
      BY <3>1 DEF WriteWords
    <3>3. 1 \in 1 .. 2 /\ 2 \in 0 .. 7
      OBVIOUS
    <3>4. FaultAt(<<r.a7, Plus(r.a7, 2)>>[1], Ram) = NoFault
      BY <1>4, <3>2, <3>3, FirstFaultType
    <3>5. <<r.a7, Plus(r.a7, 2)>>[1] = r.a7
      OBVIOUS
    <3>6. r.a7 \in Address
      BY <1>2
    <3> QED
      BY <2>3, <3>4, <3>5, <3>6, FaultType
  <2> HIDE DEF w
  <2>6. Chain(w.mem, frames)
    BY <2>2, <2>4, OrderlyTypes, ChainKept
  <2>7. Masked(r, frames)
    BY <1>2, OrderlyTypes DEF Masked
  <2>8. (top - 4) % 2 = 0 /\ top - 4 <= frames[Len(frames)].sp /\ 14 <= top - 4
    <3>1. (top - 2 * 2) % 2 = 0
      BY <2>1, <2>2, EvenBelow
    <3> QED
      BY <2>1, <2>2, <3>1
  <2>9. CASE w.bad = 0 /\ Complete([r EXCEPT !.pc = i.arg], w.mem) /\ KeepFrames
    <3>1. Below(r.a7, frames)
      BY <1>8, <2>3, <2>5, <2>8, <2>9 DEF Below
    <3>2. Fits(r, frames)
      BY <1>2, <1>8, <3>1, OrderlyTypes DEF Fits
    <3> QED
      BY <1>1, <1>2, <2>6, <2>7, <2>9, <3>2, PCFree, CompleteNests
  <2>10. CASE FaultError(r, w.mem, w.fault, "check")
    <3>1. Enters(r, frames, r.a7)
      BY <1>2, <1>8, <2>1, <2>3, <2>8 DEF Enters
    <3> QED
      BY <1>2, <1>5, <2>6, <2>7, <2>10, <3>1, OrderlyTypes, FaultErrorNests
  <2> QED
    BY <1>3, <2>9, <2>10
<1> QED
  BY <1>6, <1>7, <1>8, WhoRuns

LEMMA ExceptionNests ==
  ASSUME StackIsWhole, Orderly, NEW i \in Instructions,
         Trap(i) \/ Illegal(i) \/ PrivilegeViolation(i) \/ LineA(i)
  PROVE  NestCore' /\ NoFramePopped
<1>1. regs.pc \in Address /\ regs.sr \in StatusRegister
  BY OrderlyTypes, RegisterTypes
<1>2. CASE Trap(i)
  BY <1>1, <1>2, RaiseNests DEF Trap, XTrap
<1>3. CASE Illegal(i)
  BY <1>1, <1>3, RaiseNests DEF Illegal, XIllegal
<1>4. CASE PrivilegeViolation(i)
  BY <1>1, <1>4, RaiseNests DEF PrivilegeViolation, XPrivViolation
<1>5. CASE LineA(i)
  <2> DEFINE sr == Supervisor(regs.sr)
             e  == ShortException(regs, mem, XLineA, sr, Minus(regs.pc, 2))
  <2>1. /\ sr \in StatusRegister /\ sr.s /\ sr.mask = regs.sr.mask /\ sr.mask \in 0 .. 7
    BY <1>1, SupervisorType DEF Supervisor, StatusRegister
  <2>2. Minus(regs.pc, 2) \in Address /\ XLineA \in 0 .. 255 /\ 0 \in 0 .. 7 /\ ~(0 > 0)
    BY <1>1, MinusType DEF XLineA
  <2>3. /\ Enter(e, 0)
        /\ IF e.fault = NoFault THEN Continue("check") ELSE Finish("error")
    BY <1>5 DEF LineA
  <2>4. regs.sr.mask <= sr.mask /\ 0 <= sr.mask
    BY <2>1
  <2> HIDE DEF sr
  <2>5. /\ Chain(mem', frames') /\ Masked(regs', frames') /\ NoFramePopped /\ regs'.sr.s
        /\ e.fault = NoFault => Fits(regs', frames')
    <3> DEFINE e2 == e
    <3>1. e2 = ShortException(regs, mem, XLineA, sr, Minus(regs.pc, 2)) /\ Enter(e2, 0)
      BY <2>3
    <3> HIDE DEF e2
    <3>2. /\ Chain(mem', frames') /\ Masked(regs', frames') /\ NoFramePopped /\ regs'.sr.s
          /\ e2.fault = NoFault => Fits(regs', frames')
      BY <2>1, <2>2, <2>4, <3>1, ShortNests
    <3> QED
      BY <3>2 DEF e2
  <2> HIDE DEF e
  <2>6. CASE e.fault = NoFault
    BY <2>3, <2>5, <2>6, OrderlyTypes DEF NestCore, Continue
  <2>7. CASE e.fault # NoFault
    BY <2>3, <2>5, <2>7 DEF NestCore, Finish
  <2> QED
    BY <2>6, <2>7
<1> QED
  BY <1>2, <1>3, <1>4, <1>5

\* A status register written by supervisor code.
LEMMA StatusNests ==
  ASSUME StackIsWhole, OrderlySupervisor, Orderly, NEW i \in Instructions, regs.sr.s,
         i.op \in {"stop", "moveToSr"}
  PROVE  /\ SetSR(regs, Decode(i.word)) \in Registers
         /\ Masked(SetSR(regs, Decode(i.word)), frames) /\ Fits(SetSR(regs, Decode(i.word)), frames)
<1> DEFINE sr == Decode(i.word)
           r  == SetSR(regs, sr)
<1>1. sr \in StatusRegister /\ sr.s \in BOOLEAN /\ regs \in Registers
  BY Codec, InstructionsType, OrderlyTypes DEF Instruction, StatusRegister
<1>2. r \in Registers
  BY <1>1, SetSRType
<1>3. CASE frames = <<>>
  <2>1. regs.a7 = ResetSSP
    BY <1>3, WhoRuns
  <2> HIDE DEF sr
  <2>2. CASE sr.s
    <3>1. r = [regs EXCEPT !.sr = sr]
      BY <2>2 DEF SetSR
    <3>2. r.a7 = ResetSSP /\ r.sr = sr
      BY <1>1, <2>1, <3>1 DEF Registers
    <3> HIDE DEF r
    <3> QED
      BY <1>2, <1>3, <2>2, <3>2, NoFrames DEF Fits, Below, StackIsWhole, sr, r
  <2>3. CASE ~sr.s
    <3>1. r = [regs EXCEPT !.sr = sr, !.ssp = regs.a7, !.a7 = regs.usp]
      BY <1>1, <2>3 DEF SetSR
    <3>2. r.ssp = ResetSSP /\ r.sr = sr
      BY <1>1, <2>1, <3>1 DEF Registers
    <3> HIDE DEF r
    <3> QED
      BY <1>2, <1>3, <2>3, <3>2, NoFrames DEF Fits, sr, r
  <2> QED
    BY <1>1, <2>2, <2>3
<1>4. CASE frames # <<>>
  <2>1. sr = [s |-> TRUE, mask |-> 7]
    BY <1>4, WhoRuns DEF OrderlySupervisor
  <2> HIDE DEF sr
  <2>2. sr.s /\ sr.mask = 7
    BY <2>1
  <2>3. r = [regs EXCEPT !.sr = sr]
    BY <2>2 DEF SetSR
  <2>4. r.a7 = regs.a7 /\ r.sr = sr /\ r.usp = regs.usp
    BY <1>1, <2>3 DEF Registers
  <2> HIDE DEF r
  <2>5. Fits(r, frames)
    BY <1>4, <2>2, <2>4, OrderlyTypes DEF Fits
  <2>6. Masked(r, frames)
    <3>1. SUFFICES ASSUME NEW k \in 1 .. Len(frames) PROVE frames[k].level <= 7
      BY <2>2, <2>4 DEF Masked
    <3>2. frames[k] \in Frame
      BY OrderlyTypes
    <3>3. frames[k].level \in 0 .. 7
      BY <3>2 DEF Frame
    <3> QED
      BY <3>3
  <2> QED
    BY <1>2, <2>5, <2>6 DEF r, sr
<1> QED
  BY <1>3, <1>4

LEMMA StatusInstructionNests ==
  ASSUME StackIsWhole, OrderlySupervisor, Orderly, NEW i \in Instructions, Stop(i) \/ MoveToSr(i)
  PROVE  NestCore' /\ NoFramePopped
<1> DEFINE r == SetSR(regs, Decode(i.word))
<1>1. regs.sr.s /\ i.op \in {"stop", "moveToSr"}
  BY DEF Stop, MoveToSr, ExecutingPrivileged, Executing
<1>2. r \in Registers /\ Masked(r, frames) /\ Fits(r, frames)
  BY <1>1, StatusNests
<1>3. regs.pc \in Address /\ Plus(regs.pc, 2) \in Address
  BY OrderlyTypes, RegisterTypes, PlusType
<1>4. \/ Complete(r, mem) /\ KeepFrames
      \/ Complete([r EXCEPT !.pc = Plus(regs.pc, 2)], mem) /\ KeepFrames
      \/ FaultError(regs, mem, FaultAt(regs.pc, Code), "check")
  BY DEF Stop, MoveToSr
<1>5. FaultAt(regs.pc, Code) \in Fault
  BY <1>3, FaultType
<1> HIDE DEF r
<1>6. CASE Complete(r, mem) /\ KeepFrames
  BY <1>2, <1>6, OrderlyTypes, CompleteNests
<1>7. CASE Complete([r EXCEPT !.pc = Plus(regs.pc, 2)], mem) /\ KeepFrames
  BY <1>2, <1>3, <1>7, OrderlyTypes, PCFree, CompleteNests
<1>8. CASE FaultError(regs, mem, FaultAt(regs.pc, Code), "check")
  BY <1>5, <1>8, OrderlyTypes, SameRegistersNest
<1> QED
  BY <1>4, <1>6, <1>7, <1>8

-----------------------------------------------------------------------------
\* Steps and the nesting.

LEMMA InOrder ==
  ASSUME NestInv, outcome = "ok"
  PROVE  Orderly
BY DEF NestInv, NestCore, TypeOK, Orderly, CoreType, Memory

LEMMA ExecuteNests ==
  ASSUME StackIsWhole, OrderlySupervisor, NestInv, Execute
  PROVE  /\ NestCore' /\ phase' \in {"idle", "check"}
         /\ phase = "execute"
         /\ Len(frames') < Len(frames) => Resumes(TopFrame)
<1>1. PICK i \in Instructions :
        \/ Nop(i) \/ Jump(i) \/ MoveA7(i) \/ AddA7(i) \/ MoveToUsp(i) \/ MoveFromUsp(i)
        \/ Store(i) \/ Jsr(i)
        \/ Rts(i) \/ Rte(i) \/ Rtr(i)
        \/ Trap(i) \/ Illegal(i) \/ LineA(i) \/ PrivilegeViolation(i)
        \/ Stop(i) \/ ResetInstruction(i) \/ MoveToSr(i)
  BY DEF Execute
<1>2. phase = "execute"
  BY <1>1 DEF Nop, Jump, MoveA7, AddA7, MoveToUsp, MoveFromUsp, Store, Jsr, Rts, Rte,
     Rtr, Trap, Illegal, LineA, PrivilegeViolation, Stop, ResetInstruction, MoveToSr,
     ExecutingPrivileged, Executing
<1>3. outcome = "ok"
  BY <1>2 DEF NestInv, NestCore, TypeOK
<1>4. Orderly
  BY <1>3, InOrder
<1>5. Done
  BY <1>1, <1>4, SimpleInstructionType, StoreType, JsrType, ReturnType,
     ExceptionInstructionType, StatusInstructionType DEF Orderly
<1>6. NoFramePopped => ~(Len(frames') < Len(frames))
  <2>1. Len(frames) \in Nat /\ Len(frames') \in Nat
    <3>1. frames \in Seq(Frame) /\ frames' \in Seq(Frame)
      BY <1>4, <1>5 DEF Orderly, CoreType, Done
    <3> QED
      BY <3>1
  <2> QED
    BY <2>1 DEF NoFramePopped
<1>7. CASE Rte(i)
  BY <1>2, <1>4, <1>5, <1>7, RteNests DEF Done
<1>8. CASE ~Rte(i)
  <2>1. NestCore' /\ NoFramePopped
    BY <1>1, <1>4, <1>8, SimpleNests, StackPointerNests, StoreNests, JsrNests, ReturnNests,
       ExceptionNests, StatusInstructionNests
  <2> QED
    BY <1>2, <1>5, <1>6, <2>1 DEF Done
<1> QED
  BY <1>7, <1>8

LEMMA FetchNests ==
  ASSUME StackIsWhole, OrderlySupervisor, NestInv, Fetch
  PROVE  NestCore' /\ phase' # "accept"
<1>1. outcome = "ok"
  BY DEF Fetch, Callable, OrderlySupervisor, NestInv, NestCore, TypeOK
<1>2. Orderly
  BY <1>1, InOrder
<1>3. regs.pc \in Address /\ Plus(regs.pc, 2) \in Address
  BY <1>2, OrderlyTypes, RegisterTypes, PlusType
<1>4. FaultAt(regs.pc, Code) \in Fault
  BY <1>3, FaultType
<1>5. \/ /\ regs' = [regs EXCEPT !.pc = Plus(@, 2)]
         /\ Continue("execute")
         /\ UNCHANGED <<mem, frames>>
      \/ FaultError(regs, mem, FaultAt(regs.pc, Code), "idle")
  BY DEF Fetch
<1>6. CASE /\ regs' = [regs EXCEPT !.pc = Plus(@, 2)]
           /\ Continue("execute")
           /\ UNCHANGED <<mem, frames>>
  <2>1. Masked(regs', frames) /\ Fits(regs', frames)
    BY <1>2, <1>3, <1>6, OrderlyTypes, PCFree
  <2> QED
    BY <1>1, <1>2, <1>6, <2>1, OrderlyTypes DEF NestCore, Continue
<1>7. CASE FaultError(regs, mem, FaultAt(regs.pc, Code), "idle")
  <2>1. Enters(regs, frames, EntryTop(regs))
    BY <1>2, OrderlyTypes, FitsEnters
  <2>2. NestCore'
    BY <1>2, <1>4, <1>7, <2>1, OrderlyTypes, FaultErrorNests
  <2>3. phase' \in {"idle", "check"}
    BY <1>2, <1>4, <1>7, OrderlyTypes, FaultErrorType
  <2> QED
    BY <2>2, <2>3
<1> QED
  BY <1>5, <1>6, <1>7

LEMMA AcceptNests ==
  ASSUME StackIsWhole, NestInv, Accept
  PROVE  NestCore' /\ phase' # "accept" /\ NoFramePopped
<1> DEFINE sr == [s |-> TRUE, mask |-> grant.level]
           e  == ShortException(regs, mem, grant.request.vector, sr, regs.pc)
<1>1. phase = "accept" /\ outcome = "ok" /\ grant.level > regs.sr.mask
  BY DEF Accept, NestInv, NestCore, TypeOK
<1>2. Orderly
  BY <1>1, InOrder
<1>3. grant.level \in 1 .. 7 /\ grant.request.vector \in 0 .. 255
  BY <1>1 DEF NestInv, TypeOK, IC!Grants, IC!Levels, IC!PendingInterrupt
<1>4. sr \in StatusRegister /\ sr.s /\ sr.mask = grant.level
  BY <1>3 DEF StatusRegister
<1>5. regs.sr.mask \in 0 .. 7 /\ regs.pc \in Address
  BY <1>2, OrderlyTypes DEF Registers, StatusRegister
<1>6. Enter(e, grant.level) /\ (IF e.fault # NoFault THEN Finish("error")
                                ELSE IF resume = "idle" THEN Finish("ok")
                                ELSE Continue("fetch"))
  BY DEF Accept
<1>7. regs.sr.mask <= sr.mask /\ grant.level \in 0 .. 7 /\ grant.level <= sr.mask
      /\ regs.sr.mask < grant.level
  BY <1>1, <1>3, <1>4, <1>5
<1> HIDE DEF sr
<1>8. /\ Chain(mem', frames') /\ Masked(regs', frames') /\ NoFramePopped /\ regs'.sr.s
      /\ e.fault = NoFault => Fits(regs', frames')
  <2> DEFINE e2 == e
  <2>1. /\ e2 = ShortException(regs, mem, grant.request.vector, sr, regs.pc)
        /\ Enter(e2, grant.level)
    BY <1>6
  <2> HIDE DEF e2
  <2>2. /\ Chain(mem', frames') /\ Masked(regs', frames') /\ NoFramePopped /\ regs'.sr.s
        /\ e2.fault = NoFault => Fits(regs', frames')
    BY <1>2, <1>3, <1>4, <1>5, <1>7, <2>1, ShortNests
  <2> QED
    BY <2>2 DEF e2
<1> HIDE DEF e
<1>9. CASE e.fault = NoFault
  BY <1>1, <1>6, <1>8, <1>9 DEF NestCore, Finish, Continue
<1>10. CASE e.fault # NoFault
  BY <1>6, <1>8, <1>10 DEF NestCore, Finish
<1> QED
  BY <1>9, <1>10

LEMMA TakeInterruptNests ==
  ASSUME NestInv, outcome = "ok", NEW next, TakeInterrupt(next)
  PROVE  NestCore' /\ grant'.level > regs'.sr.mask
<1>1. regs.sr.mask \in 0 .. 7
  BY DEF NestInv, TypeOK, Registers, StatusRegister
<1>2. IC!Deliver(regs.sr.mask) /\ UNCHANGED <<regs, mem, frames>> /\ outcome' = outcome
  BY DEF TakeInterrupt, Continue
<1>3. grant'.level > regs.sr.mask
  BY <1>1, <1>2, DeliverGrants
<1> QED
  BY <1>2, <1>3 DEF NestInv, NestCore

LEMMA ResetFits == ASSUME StackIsWhole PROVE Fits(ResetRegisters, <<>>)
BY DEF ResetRegisters, Fits, Below, StackIsWhole

LEMMA NestInit == ASSUME StackIsWhole, Init PROVE NestInv
<1>1. TypeOK
  BY TypeInit
<1>2. regs = ResetRegisters /\ frames = <<>> /\ outcome = "ok" /\ phase = "idle"
  BY DEF Init
<1> QED
  BY <1>1, <1>2, ResetFits, NoFrames DEF NestInv, NestCore

LEMMA NestNext ==
  ASSUME StackIsWhole, OrderlySupervisor, NestInv, [Next]_vars
  PROVE  NestInv'
<1>0. TypeOK'
  BY TypeNext DEF NestInv
<1>1. CASE StepStopped
  <2>1. UNCHANGED <<regs, mem, frames>> /\ outcome = "ok" /\ outcome' = "ok" /\ phase' = "idle"
    BY <1>1 DEF StepStopped, Callable, Finish, OrderlySupervisor
  <2> QED
    BY <1>0, <2>1 DEF NestInv, NestCore
<1>2. CASE WakeUp
  <2>1. outcome = "ok" /\ TakeInterrupt("fetch")
    BY <1>2 DEF WakeUp, Callable, OrderlySupervisor
  <2> QED
    BY <1>0, <2>1, TakeInterruptNests DEF NestInv
<1>3. CASE Fetch
  BY <1>0, <1>3, FetchNests DEF NestInv
<1>4. CASE Execute
  BY <1>0, <1>4, ExecuteNests DEF NestInv
<1>5. CASE CheckNothing
  <2>1. UNCHANGED <<regs, mem, frames>> /\ phase = "check" /\ outcome' = "ok" /\ phase' = "idle"
    BY <1>5 DEF CheckNothing, Finish
  <2>2. outcome = "ok"
    BY <2>1 DEF NestInv, NestCore, TypeOK
  <2> QED
    BY <1>0, <2>1, <2>2 DEF NestInv, NestCore
<1>6. CASE CheckTakes
  <2>1. phase = "check" /\ TakeInterrupt("idle")
    BY <1>6 DEF CheckTakes
  <2>2. outcome = "ok"
    BY <2>1 DEF NestInv, NestCore, TypeOK
  <2> QED
    BY <1>0, <2>1, <2>2, TakeInterruptNests DEF NestInv
<1>7. CASE Accept
  BY <1>0, <1>7, AcceptNests DEF NestInv
<1>8. ASSUME NEW level \in RequestLevels, NEW vector \in Vectors \cup {NoVector},
             RequestInterrupt(level, vector)
      PROVE  NestInv'
  <2>1. UNCHANGED <<regs, mem, frames, phase, outcome>> /\ grant' = grant
    BY <1>8 DEF RequestInterrupt, IC!Accept
  <2> QED
    BY <1>0, <2>1 DEF NestInv, NestCore
<1>9. CASE HostReset
  <2>1. regs' = ResetRegisters /\ frames' = <<>> /\ outcome' = "ok" /\ phase' = "idle"
    BY <1>9 DEF HostReset
  <2> QED
    BY <1>0, <2>1, ResetFits, NoFrames DEF NestInv, NestCore
<1>10. CASE UNCHANGED vars
  BY <1>0, <1>10 DEF vars, interrupts, NestInv, NestCore
<1> QED
  BY <1>1, <1>2, <1>3, <1>4, <1>5, <1>6, <1>7, <1>8, <1>9, <1>10 DEF Next, StepMoves

LEMMA NestCorrect ==
  ASSUME StackIsWhole, OrderlySupervisor
  PROVE  Spec => []NestInv
<1>1. Init => NestInv
  BY NestInit
<1>2. NestInv /\ [Next]_vars => NestInv'
  BY NestNext
<1> QED
  BY <1>1, <1>2, PTL DEF Spec

(* However interrupts, traps and faults nest, the frames of all exceptions *)
(* not yet returned from stay in memory as they were stacked, one below    *)
(* the other, although handlers push and user code writes anywhere.        *)
THEOREM FramesCorrect ==
  ASSUME StackIsWhole, OrderlySupervisor
  PROVE  Spec => []FramesIntact
<1>1. NestInv => FramesIntact
  <2> SUFFICES ASSUME NestInv PROVE FramesIntact
    OBVIOUS
  <2>1. Chain(mem, frames) /\ frames \in Seq(Frame)
    BY DEF NestInv, NestCore, TypeOK
  <2>2. \A i \in DOMAIN frames : Stacked(mem, frames[i])
    BY <2>1 DEF Chain
  <2>3. ASSUME NEW i \in 1 .. (Len(frames) - 1) PROVE frames[i + 1].sp + 6 <= frames[i].sp
    <3>1. i \in 1 .. Len(frames) /\ i + 1 \in 1 .. Len(frames) /\ i < i + 1
      BY <2>1
    <3> QED
      BY <2>1, <3>1 DEF Chain
  <2> QED
    BY <2>2, <2>3 DEF FramesIntact
<1> QED
  BY <1>1, NestCorrect, PTL

(* Interrupt handlers nest by urgency, for any number of requests at any   *)
(* levels and any depth: a handler is interrupted only by a higher level   *)
(* and runs with its own level masked.                                     *)
THEOREM LevelsCorrect ==
  ASSUME StackIsWhole, OrderlySupervisor
  PROVE  Spec => []LevelsNest
<1>1. NestInv => LevelsNest
  <2> SUFFICES ASSUME NestInv PROVE LevelsNest
    OBVIOUS
  <2>1. Chain(mem, frames) /\ Masked(regs, frames) /\ frames \in Seq(Frame)
    BY DEF NestInv, NestCore, TypeOK
  <2>2. DOMAIN frames = 1 .. Len(frames)
    BY <2>1
  <2> QED
    BY <2>1, <2>2 DEF Chain, Masked, LevelsNest
<1> QED
  BY <1>1, NestCorrect, PTL

(* When user code runs, no exception is outstanding and the supervisor     *)
(* stack is back where it began, whatever happened in between.             *)
THEOREM BalancedCorrect ==
  ASSUME StackIsWhole, OrderlySupervisor
  PROVE  Spec => []SupervisorStackBalanced
<1>1. NestInv => SupervisorStackBalanced
  BY DEF NestInv, NestCore, TypeOK, Fits, SupervisorStackBalanced
<1> QED
  BY <1>1, NestCorrect, PTL

(* RTE gives the interrupted code its PC, SR and stack pointer back, at    *)
(* any depth of nesting and from either kind of frame.                     *)
THEOREM ReturnsCorrect ==
  ASSUME StackIsWhole, OrderlySupervisor
  PROVE  Spec => ReturnsExactly
<1>1. NestInv /\ [Next]_vars =>
        [phase = "execute" /\ Len(frames') < Len(frames) =>
           /\ frames' = SubSeq(frames, 1, Len(frames) - 1)
           /\ regs'.pc = TopFrame.pc
           /\ regs'.sr = TopFrame.sr
           /\ regs'.a7 = TopFrame.a7]_vars
  <2> SUFFICES ASSUME NestInv, [Next]_vars, phase = "execute", Len(frames') < Len(frames)
               PROVE  Resumes(TopFrame)
    BY DEF Resumes
  <2>1. CASE Execute
    BY <2>1, ExecuteNests
  <2>2. CASE frames' = frames
    <3>1. Len(frames) \in Nat
      BY DEF NestInv, TypeOK
    <3> QED
      BY <2>2, <3>1
  <2>3. Execute \/ frames' = frames
    BY DEF Next, StepMoves, StepStopped, WakeUp, Fetch, CheckNothing, CheckTakes, Accept,
       RequestInterrupt, HostReset, Callable, vars
  <2> QED
    BY <2>1, <2>2, <2>3
<1> QED
  BY <1>1, NestCorrect, PTL DEF Spec, ReturnsExactly
=============================================================================
