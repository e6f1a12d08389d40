------------------------------ MODULE AddressMap ------------------------------
(***************************************************************************)
(* What the bus promises, without its tables, caches and short cuts: every *)
(* bus cycle goes to one device, found by asking the devices one after the *)
(* other; a long is two cycles of a word; an access stops at the first     *)
(* cycle that fails, and what was done before stays done.                  *)
(***************************************************************************)
EXTENDS Devices, Sequences, FiniteSetsExt

CONSTANTS
  Available,     \* the devices the host may attach
  WaitSettings,  \* the wait states the host may set for every cycle
  Tags,          \* tell the values written apart
  MaxDevices     \* bound: devices attached

VARIABLES
  devices,     \* the attached devices, in the order they were attached
  waitStates,  \* the wait states of every cycle
  waitHook,    \* somebody listens to wait states
  store,       \* store[i][a] is the byte device i holds at address a
  last         \* the outcome of the last access

vars == <<devices, waitStates, waitHook, store, last>>

Operations == {"read", "write", "peek"}

(* The k-th byte, counted from the high order, of the value with a tag.    *)
Lane(tag, k) == <<tag, k>>
(* What device i held at address a in the beginning.                       *)
Original(i, a) == <<0, i * Space + a>>

(* A bus of one device asks it.  On a bus of several the devices that      *)
(* advertise a range are asked for it first.                               *)
Owner(a) ==
  LET advertising == {i \in DOMAIN devices : Len(devices) > 1 /\ Advertises(devices[i], a)}
      containing == {i \in DOMAIN devices : Covers(devices[i], a)}
  IN  IF advertising # {} THEN Min(advertising)
      ELSE IF containing # {} THEN Min(containing) ELSE 0

Cycles(size, a) == IF size = Long THEN <<a, Wrap(a + Word)>> ELSE <<a>>
Width(size) == IF size = Byte THEN Byte ELSE Word

(* How one cycle ends.                                                     *)
CycleFault(op, size, c) ==
  CASE Owner(c) = 0 -> "bus"
    [] Owner(c) # 0 /\ op = "peek" /\ devices[Owner(c)].kind = "plain" -> "unsupported"
    [] OTHER -> IF Accepts(devices[Owner(c)], Width(size), c) THEN "none" ELSE "bus"

(* How many cycles are served before one fails.                            *)
Completed(op, size, a) ==
  LET cycles == Cycles(size, a)
  IN  Max({n \in 0 .. Len(cycles) : \A k \in 1 .. n : CycleFault(op, size, cycles[k]) = "none"})

(* The bytes moved, high order first, each with the device that has it.    *)
Moved(op, size, a) ==
  LET width == Width(size)
      cycle(k) == Cycles(size, a)[(k - 1) \div width + 1]
  IN  [k \in 1 .. width * Completed(op, size, a) |->
         [device |-> Owner(cycle(k)), address |-> cycle(k) + ((k - 1) % width)]]

(* Every cycle that reaches a device is charged, the failing one as well.  *)
Charge(c) == IF Owner(c) = 0 THEN 0 ELSE waitStates + devices[Owner(c)].waits
Charged(op, size, a) ==
  IF ~waitHook \/ op = "peek" THEN 0
  ELSE Charge(a) + IF size = Long /\ Completed(op, size, a) > 0
                   THEN Charge(Wrap(a + Word)) ELSE 0

Outcome(op, size, a, fault, at, waits, value) ==
  [op |-> op, size |-> size, address |-> a,
   fault |-> fault, at |-> at, waits |-> waits, value |-> value]

NoAccess == Outcome("read", Byte, 0, "none", 0, 0, <<>>)

(* last tells of this access.                                              *)
Answers(op, size, a) == last'.op = op /\ last'.size = size /\ last'.address = a

Misaligned(size, a) == size # Byte /\ a % 2 = 1

Init ==
  /\ devices = <<>>
  /\ waitStates = 0
  /\ waitHook = FALSE
  /\ store = [i \in 1 .. MaxDevices |-> [a \in Address |-> Original(i, a)]]
  /\ last = NoAccess

Attach(d) ==
  /\ devices' = Append(devices, d)
  /\ UNCHANGED <<waitStates, waitHook, store, last>>

Configure ==
  /\ waitStates' \in WaitSettings
  /\ waitHook' \in BOOLEAN
  /\ UNCHANGED <<devices, store, last>>

(* An odd address of a word or long is an address error; where there is no *)
(* memory it may be reported as a bus error.                               *)
Misalign(op, size, a) ==
  /\ Misaligned(size, a) /\ Answers(op, size, a)
  /\ \/ last' = Outcome(op, size, a, "address", a, 0, <<>>)
     \/ Owner(a) = 0 /\ last' = Outcome(op, size, a, "bus", a, 0, <<>>)
  /\ UNCHANGED <<devices, waitStates, waitHook, store>>

(* Bytes come from, or go to, the devices that answer.                     *)
Transfer(op, size, a, tag) ==
  LET moved == Moved(op, size, a)
      served == Completed(op, size, a)
      done == served = Len(Cycles(size, a))
      failing == Cycles(size, a)[served + 1]
      holds(i, b) == {k \in DOMAIN moved : moved[k] = [device |-> i, address |-> b]}
  IN  /\ ~Misaligned(size, a) /\ Answers(op, size, a)
      /\ last' = Outcome(op, size, a,
                         IF done THEN "none" ELSE CycleFault(op, size, failing),
                         IF done THEN a ELSE failing,
                         Charged(op, size, a),
                         IF op = "write" \/ ~done THEN <<>>
                         ELSE [k \in DOMAIN moved |-> store[moved[k].device][moved[k].address]])
      /\ store' = IF op # "write" THEN store
                  ELSE [i \in 1 .. MaxDevices |-> [b \in Address |->
                          IF holds(i, b) = {} THEN store[i][b] ELSE Lane(tag, Max(holds(i, b)))]]
      /\ UNCHANGED <<devices, waitStates, waitHook>>

Next ==
  \/ \E d \in Available : Attach(d)
  \/ Configure
  \/ \E op \in Operations, size \in Sizes, a \in Address :
       Misalign(op, size, a) \/ \E tag \in Tags : Transfer(op, size, a, tag)

Spec == Init /\ [][Next]_vars
=============================================================================
