------------------------------ MODULE Bus_proofs ------------------------------
(***************************************************************************)
(* Proofs about the bus, for every address space, every set of devices and *)
(* every setting of the wait states: the caches and the direct path, the   *)
(* page table and its search, lookups, types, and the refinement of the    *)
(* address map.  What a loop computes is proved by induction on its rounds,*)
(* as the least number outside a set (UpTo), after the rounds are shown to *)
(* exist (RoundsExist).                                                    *)
(***************************************************************************)
EXTENDS Bus, SequenceTheorems, FiniteSetTheorems, NaturalsInduction,
        WellFoundedInduction, TLAPS

-----------------------------------------------------------------------------
\* The cached devices.

(* The inductive invariant behind the short cut: the cached RAM is the     *)
(* only device, and it is used directly only while nothing charges waits.  *)
CachesExact ==
  /\ devices \in Seq(Available)
  /\ singleRAM \in {0, 1}
  /\ singleRAM # 0 => Len(devices) = 1 /\ devices[1].kind = "ram"
  /\ waitStates \in WaitSettings
  /\ hasWaitStateDevices \in BOOLEAN
  /\ fastRAM = FastRAM(singleRAM, waitStates, hasWaitStateDevices)

LEMMA InitCaches == Init => CachesExact
<1> SUFFICES ASSUME Init PROVE CachesExact
  OBVIOUS
<1>1. devices = <<>> /\ waitStates = 0
  BY DEF Init, Map!Init
<1>2. singleRAM = 0 /\ fastRAM = 0 /\ hasWaitStateDevices = FALSE
  BY DEF Init
<1>3. devices \in Seq(Available)
  BY <1>1
<1>4. fastRAM = FastRAM(singleRAM, waitStates, hasWaitStateDevices)
  BY <1>1, <1>2 DEF FastRAM
<1> QED
  BY <1>1, <1>2, <1>3, <1>4, WaitAssumption DEF CachesExact

LEMMA AddDeviceCaches ==
  ASSUME CachesExact, NEW d \in Available, AddDevice(d)
  PROVE  CachesExact'
<1>1. devices' = Append(devices, d) /\ UNCHANGED waitStates
  BY DEF AddDevice, RefreshTopology
<1>2. devices' \in Seq(Available)
  BY <1>1 DEF CachesExact
<1>3. /\ singleRAM' = IF Len(devices') = 1 /\ devices'[1].kind = "ram" THEN 1 ELSE 0
      /\ hasWaitStateDevices' \in BOOLEAN
      /\ fastRAM' = FastRAM(singleRAM', waitStates, hasWaitStateDevices')
  BY DEF AddDevice, RefreshTopology
<1> QED
  BY <1>1, <1>2, <1>3 DEF CachesExact, FastRAM

LEMMA NextCaches == CachesExact /\ [Next]_vars => CachesExact'
<1> SUFFICES ASSUME CachesExact, [Next]_vars PROVE CachesExact'
  OBVIOUS
<1>1. ASSUME NEW d \in Available, AddDevice(d) PROVE CachesExact'
  BY <1>1, AddDeviceCaches
<1>2. ASSUME NEW states \in WaitSettings, SetWaitStates(states) PROVE CachesExact'
  BY <1>2 DEF SetWaitStates, topology, CachesExact
<1>3. ASSUME NEW hook \in BOOLEAN, SetWaitHook(hook) PROVE CachesExact'
  BY <1>3 DEF SetWaitHook, topology, CachesExact
<1>4. ASSUME NEW op, NEW size, NEW a, NEW tag, NEW result, Finish(op, size, a, tag, result)
      PROVE  CachesExact'
  BY <1>4 DEF Finish, topology, CachesExact
<1>5. ASSUME NEW op, NEW size, NEW a, NEW tag, 
             BusAccess(op, size, a, tag) \/ CPUAccess(op, size, a, tag)
      PROVE  CachesExact'
  BY <1>4, <1>5 DEF BusAccess, CPUAccess
<1>6. ASSUME NEW size, NEW a, Fetch(size, a) PROVE CachesExact'
  BY <1>4, <1>6 DEF Fetch
<1>7. CASE UNCHANGED vars
  BY <1>7 DEF vars, topology, CachesExact
<1> QED
  BY <1>1, <1>2, <1>3, <1>5, <1>6, <1>7 DEF Next

(* The cached RAM, the flags and the RAM the CPU uses directly (the fields *)
(* refreshTopology and refreshFastRAM maintain) are those of the devices   *)
(* attached, whatever the host did and in whatever order.                  *)
THEOREM CachesCorrect == Spec => []CachesExact
<1> QED
  BY InitCaches, NextCaches, PTL DEF Spec

-----------------------------------------------------------------------------
\* The direct path against the bus.

LEMMA WrapInside == ASSUME NEW a \in Address PROVE Wrap(a) = a
<1>1. ASSUME NEW n \in Nat \ {0}, NEW k \in 0 .. n - 1 PROVE k % n = k
  OBVIOUS
<1> QED
  BY <1>1, SpaceAssumption DEF Wrap, Address

(* What the bus does while there is a RAM to be used directly: it finds    *)
(* that RAM for its own addresses, nothing for others, and charges nothing.*)
LEMMA CycleOnRAM ==
  ASSUME CachesExact, fastRAM # 0,
         NEW op \in {"read", "write"}, NEW width \in {Byte, Word}, NEW a \in Address
  PROVE  /\ fastRAM = 1 /\ devices[1] \in Device
         /\ Cycle(op, width, a) =
              IF Covers(devices[1], a) /\ a + width <= End(devices[1])
              THEN Result("none", a, 0, Bytes(1, a, width)) ELSE Result("bus", a, 0, <<>>)
<1>1. /\ fastRAM = 1 /\ singleRAM = 1 /\ waitStates = 0 /\ ~hasWaitStateDevices
      /\ devices \in Seq(Available) /\ Len(devices) = 1
  BY DEF CachesExact, FastRAM
<1>2. devices[1] \in Available
  BY <1>1
<1>3. devices[1] \in Device
  BY <1>2, DevicesAssumption DEF WellFormed
<1>4. DeviceForAddress(a) = IF Covers(devices[1], a) THEN 1 ELSE 0
  BY <1>1 DEF DeviceForAddress
<1>5. WaitFor(1) = 0
  BY <1>1 DEF WaitFor
<1> QED
  BY <1>1, <1>3, <1>4, <1>5 DEF Cycle, Accepts

Moves(dev) == [device : {dev}, address : Int]

LEMMA BytesAre ==
  ASSUME NEW dev, NEW a \in Nat, NEW n \in Nat
  PROVE  /\ Bytes(dev, a, n) \in Seq(Moves(dev))
         /\ Len(Bytes(dev, a, n)) = n
         /\ \A k \in 1 .. n : Bytes(dev, a, n)[k] = [device |-> dev, address |-> a + k - 1]
<1>1. \A k \in 1 .. n : [device |-> dev, address |-> a + k - 1] \in Moves(dev)
  BY DEF Moves
<1>2. Bytes(dev, a, n) \in [1 .. n -> Moves(dev)]
  BY <1>1 DEF Bytes
<1>3. Bytes(dev, a, n) \in Seq(Moves(dev))
  BY <1>2, SeqDef
<1>4. Len(Bytes(dev, a, n)) = n
  BY <1>2, <1>3
<1> QED
  BY <1>3, <1>4 DEF Bytes

(* A long is its two words, one after the other.                           *)
LEMMA JoinWords ==
  ASSUME NEW dev, NEW a \in Nat
  PROVE  Bytes(dev, a, Word) \o Bytes(dev, a + Word, Word) = Bytes(dev, a, Long)
<1> DEFINE first == Bytes(dev, a, Word)
           second == Bytes(dev, a + Word, Word)
           long == Bytes(dev, a, Long)
<1>w. Word = 2 /\ Long = 4 /\ Word \in Nat /\ Long \in Nat /\ a + Word \in Nat
  BY DEF Word, Long
<1>b. \A b \in Nat, n \in Nat :
        /\ Bytes(dev, b, n) \in Seq(Moves(dev))
        /\ Len(Bytes(dev, b, n)) = n
        /\ \A k \in 1 .. n : Bytes(dev, b, n)[k] = [device |-> dev, address |-> b + k - 1]
  BY BytesAre
<1>1. /\ first \in Seq(Moves(dev)) /\ Len(first) = 2
      /\ \A k \in 1 .. 2 : first[k] = [device |-> dev, address |-> a + k - 1]
  BY <1>w, <1>b
<1>2. /\ second \in Seq(Moves(dev)) /\ Len(second) = 2
      /\ \A k \in 1 .. 2 : second[k] = [device |-> dev, address |-> a + 2 + k - 1]
  BY <1>w, <1>b
<1>3. /\ long \in Seq(Moves(dev)) /\ Len(long) = 4
      /\ \A k \in 1 .. 4 : long[k] = [device |-> dev, address |-> a + k - 1]
  BY <1>w, <1>b
<1> HIDE DEF first, second, long
<1>4. /\ first \o second \in Seq(Moves(dev)) /\ Len(first \o second) = 4
      /\ \A k \in 1 .. 4 : (first \o second)[k] = IF k <= 2 THEN first[k] ELSE second[k - 2]
  <2>1. 2 + 2 = 4
    OBVIOUS
  <2>2. /\ first \o second \in Seq(Moves(dev))
        /\ Len(first \o second) = Len(first) + Len(second)
        /\ \A k \in 1 .. Len(first) + Len(second) :
             (first \o second)[k] = IF k <= Len(first) THEN first[k] ELSE second[k - Len(first)]
    BY <1>1, <1>2, ConcatProperties
  <2> QED
    BY <1>1, <1>2, <2>1, <2>2
<1>5. \A k \in 1 .. 2 : (first \o second)[k] = long[k]
  BY <1>1, <1>3, <1>4
<1>6. ASSUME NEW k \in 3 .. 4 PROVE (first \o second)[k] = long[k]
  <2>1. k - 2 \in 1 .. 2 /\ a + 2 + (k - 2) - 1 = a + k - 1 /\ k \in 1 .. 4 /\ ~(k <= 2)
    OBVIOUS
  <2>2. (first \o second)[k] = second[k - 2]
    BY <1>4, <2>1
  <2>3. second[k - 2] = [device |-> dev, address |-> a + 2 + (k - 2) - 1]
    BY <1>2, <2>1
  <2> QED
    BY <2>1, <2>2, <2>3, <1>3
<1>7. ASSUME NEW k \in 1 .. 4 PROVE (first \o second)[k] = long[k]
  <2>1. k \in 1 .. 2 \/ k \in 3 .. 4
    OBVIOUS
  <2> QED
    BY <2>1, <1>5, <1>6, Zenon
<1>8. first \o second = long
  <2>1. Len(first \o second) = Len(long)
    BY <1>3, <1>4
  <2>2. \A k \in 1 .. Len(first \o second) : (first \o second)[k] = long[k]
    BY <1>4, <1>7
  <2>3. first \o second \in Seq(Moves(dev)) /\ long \in Seq(Moves(dev))
    BY <1>3, <1>4
  <2>4. \A s, t \in Seq(Moves(dev)) :
          Len(s) = Len(t) /\ (\A k \in 1 .. Len(s) : s[k] = t[k]) => s = t
    BY SeqEqual
  <2> QED
    BY <2>1, <2>2, <2>3, <2>4, Zenon
<1> QED
  BY <1>8 DEF first, second, long

(* The direct path beyond the range and alignment checks.                  *)
LEMMA RAMAgrees ==
  ASSUME CachesExact, fastRAM # 0, NEW op \in {"read", "write"},
         NEW size \in Sizes, NEW a \in Address, a + size <= Space,
         ValidAlignment(size, a), devices[1].first <= a
  PROVE  FromRAM(size, a) = ThroughBus(op, size, a)
<1> DEFINE ram == devices[1]
<1>w. Byte = 1 /\ Word = 2 /\ Long = 4 /\ Byte \in Nat /\ Word \in Nat
  BY DEF Byte, Word, Long
<1>1. fastRAM = 1 /\ ram \in Device
  BY CycleOnRAM, Word \in {Byte, Word}
<1>2. ram.first \in Int /\ ram.size \in Nat /\ a \in Nat /\ Space \in Nat
  BY <1>1, SpaceAssumption DEF Device, Address
<1>a. ram.first <= a
  OBVIOUS
<1> HIDE DEF ram
<1>3. \A width \in {Byte, Word}, b \in Address :
        Cycle(op, width, b) =
          IF Covers(ram, b) /\ b + width <= End(ram)
          THEN Result("none", b, 0, Bytes(1, b, width)) ELSE Result("bus", b, 0, <<>>)
  BY CycleOnRAM DEF ram
<1>4. ASSUME NEW b \in Nat, ram.first <= b
      PROVE  /\ Covers(ram, b) /\ b + Word <= End(ram) <=> ~(b - ram.first + 1 >= ram.size)
             /\ Covers(ram, b) /\ b + Byte <= End(ram) <=> ~(b - ram.first + 0 >= ram.size)
  BY <1>w, <1>2, <1>4 DEF Covers, End
<1>5. CASE size = Byte
  <2>1. ThroughBus(op, size, a) = Cycle(op, Byte, a)
    BY <1>w, <1>5 DEF ThroughBus, ValidAlignment
  <2>2. FromRAM(size, a) = IF a - ram.first + 0 >= ram.size THEN Result("bus", a, 0, <<>>)
                           ELSE Result("none", a, 0, Bytes(1, a, Byte))
    BY <1>w, <1>1, <1>5 DEF FromRAM, ram
  <2> QED
    BY <1>2, <1>a, <1>3, <1>4, <2>1, <2>2
<1>6. CASE size = Word
  <2>1. ThroughBus(op, size, a) = Cycle(op, Word, a)
    BY <1>w, <1>6 DEF ThroughBus
  <2>2. FromRAM(size, a) = IF a - ram.first + 1 >= ram.size THEN Result("bus", a, 0, <<>>)
                           ELSE Result("none", a, 0, Bytes(1, a, Word))
    BY <1>w, <1>1, <1>6 DEF FromRAM, ram
  <2> QED
    BY <1>2, <1>a, <1>3, <1>4, <2>1, <2>2
<1>7. CASE size = Long
  <2> DEFINE low == a + Word
  <2>1. ThroughBus(op, size, a) = LongCycles(op, a)
    BY <1>w, <1>7 DEF ThroughBus
  <2>2. low \in Address /\ low \in Nat /\ Wrap(low) = low /\ ram.first <= low
    <3>1. low \in Address /\ low \in Nat /\ ram.first <= low
      BY <1>w, <1>2, <1>a, <1>7 DEF Address
    <3> QED
      BY <3>1, WrapInside
  <2>3. FromRAM(size, a) =
          IF a - ram.first + 1 >= ram.size THEN Result("bus", a, 0, <<>>)
          ELSE IF a - ram.first + 3 >= ram.size THEN Result("bus", low, 0, Bytes(1, a, Word))
          ELSE Result("none", a, 0, Bytes(1, a, Long))
    BY <1>w, <1>1, <1>7, <2>2 DEF FromRAM, ram
  <2>4. Cycle(op, Word, a) = IF a - ram.first + 1 >= ram.size THEN Result("bus", a, 0, <<>>)
                             ELSE Result("none", a, 0, Bytes(1, a, Word))
    BY <1>2, <1>a, <1>3, <1>4
  <2>5. Cycle(op, Word, low) = IF a - ram.first + 3 >= ram.size THEN Result("bus", low, 0, <<>>)
                               ELSE Result("none", low, 0, Bytes(1, low, Word))
    <3>1. low - ram.first + 1 = a - ram.first + 3
      BY <1>w, <1>2
    <3> QED
      BY <1>3, <1>4, <2>2, <3>1
  <2> HIDE DEF low
  <2>6. LongCycles(op, a) =
          IF a - ram.first + 1 >= ram.size THEN Result("bus", a, 0, <<>>)
          ELSE IF a - ram.first + 3 >= ram.size THEN Result("bus", low, 0, Bytes(1, a, Word) \o <<>>)
          ELSE Result("none", a, 0, Bytes(1, a, Word) \o Bytes(1, low, Word))
    <3>1. \A fault, at, waits, moved :
            /\ Result(fault, at, waits, moved).fault = fault
            /\ Result(fault, at, waits, moved).at = at
            /\ Result(fault, at, waits, moved).waits = waits
            /\ Result(fault, at, waits, moved).moved = moved
      BY DEF Result
    <3>2. Wrap(a + Word) = low
      BY <2>2 DEF low
    <3>3. CASE a - ram.first + 1 >= ram.size
      BY <2>4, <3>1, <3>3 DEF LongCycles
    <3>4. CASE ~(a - ram.first + 1 >= ram.size) /\ a - ram.first + 3 >= ram.size
      <4>1. Cycle(op, Word, a) = Result("none", a, 0, Bytes(1, a, Word))
        BY <2>4, <3>4
      <4>2. Cycle(op, Word, low) = Result("bus", low, 0, <<>>)
        BY <2>5, <3>4
      <4> DEFINE h == Cycle(op, Word, a)
                 l == Cycle(op, Word, low)
      <4>3. LongCycles(op, a) =
              IF h.fault # "none" THEN h
              ELSE Result(l.fault, IF l.fault = "none" THEN a ELSE l.at,
                          h.waits + l.waits, h.moved \o l.moved)
        BY <3>2 DEF LongCycles
      <4>4. /\ h.fault = "none" /\ h.waits = 0 /\ h.moved = Bytes(1, a, Word)
            /\ l.fault = "bus" /\ l.at = low /\ l.waits = 0 /\ l.moved = <<>>
        <5>1. h.fault = "none" /\ h.waits = 0 /\ h.moved = Bytes(1, a, Word)
          BY <4>1 DEF Result
        <5>2. l.fault = "bus" /\ l.at = low /\ l.waits = 0 /\ l.moved = <<>>
          BY <4>2 DEF Result
        <5> QED
          BY <5>1, <5>2
      <4>5. h.waits + l.waits = 0
        BY <4>4
      <4> HIDE DEF h, l
      <4>6. LongCycles(op, a) = Result("bus", low, 0, Bytes(1, a, Word) \o <<>>)
        BY <4>3, <4>4, <4>5, Zenon
      <4> QED
        BY <3>4, <4>6
    <3>5. CASE ~(a - ram.first + 1 >= ram.size) /\ ~(a - ram.first + 3 >= ram.size)
      BY <2>4, <2>5, <3>1, <3>2, <3>5 DEF LongCycles
    <3> QED
      BY <3>3, <3>4, <3>5
  <2>7. Bytes(1, a, Word) \o <<>> = Bytes(1, a, Word)
    BY <1>w, <1>2, BytesAre, ConcatEmptySeq
  <2>8. Bytes(1, a, Word) \o Bytes(1, low, Word) = Bytes(1, a, Long)
    BY <1>2, JoinWords DEF low
  <2>9. LongCycles(op, a) = FromRAM(size, a)
    <3>1. CASE a - ram.first + 1 >= ram.size
      BY <3>1, <2>3, <2>6, Zenon
    <3>2. CASE ~(a - ram.first + 1 >= ram.size) /\ a - ram.first + 3 >= ram.size
      BY <3>2, <2>3, <2>6, <2>7, Zenon
    <3>3. CASE ~(a - ram.first + 1 >= ram.size) /\ ~(a - ram.first + 3 >= ram.size)
      BY <3>3, <2>3, <2>6, <2>8, Zenon
    <3> QED
      BY <3>1, <3>2, <3>3, Zenon
  <2> QED
    BY <2>1, <2>9
<1> QED
  BY <1>5, <1>6, <1>7 DEF Sizes

(* Where the checks before it disagree.                                    *)
LEMMA ChecksAgree ==
  ASSUME CachesExact, fastRAM # 0, NEW op \in {"read", "write"},
         NEW size \in Sizes, NEW a \in Address, a + size <= Space,
         ~(ValidAlignment(size, a) /\ devices[1].first <= a)
  PROVE  ThroughBus(op, size, a) =
           IF ValidAlignment(size, a) THEN Result("bus", a, 0, <<>>) ELSE Result("address", a, 0, <<>>)
<1> DEFINE ram == devices[1]
<1>1. ASSUME NEW width \in {Byte, Word}
      PROVE  /\ ram \in Device
             /\ Cycle(op, width, a) =
                  IF Covers(ram, a) /\ a + width <= End(ram)
                  THEN Result("none", a, 0, Bytes(1, a, width)) ELSE Result("bus", a, 0, <<>>)
  BY CycleOnRAM
<1>2. CASE ~ValidAlignment(size, a)
  BY <1>2 DEF ThroughBus
<1>3. CASE ValidAlignment(size, a)
  <2>1. ~(ram.first <= a)
    BY <1>3
  <2>2. ~Covers(ram, a)
    BY <2>1 DEF Covers
  <2>3. \A width \in {Byte, Word} : Cycle(op, width, a) = Result("bus", a, 0, <<>>)
    BY <1>1, <2>2
  <2>4. CASE size = Long
    <3>1. ThroughBus(op, size, a) = LongCycles(op, a)
      BY <1>3, <2>4 DEF ThroughBus
    <3>2. Cycle(op, Word, a).fault = "bus"
      BY <2>3 DEF Result
    <3> QED
      BY <1>3, <2>3, <3>1, <3>2 DEF LongCycles
  <2>5. CASE size \in {Byte, Word}
    <3>1. ThroughBus(op, size, a) = Cycle(op, size, a)
      BY <1>3, <2>5 DEF ThroughBus, Byte, Word, Long
    <3> QED
      BY <1>3, <2>3, <2>5, <3>1
  <2> QED
    BY <2>4, <2>5 DEF Sizes
<1> QED
  BY <1>2, <1>3

LEMMA CachesGiveAgreement == CachesExact => DirectPathAgrees
<1> SUFFICES ASSUME CachesExact, fastRAM # 0,
                    NEW size \in Sizes, NEW a \in Address, a + size <= Space
             PROVE  /\ ReadProgramFast(size, a) = ThroughBus("read", size, a)
                    /\ \A op \in {"read", "write"} :
                         \/ FastRAMAccess(size, a) = ThroughBus(op, size, a)
                         \/ /\ ~ValidAlignment(size, a) /\ a < devices[fastRAM].first
                            /\ FastRAMAccess(size, a) = Result("bus", a, 0, <<>>)
  BY DEF DirectPathAgrees
<1>1. fastRAM = 1 /\ devices[1] \in Device
  BY CycleOnRAM, "read" \in {"read", "write"}, Word \in {Byte, Word}
<1>2. a < devices[1].first <=> ~(devices[1].first <= a)
  BY <1>1 DEF Device, Address
<1>3. CASE ValidAlignment(size, a) /\ devices[1].first <= a
  <2>1. \A op \in {"read", "write"} : FromRAM(size, a) = ThroughBus(op, size, a)
    BY <1>3, RAMAgrees
  <2> QED
    BY <1>1, <1>2, <1>3, <2>1 DEF FastRAMAccess, ReadProgramFast
<1>4. CASE ~(ValidAlignment(size, a) /\ devices[1].first <= a)
  <2>1. \A op \in {"read", "write"} : ThroughBus(op, size, a) =
          IF ValidAlignment(size, a) THEN Result("bus", a, 0, <<>>) ELSE Result("address", a, 0, <<>>)
    BY <1>4, ChecksAgree
  <2> QED
    BY <1>1, <1>2, <1>4, <2>1 DEF FastRAMAccess, ReadProgramFast
<1> QED
  BY <1>3, <1>4

(* The CPU's short cut to the bytes of a RAM is the bus in every state, at *)
(* every address and for every size of RAM: same bytes, same faults at the *)
(* same addresses, same wait states; but for data at an odd address below  *)
(* the RAM.                                                                *)
THEOREM DirectPathCorrect == Spec => []DirectPathAgrees
<1> QED
  BY CachesCorrect, CachesGiveAgreement, PTL
-----------------------------------------------------------------------------
\* Numbers and loops.

(* A set of numbers that is not empty has a least element.                 *)
LEMMA LeastElement ==
  ASSUME NEW S \in SUBSET Nat, S # {}
  PROVE  Min(S) \in S /\ \A y \in S : Min(S) <= y
<1> DEFINE Less == OpToRel(<, Nat)
<1>1. IsWellFoundedOn(Less, Nat)
  BY NatLessThanWellFounded
<1>2. PICK x \in S : \A y \in S : ~(<<y, x>> \in Less)
  <2> HIDE DEF Less
  <2> QED
    BY <1>1, WFMin
<1>3. \A y \in S : x <= y
  <2> SUFFICES ASSUME NEW y \in S PROVE x <= y
    OBVIOUS
  <2>1. ~(<<y, x>> \in Less)
    BY <1>2
  <2>2. x \in Nat /\ y \in Nat
    OBVIOUS
  <2>3. ~(y < x)
    BY <2>1, <2>2 DEF OpToRel
  <2> HIDE DEF Less
  <2> QED
    BY <2>2, <2>3
<1> QED
  BY <1>3 DEF Min

(* Induction over a set of numbers up to a bound.                          *)
LEMMA UpTo ==
  ASSUME NEW N \in Nat, NEW P, 0 \in P, \A n \in 0 .. N - 1 : n \in P => n + 1 \in P
  PROVE  \A n \in 0 .. N : n \in P
<1> DEFINE failing == {n \in 0 .. N : n \notin P}
<1> SUFFICES ASSUME failing # {} PROVE FALSE
  OBVIOUS
<1>1. failing \in SUBSET Nat
  OBVIOUS
<1>2. Min(failing) \in failing /\ \A y \in failing : Min(failing) <= y
  <2> HIDE DEF failing
  <2> QED
    BY <1>1, LeastElement
<1> DEFINE m == Min(failing)
<1>3. m \in 0 .. N /\ m \notin P /\ \A y \in failing : m <= y
  BY <1>2
<1> HIDE DEF m
<1>4. m # 0
  BY <1>3
<1>5. m - 1 \in 0 .. N - 1 /\ m - 1 + 1 = m /\ m - 1 \in 0 .. N
  BY <1>3, <1>4
<1>6. m - 1 \notin P
  BY <1>3, <1>5
<1>7. m - 1 \in failing
  BY <1>5, <1>6
<1> QED
  BY <1>3, <1>5, <1>7

LEMMA LeastOfTwo ==
  ASSUME NEW a \in Int, NEW b \in Int
  PROVE  /\ Min({a, b}) = IF a <= b THEN a ELSE b
         /\ Max({a, b}) = IF a <= b THEN b ELSE a
  BY DEF Min, Max

(* A loop whose round is the function F: its rounds exist ...              *)
Rounds(f, F, first, N) ==
  f = [n \in 0 .. N |-> IF n = 0 THEN first ELSE F[n, f[n - 1]]]

LEMMA RoundsExist ==
  ASSUME NEW N \in Nat, NEW S, NEW first \in S, NEW F \in [(1 .. N) \X S -> S]
  PROVE  \E f \in [0 .. N -> S] : Rounds(f, F, first, N)
<1> DEFINE P == {n \in 0 .. N : \E f \in [0 .. n -> S] : Rounds(f, F, first, n)}
<1>1. 0 \in P
  <2> DEFINE f == [k \in 0 .. 0 |-> first]
  <2>1. f \in [0 .. 0 -> S] /\ Rounds(f, F, first, 0)
    BY DEF Rounds
  <2> HIDE DEF f
  <2> QED
    BY <2>1
<1>2. ASSUME NEW n \in 0 .. N - 1, n \in P PROVE n + 1 \in P
  <2>1. PICK f \in [0 .. n -> S] : Rounds(f, F, first, n)
    BY <1>2
  <2>2. n + 1 \in 1 .. N /\ n \in 0 .. n /\ n + 1 \in 0 .. N
    OBVIOUS
  <2>3. f[n] \in S /\ F[n + 1, f[n]] \in S
    BY <2>2
  <2> DEFINE g == [k \in 0 .. n + 1 |-> IF k = n + 1 THEN F[n + 1, f[n]] ELSE f[k]]
  <2>a. \A k : k \in 0 .. n + 1 <=> k \in 0 .. n \/ k = n + 1
    BY <2>2
  <2>b. n + 1 \notin 0 .. n
    BY <2>2
  <2>c. \A k \in 0 .. n + 1 : g[k] = IF k = n + 1 THEN F[n + 1, f[n]] ELSE f[k]
    OBVIOUS
  <2>4. g \in [0 .. n + 1 -> S]
    <3>1. \A k \in 0 .. n + 1 : (IF k = n + 1 THEN F[n + 1, f[n]] ELSE f[k]) \in S
      BY <2>a, <2>b, <2>3
    <3> QED
      BY <3>1
  <2>5. \A k \in 0 .. n : g[k] = f[k]
    BY <2>a, <2>b, <2>c
  <2>6. \A k \in 0 .. n : f[k] = IF k = 0 THEN first ELSE F[k, f[k - 1]]
    BY <2>1 DEF Rounds
  <2>7. ASSUME NEW k \in 0 .. n + 1
        PROVE  g[k] = IF k = 0 THEN first ELSE F[k, g[k - 1]]
    <3>1. CASE k = n + 1
      <4>1. k - 1 = n /\ k # 0
        BY <2>2, <3>1
      <4>2. g[k - 1] = f[n] /\ g[k] = F[n + 1, f[n]]
        BY <2>2, <2>5, <2>c, <3>1, <4>1
      <4> HIDE DEF g
      <4> QED
        BY <3>1, <4>1, <4>2
    <3>2. CASE k \in 0 .. n
      <4>1. k # 0 => k - 1 \in 0 .. n
        BY <3>2, <2>2
      <4>2. g[k] = f[k] /\ (k # 0 => g[k - 1] = f[k - 1])
        BY <3>2, <2>5, <4>1
      <4> HIDE DEF g
      <4> QED
        BY <3>2, <2>6, <4>2
    <3> QED
      BY <2>a, <3>1, <3>2
  <2>8. Rounds(g, F, first, n + 1)
    <3> DEFINE h == [k \in 0 .. n + 1 |-> IF k = 0 THEN first ELSE F[k, g[k - 1]]]
    <3>1. DOMAIN g = 0 .. n + 1 /\ g = [k \in 0 .. n + 1 |-> g[k]]
      BY <2>4
    <3> HIDE DEF g
    <3>2. g = h
      BY <2>7, <3>1
    <3> QED
      BY <3>2 DEF Rounds
  <2> HIDE DEF g
  <2> QED
    BY <2>2, <2>4, <2>8
<1>3. \A n \in 0 .. N : n \in P
  <2> HIDE DEF P
  <2> QED
    BY <1>1, <1>2, UpTo
<1> QED
  BY <1>3

-----------------------------------------------------------------------------
\* Ranges.

Ranges == [start : Int, end : Int, device : Int]

In(range, a) == range.start <= a /\ a <= range.end

(* The ranges of a page are not empty, and each lies behind the one before.*)
Ordered(ranges) ==
  /\ ranges \in Seq(Ranges)
  /\ \A i \in 1 .. Len(ranges) : ranges[i].start <= ranges[i].end
  /\ \A i, j \in 1 .. Len(ranges) : i < j => ranges[i].end < ranges[j].start

LEMMA RangeIs ==
  ASSUME NEW start \in Int, NEW end \in Int, NEW dev \in Int
  PROVE  /\ PageRange(start, end, dev) \in Ranges
         /\ PageRange(start, end, dev).start = start
         /\ PageRange(start, end, dev).end = end
         /\ PageRange(start, end, dev).device = dev
  BY DEF PageRange, Ranges

LEMMA ElementType ==
  ASSUME NEW ranges \in Seq(Ranges), NEW i \in 1 .. Len(ranges)
  PROVE  /\ ranges[i] \in Ranges
         /\ ranges[i].start \in Int /\ ranges[i].end \in Int /\ ranges[i].device \in Int
<1>1. ranges[i] \in Ranges
  BY ElementOfSeq
<1> QED
  BY <1>1 DEF Ranges

-----------------------------------------------------------------------------
\* Walking over the ranges of a page.

Walks == [cursor : Int, done : BOOLEAN, gaps : Seq(Ranges)]

LEMMA PassType ==
  ASSUME NEW w \in Walks, NEW range \in Ranges, NEW end \in Int, NEW dev \in Int
  PROVE  Pass(w, range, end, dev) \in Walks
<1>1. /\ w.cursor \in Int /\ w.done \in BOOLEAN /\ w.gaps \in Seq(Ranges)
      /\ range.start \in Int /\ range.end \in Int
  BY DEF Walks, Ranges
<1>2. [w EXCEPT !.done = TRUE] \in Walks
  BY DEF Walks
<1>3. Beyond(range, end) \in Int
  BY <1>1 DEF Beyond
<1>4. (range.end >= end) \in BOOLEAN
  BY <1>1
<1> DEFINE m == Min({end, range.start - 1})
<1>5. m \in Int
  BY <1>1, LeastOfTwo
<1> HIDE DEF m
<1>6. PageRange(w.cursor, m, dev) \in Ranges
  BY <1>1, <1>5, RangeIs
<1>7. Append(w.gaps, PageRange(w.cursor, m, dev)) \in Seq(Ranges)
  BY <1>1, <1>6
<1> DEFINE gaps == IF w.cursor >= range.start THEN w.gaps ELSE Append(w.gaps, PageRange(w.cursor, m, dev))
           done == range.end >= end
<1>8. gaps \in Seq(Ranges)
  BY <1>1, <1>7
<1>9. done \in BOOLEAN
  BY <1>4
<1> HIDE DEF gaps, done
<1>10. [cursor |-> Beyond(range, end), done |-> done, gaps |-> gaps] \in Walks
  BY <1>3, <1>8, <1>9 DEF Walks
<1> QED
  BY <1>2, <1>10 DEF Pass, gaps, done, m

Walk0(start) == [cursor |-> start, done |-> FALSE, gaps |-> <<>>]

(* What is known of the walk as the rounds of its loop.                    *)
WalkOf(g, existing, start, end, dev) ==
  /\ g[0] = Walk0(start)
  /\ \A n \in 1 .. Len(existing) : g[n] = Pass(g[n - 1], existing[n], end, dev)
  /\ Uncovered(existing, start, end, dev) =
       IF g[Len(existing)].cursor <= end
       THEN Append(g[Len(existing)].gaps, PageRange(g[Len(existing)].cursor, end, dev))
       ELSE g[Len(existing)].gaps

LEMMA WalkRounds ==
  ASSUME NEW existing \in Seq(Ranges), NEW start \in Int, NEW end \in Int, NEW dev \in Int
  PROVE  \E g : WalkOf(g, existing, start, end, dev)
<1> DEFINE N == Len(existing)
           first == Walk0(start)
           F == [x \in (1 .. N) \X Walks |-> Pass(x[2], existing[x[1]], end, dev)]
           unfold(g) == [n \in 0 .. N |-> IF n = 0 THEN first ELSE Pass(g[n - 1], existing[n], end, dev)]
<1>1. N \in Nat
  OBVIOUS
<1>2. first \in Walks
  BY DEF Walk0, Walks
<1>3. F \in [(1 .. N) \X Walks -> Walks]
  <2>1. ASSUME NEW x \in (1 .. N) \X Walks PROVE Pass(x[2], existing[x[1]], end, dev) \in Walks
    <3>1. x[2] \in Walks /\ existing[x[1]] \in Ranges
      BY ElementType
    <3> QED
      BY <3>1, PassType
  <2> QED
    BY <2>1
<1>4. \A n \in 1 .. N, w \in Walks : F[n, w] = Pass(w, existing[n], end, dev)
  OBVIOUS
<1>5. \E f \in [0 .. N -> Walks] : Rounds(f, F, first, N)
  <2> HIDE DEF F, N, first
  <2> QED
    BY <1>1, <1>2, <1>3, RoundsExist
<1>6. \E f : f = unfold(f)
  <2>1. PICK f \in [0 .. N -> Walks] : Rounds(f, F, first, N)
    BY <1>5
  <2> HIDE DEF F
  <2>2. \A n \in 1 .. N : n - 1 \in 0 .. N /\ f[n - 1] \in Walks
    BY <1>1
  <2>3. \A n \in 0 .. N : n # 0 => n \in 1 .. N
    BY <1>1
  <2>4. f = [n \in 0 .. N |-> IF n = 0 THEN first ELSE F[n, f[n - 1]]]
    BY <2>1 DEF Rounds
  <2> HIDE DEF first
  <2>5. \A n \in 0 .. N : (IF n = 0 THEN first ELSE F[n, f[n - 1]]) =
                          IF n = 0 THEN first ELSE Pass(f[n - 1], existing[n], end, dev)
    BY <1>4, <2>2, <2>3
  <2> QED
    BY <2>4, <2>5
<1> DEFINE g == CHOOSE f : f = unfold(f)
<1>7. g = unfold(g)
  <2> HIDE DEF unfold
  <2> QED
    BY <1>6
<1>8. Uncovered(existing, start, end, dev) =
       IF g[N].cursor <= end THEN Append(g[N].gaps, PageRange(g[N].cursor, end, dev)) ELSE g[N].gaps
  BY Zenon DEF Uncovered, Loop, Walk0
<1> HIDE DEF g
<1>9. /\ g[0] = first
      /\ \A n \in 1 .. N : g[n] = Pass(g[n - 1], existing[n], end, dev)
  BY <1>1, <1>7
<1>10. WalkOf(g, existing, start, end, dev)
  BY <1>8, <1>9 DEF WalkOf
<1> QED
  BY <1>10

Covered(ranges, a) == \E i \in 1 .. Len(ranges) : In(ranges[i], a)

(* A range behind all others.                                              *)
LEMMA RangeAppended ==
  ASSUME NEW ranges, Ordered(ranges), NEW r \in Ranges, r.start <= r.end,
         \A i \in 1 .. Len(ranges) : ranges[i].end < r.start
  PROVE  /\ Ordered(Append(ranges, r))
         /\ Len(Append(ranges, r)) = Len(ranges) + 1
         /\ \A i \in 1 .. Len(ranges) : Append(ranges, r)[i] = ranges[i]
         /\ Append(ranges, r)[Len(ranges) + 1] = r
         /\ \A a : Covered(Append(ranges, r), a) <=> Covered(ranges, a) \/ In(r, a)
<1> DEFINE t == Append(ranges, r)
           n == Len(ranges)
<1>1. ranges \in Seq(Ranges) /\ n \in Nat
  BY DEF Ordered
<1>2. t \in Seq(Ranges) /\ Len(t) = n + 1 /\ t[n + 1] = r /\ \A i \in 1 .. n : t[i] = ranges[i]
  BY <1>1
<1> HIDE DEF t, n
<1>3. \A i \in 1 .. n + 1 : i \in 1 .. n \/ i = n + 1
  BY <1>1
<1>a. \A i \in 1 .. n : i \in 1 .. n + 1
  BY <1>1
<1>b. n + 1 \in 1 .. n + 1
  BY <1>1
<1>4. \A i \in 1 .. n + 1 : t[i].start <= t[i].end
  BY <1>2, <1>3 DEF Ordered, n
<1>5. ASSUME NEW i \in 1 .. n + 1, NEW j \in 1 .. n + 1, i < j PROVE t[i].end < t[j].start
  <2>1. i \in 1 .. n
    BY <1>1, <1>5
  <2>2. CASE j \in 1 .. n
    BY <1>2, <1>5, <2>1, <2>2 DEF Ordered, n
  <2>3. CASE j = n + 1
    BY <1>2, <2>1, <2>3 DEF n
  <2> QED
    BY <1>3, <2>2, <2>3
<1>6. Ordered(t)
  BY <1>2, <1>4, <1>5 DEF Ordered
<1>7. ASSUME NEW a PROVE Covered(t, a) <=> Covered(ranges, a) \/ In(r, a)
  <2>1. Covered(t, a) <=> \E i \in 1 .. n + 1 : In(t[i], a)
    BY <1>2 DEF Covered
  <2>2. Covered(ranges, a) <=> \E i \in 1 .. n : In(ranges[i], a)
    BY DEF Covered, n
  <2>3. (\E i \in 1 .. n + 1 : In(t[i], a)) => (\E i \in 1 .. n : In(ranges[i], a)) \/ In(r, a)
    BY <1>2, <1>3, Zenon
  <2>4. (\E i \in 1 .. n : In(ranges[i], a)) \/ In(r, a) => \E i \in 1 .. n + 1 : In(t[i], a)
    BY <1>2, <1>a, <1>b, Zenon
  <2> QED
    BY <2>1, <2>2, <2>3, <2>4
<1> QED
  BY <1>2, <1>6, <1>7 DEF t, n

(* After n rounds: the gaps are what no range covers below the cursor.     *)
WalkInv(w, n, existing, start, end, dev) ==
  /\ w \in Walks /\ start <= w.cursor /\ w.cursor <= end + 1
  /\ Ordered(w.gaps)
  /\ \A j \in 1 .. Len(w.gaps) :
       w.gaps[j].device = dev /\ start <= w.gaps[j].start /\ w.gaps[j].end < w.cursor
  /\ \A a \in start .. w.cursor - 1 : Covered(w.gaps, a) <=> ~Covered(existing, a)
  /\ ~w.done => \A i \in 1 .. n : existing[i].end < w.cursor
  /\ w.done => \A a \in w.cursor .. end : ~Covered(existing, a)

LEMMA WalkStep ==
  ASSUME NEW existing, Ordered(existing), NEW start \in Int, NEW end \in Int, start <= end,
         NEW dev \in Int, NEW n \in 1 .. Len(existing), NEW w,
         WalkInv(w, n - 1, existing, start, end, dev)
  PROVE  WalkInv(Pass(w, existing[n], end, dev), n, existing, start, end, dev)
<1> DEFINE r == existing[n]
           L == Len(existing)
<1>1. /\ existing \in Seq(Ranges) /\ L \in Nat /\ n \in 1 .. L
      /\ r \in Ranges /\ r.start \in Int /\ r.end \in Int /\ r.start <= r.end
  BY ElementType DEF Ordered
<1>2. /\ w \in Walks /\ w.cursor \in Int /\ w.done \in BOOLEAN /\ w.gaps \in Seq(Ranges)
      /\ start <= w.cursor /\ w.cursor <= end + 1
  BY DEF WalkInv, Walks
<1>3. \A i \in 1 .. L : existing[i].start \in Int /\ existing[i].end \in Int
  BY <1>1, ElementType
<1>4. \A i \in 1 .. L : i < n => existing[i].end < r.start
  BY DEF Ordered
<1>5. \A i \in 1 .. L : n < i => r.end < existing[i].start
  BY DEF Ordered
<1>6. Covered(existing, r.start) /\ \A a \in r.start .. r.end : Covered(existing, a)
  BY <1>1 DEF Covered, In
<1> HIDE DEF r, L
<1>7. \A i \in 1 .. L : i \in 1 .. n - 1 \/ i = n \/ n < i
  BY <1>1
<1>8. CASE w.done
  <2>1. Pass(w, r, end, dev) = w
    BY <1>8 DEF Pass
  <2> QED
    BY <1>8, <2>1 DEF WalkInv, r
<1>9. CASE ~w.done
  <2>0. \A i \in 1 .. n - 1 : existing[i].end < w.cursor
    BY <1>9 DEF WalkInv
  <2>1. CASE r.end < w.cursor
    <3>1. Pass(w, r, end, dev) = w
      BY <2>1 DEF Pass
    <3>2. \A i \in 1 .. n : i \in 1 .. n - 1 \/ i = n
      BY <1>1
    <3>3. \A i \in 1 .. n : existing[i].end < w.cursor
      BY <2>0, <2>1, <3>2 DEF r
    <3> QED
      BY <1>9, <3>1, <3>3 DEF WalkInv, r
  <2>2. CASE ~(r.end < w.cursor) /\ r.start > end
    <3> DEFINE v == [w EXCEPT !.done = TRUE]
    <3>1. Pass(w, r, end, dev) = v
      BY <1>9, <2>2 DEF Pass
    <3>2. v \in Walks /\ v.cursor = w.cursor /\ v.gaps = w.gaps /\ v.done = TRUE
      BY <1>2 DEF Walks
    <3>3. ASSUME NEW a \in w.cursor .. end PROVE ~Covered(existing, a)
      <4>1. ASSUME NEW i \in 1 .. L PROVE ~In(existing[i], a)
        <5>1. CASE i \in 1 .. n - 1
          BY <1>2, <1>3, <2>0, <5>1 DEF In
        <5>2. CASE i = n
          BY <1>1, <1>2, <2>2, <5>2 DEF In, r
        <5>3. CASE n < i
          BY <1>1, <1>2, <1>3, <1>5, <2>2, <5>3, SMTT(40) DEF In
        <5> QED
          BY <1>7, <5>1, <5>2, <5>3
      <4> QED
        BY <4>1 DEF Covered, L
    <3> HIDE DEF v
    <3>4. WalkInv(v, n, existing, start, end, dev)
      BY <3>2, <3>3 DEF WalkInv
    <3> QED
      BY <3>1, <3>4 DEF r
  <2>3. CASE ~(r.end < w.cursor) /\ ~(r.start > end)
    <3> DEFINE c == Beyond(r, end)
               gap == PageRange(w.cursor, r.start - 1, dev)
               gaps == IF w.cursor >= r.start THEN w.gaps ELSE Append(w.gaps, gap)
               done == r.end >= end
               v == [cursor |-> c, done |-> done, gaps |-> gaps]
    <3>1. Min({end, r.start - 1}) = r.start - 1
      BY <1>1, <2>3, LeastOfTwo
    <3>2. Pass(w, r, end, dev) = v
      BY <1>9, <2>3, <3>1 DEF Pass
    <3>3. v \in Walks
      BY <1>1, <1>2, <3>2, PassType
    <3>4. v.cursor = c /\ v.gaps = gaps /\ (v.done <=> done)
      OBVIOUS
    <3> HIDE DEF v
    <3>5. c \in Int /\ w.cursor <= c /\ c <= end + 1 /\ c > r.start /\ c <= r.end + 1
          /\ (done => c = end + 1) /\ (~done => c = r.end + 1)
      BY <1>1, <1>2, <2>3 DEF Beyond
    <3>6. start <= c
      BY <1>2, <3>5
    <3> HIDE DEF done, c
    <3>7. /\ Ordered(gaps)
          /\ \A j \in 1 .. Len(gaps) :
               gaps[j].device = dev /\ start <= gaps[j].start /\ gaps[j].end < c
          /\ \A a \in Int : Covered(gaps, a) <=> Covered(w.gaps, a) \/ (w.cursor <= a /\ a < r.start)
      <4>0. \A j \in 1 .. Len(w.gaps) : w.gaps[j].end \in Int /\ w.gaps[j].end < w.cursor
        BY <1>2, ElementType DEF WalkInv
      <4>1. CASE w.cursor >= r.start
        <5>1. gaps = w.gaps
          BY <4>1
        <5>2. \A a \in Int : ~(w.cursor <= a /\ a < r.start)
          BY <1>1, <1>2, <4>1
        <5>3. \A j \in 1 .. Len(w.gaps) : w.gaps[j].end < c
          BY <1>2, <3>5, <4>0, SMTT(40)
        <5> QED
          BY <5>1, <5>2, <5>3 DEF WalkInv
      <4>2. CASE ~(w.cursor >= r.start)
        <5>1. gaps = Append(w.gaps, gap)
          BY <4>2
        <5>2. /\ gap \in Ranges /\ gap.start = w.cursor /\ gap.end = r.start - 1 /\ gap.device = dev
          <6>1. r.start - 1 \in Int
            BY <1>1
          <6> QED
            BY <1>2, <6>1 DEF PageRange, Ranges
        <5>3. gap.start <= gap.end
          BY <1>1, <1>2, <4>2, <5>2
        <5>4. \A j \in 1 .. Len(w.gaps) : w.gaps[j].end < gap.start
          BY <4>0, <5>2
        <5>5. Ordered(w.gaps)
          BY DEF WalkInv
        <5> HIDE DEF gap, gaps
        <5>6. /\ Ordered(gaps) /\ Len(gaps) = Len(w.gaps) + 1
              /\ \A i \in 1 .. Len(w.gaps) : gaps[i] = w.gaps[i]
              /\ gaps[Len(w.gaps) + 1] = gap
              /\ \A a : Covered(gaps, a) <=> Covered(w.gaps, a) \/ In(gap, a)
          BY <5>1, <5>2, <5>3, <5>4, <5>5, RangeAppended
        <5>7. \A a \in Int : In(gap, a) <=> w.cursor <= a /\ a < r.start
          BY <1>1, <1>2, <5>2 DEF In
        <5>8. Len(w.gaps) \in Nat
          BY <1>2
        <5>9. ASSUME NEW j \in 1 .. Len(gaps)
              PROVE  gaps[j].device = dev /\ start <= gaps[j].start /\ gaps[j].end < c
          <6>1. CASE j \in 1 .. Len(w.gaps)
            <7>1. gaps[j] = w.gaps[j] /\ gaps[j].end \in Int
              BY <4>0, <5>6, <6>1
            <7>2. gaps[j].device = dev /\ start <= gaps[j].start /\ gaps[j].end < w.cursor
              BY <6>1, <7>1 DEF WalkInv
            <7> QED
              BY <1>2, <3>5, <7>1, <7>2, SMTT(40)
          <6>2. CASE j = Len(w.gaps) + 1
            <7>1. gaps[j] = gap
              BY <5>6, <6>2
            <7>2. r.start - 1 < c
              BY <1>1, <3>5
            <7> QED
              BY <1>2, <5>2, <7>1, <7>2
          <6> QED
            BY <5>6, <5>8, <6>1, <6>2
        <5> QED
          BY <5>6, <5>7, <5>9
      <4> QED
        BY <4>1, <4>2
    <3> HIDE DEF gaps
    <3>8. ASSUME NEW a \in start .. c - 1 PROVE Covered(gaps, a) <=> ~Covered(existing, a)
      <4>0. a \in Int /\ start <= a /\ a < c
        BY <3>5
      <4>1. CASE a < w.cursor
        <5>1. Covered(w.gaps, a) <=> ~Covered(existing, a)
          BY <1>2, <4>0, <4>1 DEF WalkInv
        <5>2. Covered(gaps, a) <=> Covered(w.gaps, a)
          BY <1>2, <3>7, <4>0, <4>1
        <5> QED
          BY <5>1, <5>2
      <4>2. CASE w.cursor <= a /\ a < r.start
        <5>1. Covered(gaps, a)
          BY <3>7, <4>0, <4>2
        <5>2. ASSUME NEW i \in 1 .. L PROVE ~In(existing[i], a)
          <6>1. CASE i \in 1 .. n - 1
            BY <1>2, <1>3, <2>0, <4>0, <4>2, <6>1 DEF In
          <6>2. CASE i = n
            BY <1>1, <4>0, <4>2, <6>2 DEF In, r
          <6>3. CASE n < i
            <7>1. a < existing[i].start
              BY <1>1, <1>3, <1>5, <4>0, <4>2, <6>3
            <7> QED
              BY <1>3, <4>0, <7>1 DEF In
          <6> QED
            BY <1>7, <6>1, <6>2, <6>3
        <5>3. ~Covered(existing, a)
          BY <5>2 DEF Covered, L
        <5> QED
          BY <5>1, <5>3
      <4>3. CASE w.cursor <= a /\ r.start <= a
        <5>1. Covered(existing, a)
          <6>1. a <= r.end
            BY <1>1, <3>5, <4>0
          <6> QED
            BY <1>1, <1>6, <4>0, <4>3, <6>1
        <5>2. ~Covered(w.gaps, a)
          <6>1. \A j \in 1 .. Len(w.gaps) : w.gaps[j].end \in Int /\ w.gaps[j].end < w.cursor
            BY <1>2, ElementType DEF WalkInv
          <6>2. \A j \in 1 .. Len(w.gaps) : ~In(w.gaps[j], a)
            BY <1>2, <4>0, <4>3, <6>1 DEF In
          <6> QED
            BY <6>2 DEF Covered
        <5>3. ~Covered(gaps, a)
          BY <1>1, <3>7, <4>0, <4>3, <5>2
        <5> QED
          BY <5>1, <5>3
      <4> QED
        BY <1>1, <1>2, <4>0, <4>1, <4>2, <4>3
    <3>9. ASSUME ~done, NEW i \in 1 .. n PROVE existing[i].end < c
      <4>1. i \in 1 .. n - 1 \/ i = n
        BY <1>1
      <4>2. i \in 1 .. L
        BY <1>1
      <4> QED
        BY <1>1, <1>2, <1>3, <2>0, <3>5, <3>9, <4>1, <4>2, SMTT(40) DEF r
    <3>10. ASSUME done, NEW a \in c .. end PROVE ~Covered(existing, a)
      BY <3>5, <3>10
    <3>11. WalkInv(v, n, existing, start, end, dev)
      BY <3>3, <3>4, <3>5, <3>6, <3>7, <3>8, <3>9, <3>10 DEF WalkInv
    <3> QED
      BY <3>2, <3>11 DEF r
  <2> QED
    BY <2>1, <2>2, <2>3
<1> QED
  BY <1>2, <1>8, <1>9

(* What a device of a page still has to cover: the gaps between the ranges *)
(* that are there, in order.                                               *)
Fills(gaps, existing, start, end, dev) ==
  /\ Ordered(gaps)
  /\ \A j \in 1 .. Len(gaps) :
       gaps[j].device = dev /\ start <= gaps[j].start /\ gaps[j].end <= end
  /\ \A a \in start .. end : Covered(gaps, a) <=> ~Covered(existing, a)

LEMMA UncoveredFills ==
  ASSUME NEW existing, Ordered(existing), NEW start \in Int, NEW end \in Int, start <= end,
         NEW dev \in Int
  PROVE  Fills(Uncovered(existing, start, end, dev), existing, start, end, dev)
<1> DEFINE N == Len(existing)
           Holds(w, n) == WalkInv(w, n, existing, start, end, dev)
<1>1. existing \in Seq(Ranges) /\ N \in Nat
  BY DEF Ordered
<1>2. PICK g : WalkOf(g, existing, start, end, dev)
  BY <1>1, WalkRounds
<1>3. Holds(g[0], 0)
  <2> DEFINE w == Walk0(start)
  <2>1. w \in Walks /\ w.cursor = start /\ w.gaps = <<>> /\ ~w.done
    BY DEF Walk0, Walks
  <2>2. Ordered(<<>>) /\ Len(<<>>) = 0
    BY DEF Ordered
  <2>3. \A a \in start .. start - 1 : FALSE
    OBVIOUS
  <2> HIDE DEF w
  <2>4. WalkInv(w, 0, existing, start, end, dev)
    BY <2>1, <2>2, <2>3 DEF WalkInv
  <2> QED
    BY <1>2, <2>4 DEF WalkOf, w
<1>4. ASSUME NEW n \in 1 .. N, Holds(g[n - 1], n - 1) PROVE Holds(g[n], n)
  <2>1. Holds(Pass(g[n - 1], existing[n], end, dev), n)
    BY <1>4, WalkStep
  <2>2. g[n] = Pass(g[n - 1], existing[n], end, dev)
    BY <1>2 DEF WalkOf
  <2> QED
    BY <2>1, <2>2
<1>5. \A n \in 0 .. N : Holds(g[n], n)
  <2> DEFINE P == {n \in 0 .. N : Holds(g[n], n)}
  <2> HIDE DEF Holds
  <2>1. 0 \in P
    BY <1>1, <1>3
  <2>2. ASSUME NEW n \in 0 .. N - 1, n \in P PROVE n + 1 \in P
    <3>1. n + 1 \in 1 .. N /\ n + 1 - 1 = n /\ n + 1 \in 0 .. N
      BY <1>1
    <3>2. Holds(g[n], n)
      BY <2>2
    <3>3. Holds(g[n + 1], n + 1)
      BY <1>4, <3>1, <3>2
    <3> QED
      BY <3>1, <3>3
  <2>3. \A n \in 0 .. N : n \in P
    <3> HIDE DEF P
    <3> QED
      BY <1>1, <2>1, <2>2, UpTo
  <2> QED
    BY <2>3
<1> DEFINE w == g[N]
           c == w.cursor
<1>6. Holds(w, N)
  BY <1>1, <1>5
<1> HIDE DEF w
<1>7. /\ w \in Walks /\ c \in Int /\ w.done \in BOOLEAN /\ w.gaps \in Seq(Ranges)
      /\ start <= c /\ c <= end + 1 /\ Ordered(w.gaps)
  BY <1>6 DEF WalkInv, Walks
<1>8. \A j \in 1 .. Len(w.gaps) : /\ w.gaps[j].device = dev /\ start <= w.gaps[j].start
                                  /\ w.gaps[j].end \in Int /\ w.gaps[j].end < c
  BY <1>6, <1>7, ElementType DEF WalkInv
<1>9. \A a \in start .. c - 1 : Covered(w.gaps, a) <=> ~Covered(existing, a)
  BY <1>6 DEF WalkInv
<1>10. ASSUME NEW a \in c .. end PROVE ~Covered(existing, a)
  <2>1. CASE w.done
    BY <1>6, <2>1 DEF WalkInv
  <2>2. CASE ~w.done
    <3>1. \A i \in 1 .. N : existing[i].end \in Int /\ existing[i].end < c
      BY <1>1, <1>6, <2>2, ElementType DEF WalkInv
    <3>2. \A i \in 1 .. N : ~In(existing[i], a)
      BY <1>7, <3>1 DEF In
    <3> QED
      BY <3>2 DEF Covered
  <2> QED
    BY <1>7, <2>1, <2>2
<1> DEFINE tail == PageRange(c, end, dev)
           gaps == IF c <= end THEN Append(w.gaps, tail) ELSE w.gaps
<1>11. Uncovered(existing, start, end, dev) = gaps
  BY <1>2 DEF WalkOf, w
<1>12. CASE c <= end
  <2>1. tail \in Ranges /\ tail.start = c /\ tail.end = end /\ tail.device = dev
    BY <1>7 DEF PageRange, Ranges
  <2>2. gaps = Append(w.gaps, tail)
    BY <1>12
  <2> HIDE DEF tail, gaps
  <2>3. /\ Ordered(gaps) /\ Len(gaps) = Len(w.gaps) + 1
        /\ \A i \in 1 .. Len(w.gaps) : gaps[i] = w.gaps[i]
        /\ gaps[Len(w.gaps) + 1] = tail
        /\ \A a : Covered(gaps, a) <=> Covered(w.gaps, a) \/ In(tail, a)
    BY <1>7, <1>8, <1>12, <2>1, <2>2, RangeAppended
  <2>4. ASSUME NEW j \in 1 .. Len(gaps)
        PROVE  gaps[j].device = dev /\ start <= gaps[j].start /\ gaps[j].end <= end
    <3>0. Len(w.gaps) \in Nat
      BY <1>7
    <3>1. CASE j \in 1 .. Len(w.gaps)
      BY <1>7, <1>8, <1>12, <2>3, <3>1, SMTT(40)
    <3>2. CASE j = Len(w.gaps) + 1
      BY <1>7, <2>1, <2>3, <3>2
    <3> QED
      BY <2>3, <3>0, <3>1, <3>2
  <2>5. ASSUME NEW a \in start .. end PROVE Covered(gaps, a) <=> ~Covered(existing, a)
    <3>1. CASE a < c
      <4>1. ~In(tail, a)
        BY <1>7, <2>1, <3>1 DEF In
      <4>2. Covered(w.gaps, a) <=> ~Covered(existing, a)
        BY <1>7, <1>9, <3>1
      <4> QED
        BY <2>3, <4>1, <4>2
    <3>2. CASE c <= a
      <4>1. In(tail, a)
        BY <2>1, <3>2 DEF In
      <4>2. ~Covered(existing, a)
        BY <1>7, <1>10, <3>2
      <4> QED
        BY <2>3, <4>1, <4>2
    <3> QED
      BY <1>7, <3>1, <3>2
  <2>6. Fills(gaps, existing, start, end, dev)
    BY <2>3, <2>4, <2>5 DEF Fills
  <2> QED
    BY <1>11, <2>6
<1>13. CASE ~(c <= end)
  <2>1. gaps = w.gaps /\ c = end + 1
    BY <1>7, <1>13
  <2> HIDE DEF gaps, c
  <2>2. \A j \in 1 .. Len(w.gaps) : w.gaps[j].end <= end
    BY <1>8, <2>1
  <2>3. \A a \in start .. end : a \in start .. c - 1
    BY <2>1
  <2>4. Fills(gaps, existing, start, end, dev)
    BY <1>7, <1>8, <1>9, <2>1, <2>2, <2>3 DEF Fills
  <2> QED
    BY <1>11, <2>4
<1> QED
  BY <1>12, <1>13

LEMMA UncoveredType ==
  ASSUME NEW existing \in Seq(Ranges), NEW start \in Int, NEW end \in Int, NEW dev \in Int
  PROVE  Uncovered(existing, start, end, dev) \in Seq(Ranges)
<1> DEFINE N == Len(existing)
<1>1. PICK g : WalkOf(g, existing, start, end, dev)
  BY WalkRounds
<1>2. \A n \in 0 .. N : g[n] \in Walks
  <2> DEFINE P == {n \in 0 .. N : g[n] \in Walks}
  <2>1. 0 \in P
    <3>1. Walk0(start) \in Walks
      BY DEF Walk0, Walks
    <3>2. g[0] \in Walks
      BY <1>1, <3>1 DEF WalkOf
    <3>3. 0 \in 0 .. N
      OBVIOUS
    <3> QED
      BY <3>2, <3>3
  <2>2. ASSUME NEW n \in 0 .. N - 1, n \in P PROVE n + 1 \in P
    <3>1. n + 1 \in 1 .. N /\ n + 1 - 1 = n /\ n + 1 \in 0 .. N /\ g[n] \in Walks
      BY <2>2
    <3>2. g[n + 1] = Pass(g[n], existing[n + 1], end, dev)
      BY <1>1, <3>1 DEF WalkOf
    <3>3. existing[n + 1] \in Ranges
      BY <3>1, ElementType
    <3>4. g[n + 1] \in Walks
      BY <3>1, <3>2, <3>3, PassType
    <3> QED
      BY <3>1, <3>4
  <2>3. N \in Nat
    OBVIOUS
  <2>4. \A n \in 0 .. N : n \in P
    <3> HIDE DEF P
    <3> QED
      BY <2>1, <2>2, <2>3, UpTo
  <2> QED
    BY <2>4
<1> DEFINE w == g[N]
<1>3. w \in Walks
  BY <1>2
<1> HIDE DEF w
<1>4. w.cursor \in Int /\ w.gaps \in Seq(Ranges)
  BY <1>3 DEF Walks
<1>5. Append(w.gaps, PageRange(w.cursor, end, dev)) \in Seq(Ranges)
  BY <1>4, RangeIs
<1>6. Uncovered(existing, start, end, dev) =
        IF w.cursor <= end THEN Append(w.gaps, PageRange(w.cursor, end, dev)) ELSE w.gaps
  BY <1>1 DEF WalkOf, w
<1> QED
  BY <1>4, <1>5, <1>6

-----------------------------------------------------------------------------
\* Merging.

(* t is the sequence s over S with e put at place i, what InsertAt returns. *)
Inserted(t, s, i, e, S) ==
  /\ t \in Seq(S) /\ Len(t) = Len(s) + 1
  /\ \A j \in 1 .. Len(s) + 1 : t[j] = IF j < i THEN s[j] ELSE IF j = i THEN e ELSE s[j - 1]

LEMMA InsertAtProperties ==
  ASSUME NEW S, NEW s \in Seq(S), NEW i \in 1 .. Len(s) + 1, NEW e \in S
  PROVE  Inserted(InsertAt(s, i, e), s, i, e, S)
<1> DEFINE front == SubSeq(s, 1, i - 1)
           back == SubSeq(s, i, Len(s))
           t == InsertAt(s, i, e)
<1>1. /\ front \in Seq(S) /\ Len(front) = i - 1
      /\ \A j \in 1 .. i - 1 : front[j] = s[j]
  BY SubSeqProperties
<1>2. /\ back \in Seq(S) /\ Len(back) = Len(s) + 1 - i
      /\ \A j \in 1 .. Len(s) + 1 - i : back[j] = s[i + j - 1]
  BY SubSeqProperties
<1> HIDE DEF front, back
<1> DEFINE c == front \o <<e>>
<1>3. /\ c \in Seq(S) /\ Len(c) = i /\ c[i] = e
      /\ \A j \in 1 .. i - 1 : c[j] = s[j]
  BY <1>1
<1> HIDE DEF c
<1>4. /\ c \o back \in Seq(S) /\ Len(c \o back) = Len(s) + 1
      /\ \A j \in 1 .. i : (c \o back)[j] = c[j]
      /\ \A j \in i + 1 .. Len(s) + 1 : (c \o back)[j] = s[j - 1]
  <2>1. /\ c \o back \in Seq(S) /\ Len(c \o back) = Len(s) + 1
        /\ \A j \in 1 .. i : (c \o back)[j] = c[j]
    BY <1>2, <1>3
  <2>2. ASSUME NEW j \in i + 1 .. Len(s) + 1 PROVE (c \o back)[j] = s[j - 1]
    <3>1. (c \o back)[j] = back[j - i] /\ j - i \in 1 .. Len(s) + 1 - i
      BY <1>2, <1>3
    <3>2. i + (j - i) - 1 = j - 1
      OBVIOUS
    <3> QED
      BY <1>2, <3>1, <3>2
  <2> QED
    BY <2>1, <2>2
<1>5. t = c \o back
  BY DEF InsertAt, front, back, c
<1> HIDE DEF t
<1>6. ASSUME NEW j \in 1 .. Len(s) + 1
      PROVE  t[j] = IF j < i THEN s[j] ELSE IF j = i THEN e ELSE s[j - 1]
  <2>1. CASE j \in 1 .. i
    BY <1>3, <1>4, <1>5, <2>1
  <2>2. CASE j \in i + 1 .. Len(s) + 1
    BY <1>4, <1>5, <2>2
  <2> QED
    BY <2>1, <2>2
<1>7. Inserted(t, s, i, e, S)
  BY <1>4, <1>5, <1>6 DEF Inserted
<1> QED
  BY <1>7 DEF t

(* Two ranges that do not share an address.                                *)
Apart(r, q) == r.end < q.start \/ q.end < r.start

(* The ranges that start not later than another one are the first ones.    *)
LEMMA PlaceIs ==
  ASSUME NEW ranges, Ordered(ranges), NEW r \in Ranges
  PROVE  \E p \in 1 .. Len(ranges) + 1 :
           /\ Place(ranges, r) = InsertAt(ranges, p, r)
           /\ \A i \in 1 .. p - 1 : ranges[i].start <= r.start
           /\ \A i \in p .. Len(ranges) : ~(ranges[i].start <= r.start)
<1> DEFINE L == Len(ranges)
           before == {i \in DOMAIN ranges : ranges[i].start <= r.start}
           later == {i \in 1 .. L + 1 : i \notin before}
<1>1. ranges \in Seq(Ranges) /\ L \in Nat /\ DOMAIN ranges = 1 .. L
  BY DEF Ordered
<1>2. \A i \in 1 .. L : ranges[i].start \in Int /\ ranges[i].end \in Int
  BY <1>1, ElementType
<1>3. r.start \in Int
  BY DEF Ranges
<1>4. L + 1 \in later /\ later \in SUBSET Nat
  BY <1>1
<1>5. Min(later) \in later /\ \A y \in later : Min(later) <= y
  <2> HIDE DEF later
  <2> QED
    BY <1>4, LeastElement
<1> DEFINE p == Min(later)
<1>6. p \in 1 .. L + 1 /\ p \notin before /\ \A y \in later : p <= y
  BY <1>5
<1> HIDE DEF p
<1>7. ASSUME NEW i \in 1 .. p - 1 PROVE i \in before
  <2>1. i \in 1 .. L + 1 /\ ~(p <= i)
    BY <1>1, <1>6
  <2> QED
    BY <1>6, <2>1
<1>8. ASSUME NEW i \in p .. L PROVE i \notin before
  <2>1. p \in 1 .. L /\ i \in 1 .. L
    BY <1>1, <1>6
  <2>2. ~(ranges[p].start <= r.start)
    BY <1>1, <1>6, <2>1
  <2>3. ranges[p].start <= ranges[i].start
    <3>1. CASE p = i
      BY <1>2, <2>1, <3>1
    <3>2. CASE p < i
      <4>1. ranges[p].start <= ranges[p].end /\ ranges[p].end < ranges[i].start
        BY <2>1, <3>2 DEF Ordered
      <4> QED
        BY <1>2, <2>1, <4>1
    <3> QED
      BY <1>1, <2>1, <3>1, <3>2
  <2>4. ~(ranges[i].start <= r.start)
    BY <1>2, <1>3, <2>1, <2>2, <2>3
  <2> QED
    BY <2>4
<1>9. before = 1 .. p - 1
  <2>1. \A i : i \in before => i \in 1 .. L
    BY <1>1
  <2>2. \A i \in 1 .. L : i \in 1 .. p - 1 \/ i \in p .. L
    BY <1>1, <1>6
  <2> HIDE DEF before
  <2>3. \A i : i \in before => i \in 1 .. p - 1
    BY <1>8, <2>1, <2>2
  <2> QED
    BY <1>7, <2>3
<1>10. Cardinality(before) + 1 = p
  <2>1. p - 1 \in Int /\ 1 \in Int /\ p \in Int /\ p >= 1
    BY <1>1, <1>6
  <2>2. Cardinality(1 .. p - 1) = IF 1 > p - 1 THEN 0 ELSE p - 1 - 1 + 1
    BY <2>1, FS_Interval
  <2> HIDE DEF before
  <2> QED
    BY <1>9, <2>1, <2>2
<1>11. Place(ranges, r) = InsertAt(ranges, p, r)
  <2>1. Place(ranges, r) = InsertAt(ranges, Cardinality(before) + 1, r)
    BY DEF Place
  <2> QED
    BY <1>10, <2>1
<1>12. \A i \in 1 .. p - 1 : ranges[i].start <= r.start
  BY <1>7
<1>13. \A i \in p .. L : ~(ranges[i].start <= r.start)
  <2>1. \A i \in p .. L : i \in DOMAIN ranges
    BY <1>1, <1>6
  <2> QED
    BY <1>8, <2>1
<1> QED
  BY <1>6, <1>11, <1>12, <1>13

Member(ranges, x) == \E i \in 1 .. Len(ranges) : ranges[i] = x

LEMMA PlaceKeepsOrder ==
  ASSUME NEW ranges, Ordered(ranges), NEW r \in Ranges, r.start <= r.end,
         \A x : Member(ranges, x) => Apart(x, r)
  PROVE  /\ Ordered(Place(ranges, r))
         /\ \A x : Member(Place(ranges, r), x) <=> Member(ranges, x) \/ x = r
<1> DEFINE L == Len(ranges)
           t == Place(ranges, r)
<1>1. ranges \in Seq(Ranges) /\ L \in Nat
  BY DEF Ordered
<1>2. \A i \in 1 .. L : ranges[i].start \in Int /\ ranges[i].end \in Int
  BY <1>1, ElementType
<1>3. r.start \in Int /\ r.end \in Int
  BY DEF Ranges
<1>4. PICK p \in 1 .. L + 1 :
        /\ t = InsertAt(ranges, p, r)
        /\ \A i \in 1 .. p - 1 : ranges[i].start <= r.start
        /\ \A i \in p .. L : ~(ranges[i].start <= r.start)
  BY PlaceIs
<1> HIDE DEF t
<1>5. Inserted(t, ranges, p, r, Ranges)
  <2>1. Inserted(InsertAt(ranges, p, r), ranges, p, r, Ranges)
    BY <1>1, InsertAtProperties
  <2> QED
    BY <1>4, <2>1
<1>6. /\ t \in Seq(Ranges) /\ Len(t) = L + 1
      /\ \A j \in 1 .. L + 1 : t[j] = IF j < p THEN ranges[j] ELSE IF j = p THEN r ELSE ranges[j - 1]
  BY <1>5 DEF Inserted
<1>7. \A i \in 1 .. L : Apart(ranges[i], r) /\ ranges[i].start <= ranges[i].end
  BY DEF Member, Ordered
<1>8. ASSUME NEW i \in 1 .. p - 1
      PROVE  i \in 1 .. L /\ i \in 1 .. L + 1 /\ t[i] = ranges[i] /\ ranges[i].end < r.start
  <2>1. i \in 1 .. L /\ i \in 1 .. L + 1 /\ i < p
    BY <1>1
  <2>2. t[i] = ranges[i]
    BY <1>6, <2>1
  <2>3. ranges[i].start <= r.start /\ ~(r.end < ranges[i].start)
    BY <1>2, <1>3, <1>4, <2>1
  <2> QED
    BY <1>7, <2>1, <2>2, <2>3 DEF Apart
<1>9. ASSUME NEW i \in p .. L
      PROVE  /\ i \in 1 .. L /\ i + 1 \in 1 .. L + 1
             /\ t[i + 1] = ranges[i] /\ r.end < ranges[i].start
  <2>1. i \in 1 .. L /\ i + 1 \in 1 .. L + 1 /\ ~(i + 1 < p) /\ i + 1 # p /\ i + 1 - 1 = i
    BY <1>1
  <2>2. t[i + 1] = ranges[i]
    BY <1>6, <2>1
  <2>3. ~(ranges[i].start <= r.start)
    BY <1>4
  <2>4. ~(ranges[i].end < r.start)
    BY <1>2, <1>3, <1>7, <2>1, <2>3
  <2> QED
    BY <1>7, <2>1, <2>2, <2>4 DEF Apart
<1>10. t[p] = r /\ p \in 1 .. L + 1
  <2>1. ~(p < p)
    BY <1>1
  <2> QED
    BY <1>6, <2>1
<1>11. ASSUME NEW j \in 1 .. L + 1
       PROVE  j \in 1 .. p - 1 \/ j = p \/ (\E i \in p .. L : j = i + 1)
  <2>1. CASE j > p
    <3>1. j - 1 \in p .. L /\ j = (j - 1) + 1
      BY <1>1, <2>1
    <3> QED
      BY <3>1
  <2> QED
    BY <1>1, <2>1
<1>12. ASSUME NEW j \in 1 .. L + 1 PROVE t[j].start <= t[j].end
  <2>1. CASE j \in 1 .. p - 1
    BY <1>7, <1>8, <2>1
  <2>2. CASE j = p
    BY <1>10, <2>2
  <2>3. ASSUME NEW i \in p .. L, j = i + 1 PROVE t[j].start <= t[j].end
    BY <1>7, <1>9, <2>3
  <2> QED
    BY <1>11, <2>1, <2>2, <2>3
<1>13. ASSUME NEW j \in 1 .. L + 1, NEW k \in 1 .. L + 1, j < k PROVE t[j].end < t[k].start
  <2>0. \A i, m \in 1 .. L : i < m => ranges[i].end < ranges[m].start
    BY DEF Ordered
  <2>1. CASE j \in 1 .. p - 1 /\ k \in 1 .. p - 1
    BY <1>8, <1>13, <2>0, <2>1
  <2>2. CASE j \in 1 .. p - 1 /\ k = p
    BY <1>8, <1>10, <2>2
  <2>3. ASSUME j \in 1 .. p - 1, NEW m \in p .. L, k = m + 1 PROVE t[j].end < t[k].start
    <3>1. j < m
      BY <1>1, <2>3
    <3> QED
      BY <1>8, <1>9, <2>0, <2>3, <3>1
  <2>4. ASSUME j = p, NEW m \in p .. L, k = m + 1 PROVE t[j].end < t[k].start
    BY <1>9, <1>10, <2>4
  <2>5. ASSUME NEW i \in p .. L, j = i + 1, NEW m \in p .. L, k = m + 1 PROVE t[j].end < t[k].start
    <3>1. i < m
      BY <1>1, <1>13, <2>5
    <3> QED
      BY <1>9, <2>0, <2>5, <3>1
  <2>6. k \in 1 .. p - 1 => j \in 1 .. p - 1
    BY <1>1, <1>13
  <2>7. k = p => j \in 1 .. p - 1
    BY <1>1, <1>13
  <2> QED
    BY <1>11, <2>1, <2>2, <2>3, <2>4, <2>5, <2>6, <2>7
<1>14. Ordered(t)
  BY <1>6, <1>12, <1>13 DEF Ordered
<1>15. ASSUME NEW x PROVE Member(t, x) <=> Member(ranges, x) \/ x = r
  <2>1. ASSUME Member(t, x) PROVE Member(ranges, x) \/ x = r
    <3>1. PICK j \in 1 .. L + 1 : t[j] = x
      BY <1>6, <2>1 DEF Member
    <3>2. CASE j \in 1 .. p - 1
      BY <1>8, <3>1, <3>2 DEF Member
    <3>3. CASE j = p
      BY <1>10, <3>1, <3>3
    <3>4. ASSUME NEW i \in p .. L, j = i + 1 PROVE Member(ranges, x)
      BY <1>9, <3>1, <3>4 DEF Member
    <3> QED
      BY <1>11, <3>2, <3>3, <3>4
  <2>2. ASSUME Member(ranges, x) PROVE Member(t, x)
    <3>1. PICK i \in 1 .. L : ranges[i] = x
      BY <2>2 DEF Member
    <3>2. CASE i \in 1 .. p - 1
      BY <1>6, <1>8, <3>1, <3>2 DEF Member
    <3>3. CASE i \in p .. L
      BY <1>6, <1>9, <3>1, <3>3 DEF Member
    <3> QED
      BY <1>1, <3>2, <3>3
  <2>3. ASSUME x = r PROVE Member(t, x)
    BY <1>6, <1>10, <2>3 DEF Member
  <2> QED
    BY <2>1, <2>2, <2>3
<1> QED
  BY <1>14, <1>15 DEF t

LEMMA PlaceType ==
  ASSUME NEW ranges \in Seq(Ranges), NEW r \in Ranges
  PROVE  Place(ranges, r) \in Seq(Ranges)
<1> DEFINE L == Len(ranges)
           before == {i \in DOMAIN ranges : ranges[i].start <= r.start}
           c == Cardinality(before)
<1>1. L \in Nat /\ DOMAIN ranges = 1 .. L /\ before \subseteq 1 .. L
  OBVIOUS
<1>2. IsFiniteSet(1 .. L) /\ Cardinality(1 .. L) = IF 1 > L THEN 0 ELSE L - 1 + 1
  BY <1>1, FS_Interval, SMTT(40)
<1> HIDE DEF before
<1>3. IsFiniteSet(before) /\ Cardinality(before) <= Cardinality(1 .. L)
  BY <1>1, <1>2, FS_Subset
<1>4. c \in Nat
  BY <1>3, FS_CardinalityType
<1>5. c + 1 \in 1 .. L + 1
  BY <1>1, <1>2, <1>3, <1>4
<1> HIDE DEF c
<1>6. Inserted(InsertAt(ranges, c + 1, r), ranges, c + 1, r, Ranges)
  BY <1>5, InsertAtProperties
<1>7. Place(ranges, r) = InsertAt(ranges, c + 1, r)
  BY DEF Place, c, before
<1> QED
  BY <1>6, <1>7 DEF Inserted

MergeOf(g, existing, uncovered) ==
  /\ g[0] = existing
  /\ \A n \in 1 .. Len(uncovered) : g[n] = Place(g[n - 1], uncovered[n])
  /\ Merge(existing, uncovered) = g[Len(uncovered)]

LEMMA MergeRounds ==
  ASSUME NEW existing \in Seq(Ranges), NEW uncovered \in Seq(Ranges)
  PROVE  \E g : MergeOf(g, existing, uncovered)
<1> DEFINE N == Len(uncovered)
           S == Seq(Ranges)
           F == [x \in (1 .. N) \X S |-> Place(x[2], uncovered[x[1]])]
           unfold(g) == [n \in 0 .. N |-> IF n = 0 THEN existing ELSE Place(g[n - 1], uncovered[n])]
<1>1. N \in Nat /\ existing \in S
  OBVIOUS
<1>2. F \in [(1 .. N) \X S -> S]
  <2>1. ASSUME NEW x \in (1 .. N) \X S PROVE Place(x[2], uncovered[x[1]]) \in S
    <3>1. x[2] \in Seq(Ranges) /\ uncovered[x[1]] \in Ranges
      BY ElementType
    <3> QED
      BY <3>1, PlaceType
  <2> QED
    BY <2>1
<1>3. \A n \in 1 .. N, s \in S : F[n, s] = Place(s, uncovered[n])
  OBVIOUS
<1>4. \E f \in [0 .. N -> S] : Rounds(f, F, existing, N)
  <2> HIDE DEF F, N, S
  <2> QED
    BY <1>1, <1>2, RoundsExist
<1>5. \E f : f = unfold(f)
  <2>1. PICK f \in [0 .. N -> S] : Rounds(f, F, existing, N)
    BY <1>4
  <2> HIDE DEF F, S
  <2>2. \A n \in 1 .. N : n - 1 \in 0 .. N /\ f[n - 1] \in S
    BY <1>1
  <2>3. \A n \in 0 .. N : n # 0 => n \in 1 .. N
    BY <1>1
  <2>4. f = [n \in 0 .. N |-> IF n = 0 THEN existing ELSE F[n, f[n - 1]]]
    BY <2>1 DEF Rounds
  <2>5. \A n \in 0 .. N : (IF n = 0 THEN existing ELSE F[n, f[n - 1]]) =
                          IF n = 0 THEN existing ELSE Place(f[n - 1], uncovered[n])
    BY <1>3, <2>2, <2>3
  <2> QED
    BY <2>4, <2>5
<1> DEFINE g == CHOOSE f : f = unfold(f)
<1>6. g = unfold(g)
  <2> HIDE DEF unfold
  <2> QED
    BY <1>5
<1>7. Merge(existing, uncovered) = g[N]
  BY Zenon DEF Merge, Loop
<1> HIDE DEF g
<1>8. /\ g[0] = existing
      /\ \A n \in 1 .. N : g[n] = Place(g[n - 1], uncovered[n])
  BY <1>1, <1>6
<1>9. MergeOf(g, existing, uncovered)
  BY <1>7, <1>8 DEF MergeOf
<1> QED
  BY <1>9

(* After n rounds the first n gaps are in their places.                    *)
MergeInv(ranges, n, existing, uncovered) ==
  /\ Ordered(ranges)
  /\ \A x : Member(ranges, x) <=> Member(existing, x) \/ \E j \in 1 .. n : uncovered[j] = x

LEMMA MergeStep ==
  ASSUME NEW existing, NEW uncovered, Ordered(existing), Ordered(uncovered),
         \A x, y : Member(existing, x) /\ Member(uncovered, y) => Apart(x, y),
         NEW n \in 1 .. Len(uncovered), NEW ranges, MergeInv(ranges, n - 1, existing, uncovered)
  PROVE  MergeInv(Place(ranges, uncovered[n]), n, existing, uncovered)
<1> DEFINE r == uncovered[n]
<1>1. uncovered \in Seq(Ranges) /\ Len(uncovered) \in Nat
  BY DEF Ordered
<1>2. r \in Ranges /\ r.start <= r.end /\ Member(uncovered, r)
  BY <1>1, ElementType DEF Ordered, Member
<1>3. ASSUME NEW x, Member(ranges, x) PROVE Apart(x, r)
  <2>1. CASE Member(existing, x)
    BY <1>2, <2>1
  <2>2. ASSUME NEW j \in 1 .. n - 1, uncovered[j] = x PROVE Apart(x, r)
    <3>1. j \in 1 .. Len(uncovered) /\ j < n
      BY <1>1
    <3>2. uncovered[j].end < uncovered[n].start
      BY <3>1 DEF Ordered
    <3> QED
      BY <2>2, <3>2 DEF Apart
  <2> QED
    BY <1>3, <2>1, <2>2 DEF MergeInv
<1>4. /\ Ordered(Place(ranges, r))
      /\ \A x : Member(Place(ranges, r), x) <=> Member(ranges, x) \/ x = r
  <2>1. Ordered(ranges)
    BY DEF MergeInv
  <2> HIDE DEF r
  <2> QED
    BY <1>2, <1>3, <2>1, PlaceKeepsOrder
<1>5. ASSUME NEW x PROVE Member(Place(ranges, r), x) <=>
                          Member(existing, x) \/ \E j \in 1 .. n : uncovered[j] = x
  <2>1. \A j : j \in 1 .. n <=> j \in 1 .. n - 1 \/ j = n
    BY <1>1
  <2>2. (\E j \in 1 .. n : uncovered[j] = x) <=> (\E j \in 1 .. n - 1 : uncovered[j] = x) \/ x = r
    BY <2>1
  <2>3. Member(ranges, x) <=> Member(existing, x) \/ \E j \in 1 .. n - 1 : uncovered[j] = x
    BY DEF MergeInv
  <2> QED
    BY <1>4, <2>2, <2>3
<1> QED
  BY <1>4, <1>5 DEF MergeInv

LEMMA MergeIs ==
  ASSUME NEW existing, NEW uncovered, Ordered(existing), Ordered(uncovered),
         \A x, y : Member(existing, x) /\ Member(uncovered, y) => Apart(x, y)
  PROVE  /\ Ordered(Merge(existing, uncovered))
         /\ \A x : Member(Merge(existing, uncovered), x) <=>
                     Member(existing, x) \/ Member(uncovered, x)
<1> DEFINE N == Len(uncovered)
           Holds(s, n) == MergeInv(s, n, existing, uncovered)
<1>1. existing \in Seq(Ranges) /\ uncovered \in Seq(Ranges) /\ N \in Nat
  BY DEF Ordered
<1>2. PICK g : MergeOf(g, existing, uncovered)
  BY <1>1, MergeRounds
<1>3. Holds(g[0], 0)
  <2>1. \A j \in 1 .. 0 : FALSE
    OBVIOUS
  <2> QED
    BY <1>2, <2>1 DEF MergeOf, MergeInv
<1>4. ASSUME NEW n \in 1 .. N, Holds(g[n - 1], n - 1) PROVE Holds(g[n], n)
  <2>1. Holds(Place(g[n - 1], uncovered[n]), n)
    BY <1>4, MergeStep
  <2>2. g[n] = Place(g[n - 1], uncovered[n])
    BY <1>2 DEF MergeOf
  <2> QED
    BY <2>1, <2>2
<1>5. \A n \in 0 .. N : Holds(g[n], n)
  <2> DEFINE P == {n \in 0 .. N : Holds(g[n], n)}
  <2> HIDE DEF Holds
  <2>1. 0 \in P
    BY <1>1, <1>3
  <2>2. ASSUME NEW n \in 0 .. N - 1, n \in P PROVE n + 1 \in P
    <3>1. n + 1 \in 1 .. N /\ n + 1 - 1 = n /\ n + 1 \in 0 .. N
      BY <1>1
    <3>2. Holds(g[n], n)
      BY <2>2
    <3>3. Holds(g[n + 1], n + 1)
      BY <1>4, <3>1, <3>2
    <3> QED
      BY <3>1, <3>3
  <2>3. \A n \in 0 .. N : n \in P
    <3> HIDE DEF P
    <3> QED
      BY <1>1, <2>1, <2>2, UpTo
  <2> QED
    BY <2>3
<1>6. Holds(g[N], N) /\ Merge(existing, uncovered) = g[N]
  BY <1>1, <1>2, <1>5 DEF MergeOf
<1> QED
  BY <1>6 DEF MergeInv, Member

LEMMA MergeType ==
  ASSUME NEW existing \in Seq(Ranges), NEW uncovered \in Seq(Ranges)
  PROVE  Merge(existing, uncovered) \in Seq(Ranges)
<1> DEFINE N == Len(uncovered)
<1>1. PICK g : MergeOf(g, existing, uncovered)
  BY MergeRounds
<1> DEFINE P == {n \in 0 .. N : g[n] \in Seq(Ranges)}
<1>2. 0 \in P
  BY <1>1 DEF MergeOf
<1>3. ASSUME NEW n \in 0 .. N - 1, n \in P PROVE n + 1 \in P
  <2>1. n + 1 \in 1 .. N /\ n + 1 - 1 = n /\ n + 1 \in 0 .. N /\ g[n] \in Seq(Ranges)
    BY <1>3
  <2>2. g[n + 1] = Place(g[n], uncovered[n + 1]) /\ uncovered[n + 1] \in Ranges
    BY <1>1, <2>1, ElementType DEF MergeOf
  <2>3. g[n + 1] \in Seq(Ranges)
    BY <2>1, <2>2, PlaceType
  <2> QED
    BY <2>1, <2>3
<1>4. N \in Nat
  OBVIOUS
<1>5. \A n \in 0 .. N : n \in P
  <2> HIDE DEF P
  <2> QED
    BY <1>2, <1>3, <1>4, UpTo
<1>6. g[N] \in Seq(Ranges)
  BY <1>4, <1>5
<1> QED
  BY <1>1, <1>6 DEF MergeOf

-----------------------------------------------------------------------------
\* The page table.

HeldBy(ranges, a, d) == \E i \in 1 .. Len(ranges) : In(ranges[i], a) /\ ranges[i].device = d

(* The ranges of a page once a device covers what is left of start..end.   *)
CoveredBy(t, existing, start, end, dev) ==
  /\ Ordered(t)
  /\ \A x : Member(t, x) => \/ Member(existing, x)
                            \/ start <= x.start /\ x.end <= end /\ x.device = dev
  /\ \A a \in Int : \A d :
       HeldBy(t, a, d) <=>
         HeldBy(existing, a, d) \/ (d = dev /\ a \in start .. end /\ ~Covered(existing, a))

LEMMA AddPageRangeIs ==
  ASSUME NEW existing, Ordered(existing), NEW start \in Int, NEW end \in Int, start <= end,
         NEW dev \in Int
  PROVE  CoveredBy(AddPageRange(existing, start, end, dev), existing, start, end, dev)
<1> DEFINE gaps == Uncovered(existing, start, end, dev)
           t == AddPageRange(existing, start, end, dev)
<1>1. Fills(gaps, existing, start, end, dev)
  BY UncoveredFills
<1> HIDE DEF gaps
<1>2. Ordered(gaps) /\ gaps \in Seq(Ranges) /\ existing \in Seq(Ranges)
  BY <1>1 DEF Fills, Ordered
<1>3. \A j \in 1 .. Len(gaps) : gaps[j].device = dev /\ start <= gaps[j].start /\ gaps[j].end <= end
  BY <1>1 DEF Fills
<1>4. \A a \in start .. end : Covered(gaps, a) <=> ~Covered(existing, a)
  BY <1>1 DEF Fills
<1>5. ASSUME NEW x, NEW y, Member(existing, x), Member(gaps, y) PROVE Apart(x, y)
  <2>1. PICK i \in 1 .. Len(existing) : existing[i] = x
    BY <1>5 DEF Member
  <2>2. PICK j \in 1 .. Len(gaps) : gaps[j] = y
    BY <1>5 DEF Member
  <2>3. /\ x.start \in Int /\ x.end \in Int /\ y.start \in Int /\ y.end \in Int
        /\ x.start <= x.end /\ y.start <= y.end /\ start <= y.start /\ y.end <= end
    BY <1>2, <1>3, <2>1, <2>2, ElementType DEF Ordered
  <2>4. ASSUME NEW a \in Int, x.start <= a, a <= x.end, y.start <= a, a <= y.end PROVE FALSE
    <3>1. Covered(existing, a)
      BY <2>1, <2>4 DEF Covered, In
    <3>2. Covered(gaps, a)
      BY <2>2, <2>4 DEF Covered, In
    <3>3. a \in start .. end
      BY <2>3, <2>4
    <3> QED
      BY <1>4, <3>1, <3>2, <3>3
  <2>5. CASE x.start <= y.start
    <3>1. ~(y.start <= x.end)
      BY <2>3, <2>4, <2>5
    <3> QED
      BY <2>3, <3>1 DEF Apart
  <2>6. CASE ~(x.start <= y.start)
    <3>1. ~(x.start <= y.end)
      BY <2>3, <2>4, <2>6
    <3> QED
      BY <2>3, <3>1 DEF Apart
  <2> QED
    BY <2>5, <2>6
<1>6. t = Merge(existing, gaps)
  BY DEF AddPageRange, gaps
<1> HIDE DEF t
<1>7. /\ Ordered(t)
      /\ \A x : Member(t, x) <=> Member(existing, x) \/ Member(gaps, x)
  BY <1>2, <1>5, <1>6, MergeIs
<1>8. \A x : Member(gaps, x) => start <= x.start /\ x.end <= end /\ x.device = dev
  BY <1>3 DEF Member
<1>9. ASSUME NEW ranges, NEW a, NEW d
      PROVE  /\ HeldBy(ranges, a, d) <=> \E x : Member(ranges, x) /\ In(x, a) /\ x.device = d
             /\ Covered(ranges, a) <=> \E x : Member(ranges, x) /\ In(x, a)
  BY DEF HeldBy, Member, Covered
<1>10. ASSUME NEW a \in Int PROVE Covered(gaps, a) <=> a \in start .. end /\ ~Covered(existing, a)
  <2>1. ASSUME Covered(gaps, a) PROVE a \in start .. end
    <3>1. PICK j \in 1 .. Len(gaps) : In(gaps[j], a)
      BY <2>1 DEF Covered
    <3>2. gaps[j].start \in Int /\ gaps[j].end \in Int
      BY <1>2, ElementType
    <3> QED
      BY <1>3, <3>1, <3>2 DEF In
  <2> QED
    BY <1>4, <2>1
<1>11. ASSUME NEW a \in Int, NEW d
       PROVE  HeldBy(t, a, d) <=>
                HeldBy(existing, a, d) \/ (d = dev /\ a \in start .. end /\ ~Covered(existing, a))
  <2>1. HeldBy(t, a, d) <=> HeldBy(existing, a, d) \/ HeldBy(gaps, a, d)
    <3>1. HeldBy(t, a, d) <=> \E x : Member(t, x) /\ In(x, a) /\ x.device = d
      BY <1>9
    <3>2. HeldBy(existing, a, d) <=> \E x : Member(existing, x) /\ In(x, a) /\ x.device = d
      BY <1>9
    <3>3. HeldBy(gaps, a, d) <=> \E x : Member(gaps, x) /\ In(x, a) /\ x.device = d
      BY <1>9
    <3> QED
      BY <1>7, <3>1, <3>2, <3>3, Zenon
  <2>2. HeldBy(gaps, a, d) <=> d = dev /\ Covered(gaps, a)
    BY <1>3 DEF HeldBy, Covered
  <2> QED
    BY <1>10, <2>1, <2>2
<1>12. \A x : Member(t, x) => \/ Member(existing, x)
                              \/ start <= x.start /\ x.end <= end /\ x.device = dev
  BY <1>7, <1>8
<1>13. CoveredBy(t, existing, start, end, dev)
  BY <1>7, <1>11, <1>12 DEF CoveredBy
<1> QED
  BY <1>13 DEF t

LEMMA PageFacts ==
  ASSUME NEW a \in Nat
  PROVE  /\ PageOf(a) \in Nat /\ PageSize \in Nat
         /\ PageOf(a) * PageSize \in Nat
         /\ PageOf(a) * PageSize <= a
         /\ a <= PageOf(a) * PageSize + PageSize - 1
<1>1. PageSize \in Nat /\ PageSize > 0
  BY PageAssumption
<1> DEFINE q == a \div PageSize
           m == a % PageSize
<1>2. q \in Nat /\ m \in 0 .. PageSize - 1 /\ a = q * PageSize + m
  BY <1>1
<1> HIDE DEF q, m
<1>3. q * PageSize \in Nat
  BY <1>1, <1>2
<1>4. q * PageSize <= a /\ a <= q * PageSize + PageSize - 1
  BY <1>1, <1>2, <1>3
<1> QED
  BY <1>1, <1>2, <1>3, <1>4 DEF PageOf, q

LEMMA PagesAscend ==
  ASSUME NEW a \in Nat, NEW b \in Nat, a <= b
  PROVE  PageOf(a) <= PageOf(b)
<1> DEFINE p == PageOf(a)
           q == PageOf(b)
<1>1. /\ p \in Nat /\ q \in Nat /\ PageSize \in Nat /\ p * PageSize \in Nat /\ q * PageSize \in Nat
      /\ p * PageSize <= a /\ b <= q * PageSize + PageSize - 1
  BY PageFacts
<1> HIDE DEF p, q
<1>2. SUFFICES ASSUME q + 1 <= p PROVE FALSE
  BY <1>1 DEF p, q
<1>3. (q + 1) * PageSize <= p * PageSize
  BY <1>1, <1>2
<1>4. (q + 1) * PageSize = q * PageSize + PageSize
  BY <1>1
<1> QED
  BY <1>1, <1>3, <1>4

LEMMA PageIn ==
  ASSUME NEW a \in Address
  PROVE  a \in Nat /\ PageOf(a) \in Pages
<1>1. a \in Nat /\ Space - 1 \in Nat /\ a <= Space - 1
  BY SpaceAssumption DEF Address
<1>2. PageOf(a) <= PageOf(Space - 1) /\ PageOf(a) \in Nat /\ PageOf(Space - 1) \in Nat
  BY <1>1, PagesAscend, PageFacts
<1> QED
  BY <1>1, <1>2 DEF Pages, PageOf

(* Device d is the first of the first n that advertises address a.         *)
FirstTo(ds, n, a, d) ==
  d \in 1 .. n /\ Advertises(ds[d], a) /\ \A m \in 1 .. d - 1 : ~Advertises(ds[m], a)

Tables == [Pages -> Seq(Ranges)]

(* After n devices have entered their pages.                               *)
TableInv(table, ds, n) ==
  /\ table \in Tables
  /\ \A page \in Pages :
       /\ Ordered(table[page])
       /\ \A x : Member(table[page], x) =>
            0 <= x.start /\ x.end <= Space - 1 /\ x.device \in 1 .. n
  /\ \A a \in Address : \A d : HeldBy(table[PageOf(a)], a, d) <=> FirstTo(ds, n, a, d)

LEMMA DeviceRange ==
  ASSUME NEW d \in Available
  PROVE  /\ d.first \in Nat /\ RangeEnd(d) \in Int /\ RangeEnd(d) <= Space - 1
         /\ HasRange(d) => d.first <= RangeEnd(d)
<1>1. WellFormed(d)
  BY DevicesAssumption
<1>2. d.first \in Address /\ d.size \in Nat /\ d.first + d.size <= Space
  BY <1>1 DEF WellFormed, Device, End
<1>3. d.first \in Nat /\ Space \in Nat /\ d.first <= Space - 1
  BY <1>2, SpaceAssumption DEF Address
<1>4. RangeEnd(d) = d.first \/ RangeEnd(d) = (d.first + d.size) - 1
  BY DEF RangeEnd, End
<1>5. RangeEnd(d) \in Int /\ RangeEnd(d) <= Space - 1
  BY <1>2, <1>3, <1>4
<1> QED
  BY <1>3, <1>5 DEF HasRange

(* If somebody advertises an address, somebody does so first.              *)
LEMMA FirstExists ==
  ASSUME NEW ds, NEW n \in Nat, NEW a, NEW m \in 1 .. n, Advertises(ds[m], a)
  PROVE  \E e : FirstTo(ds, n, a, e)
<1> DEFINE S == {k \in 1 .. n : Advertises(ds[k], a)}
           e == Min(S)
<1>1. S \in SUBSET Nat /\ S # {}
  OBVIOUS
<1>2. e \in S /\ \A y \in S : e <= y
  <2> HIDE DEF S
  <2> QED
    BY <1>1, LeastElement
<1>3. e \in 1 .. n /\ Advertises(ds[e], a)
  BY <1>2
<1> HIDE DEF e
<1>4. ASSUME NEW k \in 1 .. e - 1 PROVE ~Advertises(ds[k], a)
  <2>1. k \in 1 .. n /\ ~(e <= k)
    BY <1>3
  <2> QED
    BY <1>2, <2>1
<1>5. FirstTo(ds, n, a, e)
  BY <1>3, <1>4 DEF FirstTo
<1> QED
  BY <1>5

LEMMA EnterStep ==
  ASSUME NEW ds \in Seq(Available), NEW n \in 1 .. Len(ds), NEW table, TableInv(table, ds, n - 1)
  PROVE  TableInv(EnterDevice(table, ds, n), ds, n)
<1> DEFINE start == ds[n].first
           end == RangeEnd(ds[n])
           t == EnterDevice(table, ds, n)
           Enters(page) == HasRange(ds[n]) /\ PageOf(start) <= page /\ page <= PageOf(end)
           low(page) == Max({start, page * PageSize})
           high(page) == Min({end, page * PageSize + PageSize - 1})
<1>0. Len(ds) \in Nat /\ n \in Nat /\ Space \in Nat /\ PageSize \in Nat /\ n - 1 \in Nat
  BY SpaceAssumption, PageAssumption
<1>1. ds[n] \in Available
  OBVIOUS
<1>2. start \in Nat /\ end \in Int /\ end <= Space - 1 /\ (HasRange(ds[n]) => start <= end)
  BY <1>1, DeviceRange
<1>3. table \in [Pages -> Seq(Ranges)]
  BY DEF TableInv, Tables
<1>4. \A page \in Pages : t[page] = IF Enters(page) THEN AddPageRange(table[page], low(page), high(page), n)
                                    ELSE table[page]
  BY DEF EnterDevice
<1>5. DOMAIN t = Pages /\ t = [page \in Pages |-> t[page]]
  BY DEF EnterDevice
<1>a. \A a : Advertises(ds[n], a) <=> HasRange(ds[n]) /\ start <= a /\ a <= end
  BY DEF Advertises
<1> HIDE DEF t, start, end
<1>6. ASSUME NEW page \in Pages, Enters(page)
      PROVE  /\ page \in Nat /\ page * PageSize \in Nat
             /\ low(page) \in Int /\ high(page) \in Int /\ low(page) <= high(page)
             /\ 0 <= low(page) /\ high(page) <= Space - 1
             /\ \A a \in Int : a \in low(page) .. high(page) <=>
                  /\ start <= a /\ a <= end
                  /\ page * PageSize <= a /\ a <= page * PageSize + PageSize - 1
  <2>1. start <= end /\ end \in Nat
    BY <1>2, <1>6
  <2>2. /\ PageOf(start) \in Nat /\ PageOf(end) \in Nat
        /\ PageOf(start) * PageSize \in Nat /\ PageOf(end) * PageSize \in Nat
        /\ start <= PageOf(start) * PageSize + PageSize - 1
        /\ PageOf(end) * PageSize <= end
    BY <1>2, <2>1, PageFacts
  <2>3. page \in Nat
    BY <1>0 DEF Pages
  <2>4. \A p, q \in Nat : p <= q => p * PageSize <= q * PageSize /\ p * PageSize \in Nat /\ q * PageSize \in Nat
    BY <1>0
  <2>5. /\ page * PageSize \in Nat /\ PageOf(start) * PageSize <= page * PageSize
        /\ page * PageSize <= PageOf(end) * PageSize
    BY <1>6, <2>2, <2>3, <2>4
  <2> DEFINE b == page * PageSize
  <2>6. b \in Nat /\ b <= end /\ start <= b + PageSize - 1
    BY <1>0, <1>2, <2>1, <2>2, <2>5, SMTT(40)
  <2> HIDE DEF b
  <2>7. b + PageSize - 1 \in Int /\ PageSize > 0
    BY <1>0, <2>6, PageAssumption
  <2>8. low(page) = IF start <= b THEN b ELSE start
    <3>1. Max({start, b}) = IF start <= b THEN b ELSE start
      <4>1. start \in Int /\ b \in Int
        BY <1>2, <2>6
      <4> QED
        BY <4>1, LeastOfTwo, Zenon
    <3> QED
      BY <3>1 DEF b
  <2>9. high(page) = IF end <= b + PageSize - 1 THEN end ELSE b + PageSize - 1
    <3>1. Min({end, b + PageSize - 1}) = IF end <= b + PageSize - 1 THEN end ELSE b + PageSize - 1
      BY <2>1, <2>7, LeastOfTwo
    <3> QED
      BY <3>1 DEF b
  <2> DEFINE l == low(page)
             h == high(page)
  <2> HIDE DEF l, h
  <2>10. l = (IF start <= b THEN b ELSE start) /\ h = IF end <= b + PageSize - 1 THEN end ELSE b + PageSize - 1
    BY <2>8, <2>9 DEF l, h
  <2>11. l \in Int /\ h \in Int /\ l <= h /\ 0 <= l /\ h <= Space - 1
    BY <1>0, <1>2, <2>1, <2>6, <2>7, <2>10
  <2>12. ASSUME NEW a \in Int
         PROVE  a \in l .. h <=> start <= a /\ a <= end /\ b <= a /\ a <= b + PageSize - 1
    BY <1>0, <1>2, <2>1, <2>6, <2>7, <2>10, <2>11
  <2> QED
    BY <2>3, <2>6, <2>11, <2>12 DEF l, h, b
<1> HIDE DEF low, high
<1>7. ASSUME NEW page \in Pages PROVE t[page] \in Seq(Ranges) /\ Ordered(t[page])
  <2>1. CASE Enters(page)
    <3>1. Ordered(table[page])
      BY DEF TableInv
    <3>2. CoveredBy(AddPageRange(table[page], low(page), high(page), n), table[page], low(page), high(page), n)
      BY <1>0, <1>6, <2>1, <3>1, AddPageRangeIs
    <3> QED
      BY <1>4, <2>1, <3>2 DEF CoveredBy, Ordered
  <2>2. CASE ~Enters(page)
    BY <1>3, <1>4, <2>2 DEF TableInv
  <2> QED
    BY <2>1, <2>2
<1>8. t \in Tables
  BY <1>5, <1>7 DEF Tables
<1>9. ASSUME NEW page \in Pages, NEW x, Member(t[page], x)
      PROVE  0 <= x.start /\ x.end <= Space - 1 /\ x.device \in 1 .. n
  <2>0. ASSUME Member(table[page], x) PROVE 0 <= x.start /\ x.end <= Space - 1 /\ x.device \in 1 .. n
    <3>1. 0 <= x.start /\ x.end <= Space - 1 /\ x.device \in 1 .. n - 1
      BY <2>0 DEF TableInv
    <3> QED
      BY <1>0, <3>1
  <2>1. CASE Enters(page)
    <3>1. Ordered(table[page])
      BY DEF TableInv
    <3>2. CoveredBy(t[page], table[page], low(page), high(page), n)
      BY <1>0, <1>4, <1>6, <2>1, <3>1, AddPageRangeIs
    <3>3. Member(table[page], x) \/ (low(page) <= x.start /\ x.end <= high(page) /\ x.device = n)
      BY <1>9, <3>2 DEF CoveredBy
    <3>4. x.start \in Int /\ x.end \in Int
      BY <1>7, <1>9, ElementType DEF Member
    <3>5. low(page) <= x.start => 0 <= x.start
      BY <1>6, <2>1, <3>4
    <3>6. x.end <= high(page) => x.end <= Space - 1
      BY <1>0, <1>6, <2>1, <3>4
    <3> QED
      BY <1>0, <2>0, <3>3, <3>5, <3>6
  <2>2. CASE ~Enters(page)
    BY <1>4, <1>9, <2>0, <2>2
  <2> QED
    BY <2>1, <2>2
<1>10. ASSUME NEW a \in Address, NEW d
       PROVE  HeldBy(t[PageOf(a)], a, d) <=> FirstTo(ds, n, a, d)
  <2> DEFINE page == PageOf(a)
  <2>1. a \in Nat /\ page \in Pages
    BY PageIn
  <2>2. /\ page \in Nat /\ page * PageSize <= a /\ a <= page * PageSize + PageSize - 1
    BY <2>1, PageFacts
  <2>3. HeldBy(table[page], a, d) <=> FirstTo(ds, n - 1, a, d)
    BY DEF TableInv
  <2>4. Covered(table[page], a) <=> \E m \in 1 .. n - 1 : Advertises(ds[m], a)
    <3>1. Covered(table[page], a) <=> \E e : FirstTo(ds, n - 1, a, e)
      <4>1. Covered(table[page], a) <=> \E e : HeldBy(table[page], a, e)
        BY DEF Covered, HeldBy
      <4>2. \A e : HeldBy(table[page], a, e) <=> FirstTo(ds, n - 1, a, e)
        BY DEF TableInv
      <4> QED
        BY <4>1, <4>2
    <3>2. ASSUME NEW m \in 1 .. n - 1, Advertises(ds[m], a) PROVE \E e : FirstTo(ds, n - 1, a, e)
      BY <1>0, <3>2, FirstExists
    <3>3. \A e : FirstTo(ds, n - 1, a, e) => \E m \in 1 .. n - 1 : Advertises(ds[m], a)
      BY DEF FirstTo
    <3> QED
      BY <3>1, <3>2, <3>3
  <2>5. FirstTo(ds, n, a, d) <=> \/ FirstTo(ds, n - 1, a, d)
                                 \/ /\ d = n /\ Advertises(ds[n], a)
                                    /\ ~\E m \in 1 .. n - 1 : Advertises(ds[m], a)
    <3>1. d \in 1 .. n <=> d \in 1 .. n - 1 \/ d = n
      BY <1>0
    <3>2. n \notin 1 .. n - 1
      BY <1>0
    <3> QED
      BY <3>1, <3>2 DEF FirstTo
  <2>6. CASE Enters(page)
    <3>1. Ordered(table[page])
      BY <2>1 DEF TableInv
    <3>2. t[page] = AddPageRange(table[page], low(page), high(page), n)
      BY <1>4, <2>1, <2>6
    <3>3. HeldBy(t[page], a, d) <=>
            HeldBy(table[page], a, d) \/ (d = n /\ a \in low(page) .. high(page) /\ ~Covered(table[page], a))
      <4>1. low(page) \in Int /\ high(page) \in Int /\ low(page) <= high(page) /\ n \in Int /\ a \in Int
        BY <1>0, <1>6, <2>1, <2>6
      <4> HIDE DEF page
      <4>2. CoveredBy(t[page], table[page], low(page), high(page), n)
        BY <3>1, <3>2, <4>1, AddPageRangeIs
      <4> QED
        BY <4>1, <4>2 DEF CoveredBy
    <3>4. a \in low(page) .. high(page) <=> Advertises(ds[n], a)
      <4>1. a \in low(page) .. high(page) <=>
              /\ start <= a /\ a <= end
              /\ page * PageSize <= a /\ a <= page * PageSize + PageSize - 1
        BY <1>6, <2>1, <2>6
      <4> QED
        BY <1>a, <2>2, <2>6, <4>1
    <3> HIDE DEF page
    <3>5. HeldBy(t[page], a, d) <=> FirstTo(ds, n, a, d)
      BY <2>3, <2>4, <2>5, <3>3, <3>4, Zenon
    <3> QED
      BY <3>5 DEF page
  <2>7. CASE ~Enters(page)
    <3>1. t[page] = table[page]
      BY <1>4, <2>1, <2>7
    <3>2. ~Advertises(ds[n], a)
      <4> SUFFICES ASSUME Advertises(ds[n], a) PROVE FALSE
        OBVIOUS
      <4>1. HasRange(ds[n]) /\ start <= a /\ a <= end
        BY <1>a
      <4>2. end \in Nat
        BY <1>2, <2>1, <4>1
      <4>3. PageOf(start) <= page /\ page <= PageOf(end)
        BY <1>2, <2>1, <4>1, <4>2, PagesAscend
      <4> QED
        BY <2>7, <4>1, <4>3
    <3> HIDE DEF page
    <3>3. HeldBy(t[page], a, d) <=> FirstTo(ds, n, a, d)
      BY <2>3, <2>5, <3>1, <3>2, Zenon
    <3> QED
      BY <3>3 DEF page
  <2> QED
    BY <2>6, <2>7
<1>11. TableInv(t, ds, n)
  BY <1>7, <1>8, <1>9, <1>10 DEF TableInv
<1> QED
  BY <1>11 DEF t

TableOf(g, ds) ==
  /\ g[0] = [page \in Pages |-> <<>>]
  /\ \A n \in 1 .. Len(ds) : g[n] = EnterDevice(g[n - 1], ds, n)
  /\ PageTable(ds) = g[Len(ds)]

LEMMA EnterType ==
  ASSUME NEW ds \in Seq(Available), NEW n \in 1 .. Len(ds), NEW table \in Tables
  PROVE  EnterDevice(table, ds, n) \in Tables
<1> DEFINE start == ds[n].first
           end == RangeEnd(ds[n])
           low(page) == Max({start, page * PageSize})
           high(page) == Min({end, page * PageSize + PageSize - 1})
<1>1. ds[n] \in Available
  OBVIOUS
<1>2. start \in Int /\ end \in Int /\ n \in Int
  BY <1>1, DeviceRange
<1> HIDE DEF start, end
<1>3. ASSUME NEW page \in Pages
      PROVE  AddPageRange(table[page], low(page), high(page), n) \in Seq(Ranges)
  <2> DEFINE b == page * PageSize
             c == page * PageSize + PageSize - 1
  <2>1. b \in Int /\ c \in Int
    BY PageAssumption DEF Pages
  <2> HIDE DEF b, c
  <2>2. Max({start, b}) \in Int /\ Min({end, c}) \in Int
    <3>1. Max({start, b}) = (IF start <= b THEN b ELSE start) /\ Min({end, c}) = (IF end <= c THEN end ELSE c)
      BY <1>2, <2>1, LeastOfTwo, Zenon
    <3> QED
      BY <1>2, <2>1, <3>1
  <2>3. low(page) \in Int /\ high(page) \in Int
    BY <2>2 DEF b, c
  <2> HIDE DEF low, high
  <2>4. table[page] \in Seq(Ranges)
    BY DEF Tables
  <2>5. Uncovered(table[page], low(page), high(page), n) \in Seq(Ranges)
    BY <1>2, <2>3, <2>4, UncoveredType
  <2> QED
    BY <2>4, <2>5, MergeType DEF AddPageRange
<1>4. \A page \in Pages :
        (IF HasRange(ds[n]) /\ PageOf(ds[n].first) <= page /\ page <= PageOf(RangeEnd(ds[n]))
         THEN AddPageRange(table[page], Max({ds[n].first, page * PageSize}),
                           Min({RangeEnd(ds[n]), page * PageSize + PageSize - 1}), n)
         ELSE table[page]) \in Seq(Ranges)
  BY <1>3 DEF Tables, start, end
<1> QED
  BY <1>4 DEF EnterDevice, Tables

LEMMA TableRounds ==
  ASSUME NEW ds \in Seq(Available)
  PROVE  \E g : TableOf(g, ds)
<1> DEFINE N == Len(ds)
           first == [page \in Pages |-> <<>>]
           F == [x \in (1 .. N) \X Tables |-> EnterDevice(x[2], ds, x[1])]
           unfold(g) == [n \in 0 .. N |-> IF n = 0 THEN first ELSE EnterDevice(g[n - 1], ds, n)]
<1>1. N \in Nat
  OBVIOUS
<1>2. first \in Tables
  BY DEF Tables
<1>3. F \in [(1 .. N) \X Tables -> Tables]
  <2>1. ASSUME NEW x \in (1 .. N) \X Tables PROVE EnterDevice(x[2], ds, x[1]) \in Tables
    <3>1. x[2] \in Tables /\ x[1] \in 1 .. Len(ds)
      OBVIOUS
    <3> QED
      BY <3>1, EnterType
  <2> QED
    BY <2>1
<1>4. \A n \in 1 .. N, s \in Tables : F[n, s] = EnterDevice(s, ds, n)
  OBVIOUS
<1>5. \E f \in [0 .. N -> Tables] : Rounds(f, F, first, N)
  <2> HIDE DEF F, N, first
  <2> QED
    BY <1>1, <1>2, <1>3, RoundsExist
<1>6. \E f : f = unfold(f)
  <2>1. PICK f \in [0 .. N -> Tables] : Rounds(f, F, first, N)
    BY <1>5
  <2> HIDE DEF F
  <2>2. \A n \in 1 .. N : n - 1 \in 0 .. N /\ f[n - 1] \in Tables
    BY <1>1
  <2>3. \A n \in 0 .. N : n # 0 => n \in 1 .. N
    BY <1>1
  <2>4. f = [n \in 0 .. N |-> IF n = 0 THEN first ELSE F[n, f[n - 1]]]
    BY <2>1 DEF Rounds
  <2> HIDE DEF first
  <2>5. \A n \in 0 .. N : (IF n = 0 THEN first ELSE F[n, f[n - 1]]) =
                          IF n = 0 THEN first ELSE EnterDevice(f[n - 1], ds, n)
    BY <1>4, <2>2, <2>3
  <2> QED
    BY <2>4, <2>5
<1> DEFINE g == CHOOSE f : f = unfold(f)
<1>7. g = unfold(g)
  <2> HIDE DEF unfold
  <2> QED
    BY <1>6
<1>8. PageTable(ds) = g[N]
  BY Zenon DEF PageTable, Loop
<1> HIDE DEF g
<1>9. /\ g[0] = first
      /\ \A n \in 1 .. N : g[n] = EnterDevice(g[n - 1], ds, n)
  BY <1>1, <1>7
<1>10. TableOf(g, ds)
  BY <1>8, <1>9 DEF TableOf
<1> QED
  BY <1>10

(* The table says of every address who is the first to advertise it.       *)
LEMMA PageTableIs ==
  ASSUME NEW ds \in Seq(Available)
  PROVE  TableInv(PageTable(ds), ds, Len(ds))
<1> DEFINE N == Len(ds)
           Holds(t, n) == TableInv(t, ds, n)
<1>1. N \in Nat
  OBVIOUS
<1>2. PICK g : TableOf(g, ds)
  BY TableRounds
<1>3. Holds(g[0], 0)
  <2> DEFINE t == [page \in Pages |-> <<>>]
  <2>1. t \in Tables /\ \A page \in Pages : t[page] = <<>>
    BY DEF Tables
  <2>2. Ordered(<<>>) /\ Len(<<>>) = 0
    BY DEF Ordered
  <2>3. \A k \in 1 .. 0 : FALSE
    OBVIOUS
  <2> HIDE DEF t
  <2>4. \A page \in Pages : Ordered(t[page]) /\ \A x : ~Member(t[page], x)
    BY <2>1, <2>2, <2>3 DEF Member
  <2>5. ASSUME NEW a \in Address, NEW d PROVE ~HeldBy(t[PageOf(a)], a, d) /\ ~FirstTo(ds, 0, a, d)
    <3>1. t[PageOf(a)] = <<>>
      BY <2>1, PageIn
    <3> QED
      BY <2>2, <2>3, <3>1 DEF HeldBy, FirstTo
  <2>6. TableInv(t, ds, 0)
    BY <2>1, <2>4, <2>5 DEF TableInv
  <2> QED
    BY <1>2, <2>6 DEF TableOf, t
<1>4. ASSUME NEW n \in 1 .. N, Holds(g[n - 1], n - 1) PROVE Holds(g[n], n)
  <2>1. Holds(EnterDevice(g[n - 1], ds, n), n)
    BY <1>4, EnterStep
  <2>2. g[n] = EnterDevice(g[n - 1], ds, n)
    BY <1>2 DEF TableOf
  <2> QED
    BY <2>1, <2>2
<1>5. \A n \in 0 .. N : Holds(g[n], n)
  <2> DEFINE P == {n \in 0 .. N : Holds(g[n], n)}
  <2> HIDE DEF Holds
  <2>1. 0 \in P
    BY <1>1, <1>3
  <2>2. ASSUME NEW n \in 0 .. N - 1, n \in P PROVE n + 1 \in P
    <3>1. n + 1 \in 1 .. N /\ n + 1 - 1 = n /\ n + 1 \in 0 .. N
      BY <1>1
    <3>2. Holds(g[n], n)
      BY <2>2
    <3>3. Holds(g[n + 1], n + 1)
      BY <1>4, <3>1, <3>2
    <3> QED
      BY <3>1, <3>3
  <2>3. \A n \in 0 .. N : n \in P
    <3> HIDE DEF P
    <3> QED
      BY <1>1, <2>1, <2>2, UpTo
  <2> QED
    BY <2>3
<1> QED
  BY <1>1, <1>2, <1>5 DEF TableOf

-----------------------------------------------------------------------------
\* The binary search.

Windows(ranges) == [lo : 0 .. Len(ranges), hi : 0 .. Len(ranges), device : Int]

SearchOf(g, ranges, a) ==
  /\ g[0] = [lo |-> 0, hi |-> Len(ranges), device |-> 0]
  /\ \A n \in 1 .. Len(ranges) : g[n] = Halve(g[n - 1], ranges, a)
  /\ FindPageMappedDevice(ranges, a) = g[Len(ranges)].device

(* Where a round looks.                                                    *)
Middle(w) == w.lo + (w.hi - w.lo) \div 2

LEMMA MiddleIs ==
  ASSUME NEW ranges \in Seq(Ranges), NEW w \in Windows(ranges), w.lo < w.hi
  PROVE  /\ Middle(w) \in Int /\ w.lo <= Middle(w) /\ Middle(w) < w.hi
         /\ Middle(w) \in 0 .. Len(ranges) /\ Middle(w) + 1 \in 1 .. Len(ranges)
<1> DEFINE lo == w.lo
           hi == w.hi
           L == Len(ranges)
<1>1. L \in Nat /\ lo \in 0 .. L /\ hi \in 0 .. L
  BY DEF Windows
<1>2. lo < hi
  OBVIOUS
<1> HIDE DEF lo, hi, L
<1>3. (hi - lo) \div 2 \in Int /\ 0 <= (hi - lo) \div 2 /\ (hi - lo) \div 2 < hi - lo
  BY <1>1, <1>2
<1> DEFINE m == lo + (hi - lo) \div 2
<1>4. m \in Int /\ lo <= m /\ m < hi
  BY <1>1, <1>3
<1> HIDE DEF m
<1>5. m \in 0 .. L /\ m + 1 \in 1 .. L
  BY <1>1, <1>4
<1> QED
  BY <1>4, <1>5 DEF m, lo, hi, L, Middle

LEMMA HalveIs ==
  ASSUME NEW ranges \in Seq(Ranges), NEW w \in Windows(ranges), NEW a
  PROVE  Halve(w, ranges, a) =
           IF w.lo >= w.hi \/ w.device # 0 THEN w
           ELSE IF a < ranges[Middle(w) + 1].start THEN [w EXCEPT !.hi = Middle(w)]
           ELSE IF a > ranges[Middle(w) + 1].end THEN [w EXCEPT !.lo = Middle(w) + 1]
           ELSE [w EXCEPT !.device = ranges[Middle(w) + 1].device]
  BY Zenon DEF Halve, Middle

LEMMA HalveType ==
  ASSUME NEW ranges \in Seq(Ranges), NEW w \in Windows(ranges), NEW a \in Int
  PROVE  Halve(w, ranges, a) \in Windows(ranges)
<1> DEFINE m == Middle(w)
<1>1. w.lo \in Int /\ w.hi \in Int
  BY DEF Windows
<1>2. CASE w.lo >= w.hi \/ w.device # 0
  BY <1>2, HalveIs
<1>3. CASE ~(w.lo >= w.hi \/ w.device # 0)
  <2>1. m \in 0 .. Len(ranges) /\ m + 1 \in 1 .. Len(ranges) /\ m + 1 \in 0 .. Len(ranges)
    BY <1>1, <1>3, MiddleIs
  <2>2. ranges[m + 1].device \in Int
    BY <2>1, ElementType
  <2> HIDE DEF m
  <2>3. /\ [w EXCEPT !.hi = m] \in Windows(ranges)
        /\ [w EXCEPT !.lo = m + 1] \in Windows(ranges)
        /\ [w EXCEPT !.device = ranges[m + 1].device] \in Windows(ranges)
    BY <2>1, <2>2 DEF Windows
  <2> QED
    BY <1>3, <2>3, HalveIs DEF m
<1> QED
  BY <1>2, <1>3

LEMMA SearchRounds ==
  ASSUME NEW ranges \in Seq(Ranges), NEW a \in Int
  PROVE  \E g : SearchOf(g, ranges, a)
<1> DEFINE N == Len(ranges)
           S == Windows(ranges)
           first == [lo |-> 0, hi |-> N, device |-> 0]
           F == [x \in (1 .. N) \X S |-> Halve(x[2], ranges, a)]
           unfold(g) == [n \in 0 .. N |-> IF n = 0 THEN first ELSE Halve(g[n - 1], ranges, a)]
<1>1. N \in Nat
  OBVIOUS
<1>2. first \in S
  BY DEF Windows
<1>3. F \in [(1 .. N) \X S -> S]
  <2>1. ASSUME NEW x \in (1 .. N) \X S PROVE Halve(x[2], ranges, a) \in S
    <3>1. x[2] \in Windows(ranges)
      OBVIOUS
    <3> QED
      BY <3>1, HalveType
  <2> QED
    BY <2>1
<1>4. \A n \in 1 .. N, s \in S : F[n, s] = Halve(s, ranges, a)
  OBVIOUS
<1>5. \E f \in [0 .. N -> S] : Rounds(f, F, first, N)
  <2> HIDE DEF F, N, first, S
  <2> QED
    BY <1>1, <1>2, <1>3, RoundsExist
<1>6. \E f : f = unfold(f)
  <2>1. PICK f \in [0 .. N -> S] : Rounds(f, F, first, N)
    BY <1>5
  <2> HIDE DEF F, S
  <2>2. \A n \in 1 .. N : n - 1 \in 0 .. N /\ f[n - 1] \in S
    BY <1>1
  <2>3. \A n \in 0 .. N : n # 0 => n \in 1 .. N
    BY <1>1
  <2>4. f = [n \in 0 .. N |-> IF n = 0 THEN first ELSE F[n, f[n - 1]]]
    BY <2>1 DEF Rounds
  <2> HIDE DEF first
  <2>5. \A n \in 0 .. N : (IF n = 0 THEN first ELSE F[n, f[n - 1]]) =
                          IF n = 0 THEN first ELSE Halve(f[n - 1], ranges, a)
    BY <1>4, <2>2, <2>3
  <2> QED
    BY <2>4, <2>5
<1> DEFINE g == CHOOSE f : f = unfold(f)
<1>7. g = unfold(g)
  <2> HIDE DEF unfold
  <2> QED
    BY <1>6
<1>8. FindPageMappedDevice(ranges, a) = g[N].device
  BY Zenon DEF FindPageMappedDevice, Loop
<1> HIDE DEF g
<1>9. /\ g[0] = first
      /\ \A n \in 1 .. N : g[n] = Halve(g[n - 1], ranges, a)
  BY <1>1, <1>7
<1>10. SearchOf(g, ranges, a)
  BY <1>8, <1>9 DEF SearchOf
<1> QED
  BY <1>10

(* After n rounds at least n ranges are out, and none of them holds a.     *)
SearchInv(w, n, ranges, a) ==
  /\ w \in Windows(ranges) /\ w.lo <= w.hi
  /\ w.device # 0 => HeldBy(ranges, a, w.device)
  /\ w.device = 0 => /\ w.hi - w.lo <= Len(ranges) - n
                     /\ \A i \in 1 .. Len(ranges) : In(ranges[i], a) => w.lo < i /\ i <= w.hi

LEMMA SearchStep ==
  ASSUME NEW ranges, Ordered(ranges), \A i \in 1 .. Len(ranges) : ranges[i].device # 0,
         NEW a \in Int, NEW n \in 1 .. Len(ranges), NEW w, SearchInv(w, n - 1, ranges, a)
  PROVE  SearchInv(Halve(w, ranges, a), n, ranges, a)
<1> DEFINE m == Middle(w)
           v == Halve(w, ranges, a)
           L == Len(ranges)
<1>1. ranges \in Seq(Ranges) /\ L \in Nat
  BY DEF Ordered
<1>2. w \in Windows(ranges) /\ w.lo \in 0 .. L /\ w.hi \in 0 .. L /\ w.lo <= w.hi /\ w.device \in Int
  BY DEF SearchInv, Windows
<1>3. v \in Windows(ranges)
  BY <1>1, <1>2, HalveType
<1>4. \A i \in 1 .. L : ranges[i].start \in Int /\ ranges[i].end \in Int /\ ranges[i].start <= ranges[i].end
  BY <1>1, ElementType DEF Ordered
<1>h. v = IF w.lo >= w.hi \/ w.device # 0 THEN w
          ELSE IF a < ranges[m + 1].start THEN [w EXCEPT !.hi = m]
          ELSE IF a > ranges[m + 1].end THEN [w EXCEPT !.lo = m + 1]
          ELSE [w EXCEPT !.device = ranges[m + 1].device]
  BY <1>1, <1>2, HalveIs
<1> SUFFICES SearchInv(v, n, ranges, a)
  OBVIOUS
<1> HIDE DEF v
<1>5. CASE w.device # 0
  BY <1>5, <1>h DEF SearchInv
<1>6. CASE w.device = 0 /\ w.lo >= w.hi
  <2>1. v = w
    BY <1>6, <1>h
  <2>2. w.hi - w.lo <= L - n
    BY <1>1, <1>2, <1>6
  <2> QED
    BY <1>6, <2>1, <2>2 DEF SearchInv
<1>7. CASE w.device = 0 /\ ~(w.lo >= w.hi)
  <2>0. w.lo < w.hi
    BY <1>2, <1>7
  <2>1. m \in Int /\ w.lo <= m /\ m < w.hi /\ m + 1 \in 1 .. L
    BY <1>1, <1>2, <2>0, MiddleIs
  <2> HIDE DEF m
  <2> DEFINE r == ranges[m + 1]
  <2>2. r.start \in Int /\ r.end \in Int /\ r.start <= r.end /\ r.device # 0
    BY <1>4, <2>1
  <2>3. \A i \in 1 .. L : i < m + 1 => ranges[i].end < r.start
    BY <2>1 DEF Ordered
  <2>4. \A i \in 1 .. L : m + 1 < i => r.end < ranges[i].start
    BY <2>1 DEF Ordered
  <2>5. /\ w.hi - w.lo <= L - (n - 1)
        /\ \A i \in 1 .. L : In(ranges[i], a) => w.lo < i /\ i <= w.hi
    BY <1>7 DEF SearchInv
  <2> HIDE DEF r
  <2>6. CASE a < r.start
    <3>1. v = [w EXCEPT !.hi = m]
      BY <1>7, <1>h, <2>6 DEF r
    <3>2. v.lo = w.lo /\ v.hi = m /\ v.device = 0
      BY <1>2, <1>7, <3>1 DEF Windows
    <3>3. m - w.lo <= L - n
      BY <1>1, <1>2, <2>1, <2>5
    <3>4. ASSUME NEW i \in 1 .. L, In(ranges[i], a) PROVE w.lo < i /\ i <= m
      <4>1. ~(m + 1 < i)
        BY <1>4, <2>2, <2>4, <2>6, <3>4 DEF In
      <4>2. i # m + 1
        BY <2>2, <2>6, <3>4 DEF In, r
      <4> QED
        BY <2>1, <2>5, <3>4, <4>1, <4>2
    <3> QED
      BY <1>3, <2>1, <3>2, <3>3, <3>4 DEF SearchInv
  <2>7. CASE ~(a < r.start) /\ a > r.end
    <3>1. v = [w EXCEPT !.lo = m + 1]
      BY <1>7, <1>h, <2>7 DEF r
    <3>2. v.lo = m + 1 /\ v.hi = w.hi /\ v.device = 0
      BY <1>2, <1>7, <3>1 DEF Windows
    <3>3. w.hi - (m + 1) <= L - n /\ m + 1 <= w.hi
      BY <1>1, <1>2, <2>1, <2>5, SMTT(40)
    <3>4. ASSUME NEW i \in 1 .. L, In(ranges[i], a) PROVE m + 1 < i /\ i <= w.hi
      <4>1. ~(i < m + 1) /\ i # m + 1
        BY <1>4, <2>2, <2>3, <2>7, <3>4 DEF In, r
      <4> QED
        BY <2>1, <2>5, <3>4, <4>1
    <3> QED
      BY <1>3, <3>2, <3>3, <3>4 DEF SearchInv
  <2>8. CASE ~(a < r.start) /\ ~(a > r.end)
    <3>1. v = [w EXCEPT !.device = r.device]
      BY <1>7, <1>h, <2>8 DEF r
    <3>2. v.lo = w.lo /\ v.hi = w.hi /\ v.device = r.device
      BY <1>2, <3>1 DEF Windows
    <3>3. In(r, a)
      BY <2>2, <2>8 DEF In
    <3>4. HeldBy(ranges, a, v.device)
      BY <2>1, <3>2, <3>3 DEF HeldBy, r
    <3> QED
      BY <1>2, <1>3, <2>2, <3>2, <3>4 DEF SearchInv
  <2> QED
    BY <2>6, <2>7, <2>8
<1> QED
  BY <1>2, <1>5, <1>6, <1>7

(* The search finds the range that holds an address, if there is one.      *)
LEMMA SearchIs ==
  ASSUME NEW ranges, Ordered(ranges), \A i \in 1 .. Len(ranges) : ranges[i].device # 0,
         NEW a \in Int
  PROVE  LET found == FindPageMappedDevice(ranges, a)
         IN  IF found # 0 THEN HeldBy(ranges, a, found) ELSE ~Covered(ranges, a)
<1> DEFINE N == Len(ranges)
           Holds(w, n) == SearchInv(w, n, ranges, a)
<1>1. ranges \in Seq(Ranges) /\ N \in Nat
  BY DEF Ordered
<1>2. PICK g : SearchOf(g, ranges, a)
  BY <1>1, SearchRounds
<1>3. Holds(g[0], 0)
  <2> DEFINE w == [lo |-> 0, hi |-> N, device |-> 0]
  <2>1. w \in Windows(ranges) /\ w.lo = 0 /\ w.hi = N /\ w.device = 0
    BY <1>1 DEF Windows
  <2> HIDE DEF w
  <2>2. SearchInv(w, 0, ranges, a)
    BY <1>1, <2>1 DEF SearchInv
  <2> QED
    BY <1>2, <2>2 DEF SearchOf, w
<1>4. ASSUME NEW n \in 1 .. N, Holds(g[n - 1], n - 1) PROVE Holds(g[n], n)
  <2>1. Holds(Halve(g[n - 1], ranges, a), n)
    BY <1>4, SearchStep
  <2>2. g[n] = Halve(g[n - 1], ranges, a)
    BY <1>2 DEF SearchOf
  <2> QED
    BY <2>1, <2>2
<1>5. \A n \in 0 .. N : Holds(g[n], n)
  <2> DEFINE P == {n \in 0 .. N : Holds(g[n], n)}
  <2> HIDE DEF Holds
  <2>1. 0 \in P
    BY <1>1, <1>3
  <2>2. ASSUME NEW n \in 0 .. N - 1, n \in P PROVE n + 1 \in P
    <3>1. n + 1 \in 1 .. N /\ n + 1 - 1 = n /\ n + 1 \in 0 .. N
      BY <1>1
    <3>2. Holds(g[n], n)
      BY <2>2
    <3>3. Holds(g[n + 1], n + 1)
      BY <1>4, <3>1, <3>2
    <3> QED
      BY <3>1, <3>3
  <2>3. \A n \in 0 .. N : n \in P
    <3> HIDE DEF P
    <3> QED
      BY <1>1, <2>1, <2>2, UpTo
  <2> QED
    BY <2>3
<1> DEFINE w == g[N]
<1>6. Holds(w, N) /\ FindPageMappedDevice(ranges, a) = w.device
  BY <1>1, <1>2, <1>5 DEF SearchOf
<1> HIDE DEF w
<1>7. CASE w.device # 0
  BY <1>6, <1>7 DEF SearchInv
<1>8. CASE w.device = 0
  <2>1. w.lo \in Int /\ w.hi \in Int /\ w.lo <= w.hi /\ w.hi - w.lo <= N - N
    BY <1>6, <1>8 DEF SearchInv, Windows
  <2>2. w.lo = w.hi
    BY <1>1, <2>1
  <2>3. \A i \in 1 .. N : ~In(ranges[i], a)
    BY <1>1, <1>6, <1>8, <2>1, <2>2 DEF SearchInv
  <2> QED
    BY <1>6, <1>8, <2>3 DEF Covered
<1> QED
  BY <1>7, <1>8
-----------------------------------------------------------------------------
\* Lookups.

(* What lookups rest on: the table, the flag and the single device are     *)
(* those of the devices attached.                                          *)
IndexExact ==
  /\ devices \in Seq(Available)
  /\ singleRAM # 0 => Len(devices) = 1
  /\ singleRAM \in {0, 1}
  /\ singleDevice = IF Len(devices) = 1 THEN 1 ELSE 0
  /\ (\E i \in DOMAIN devices : HasRange(devices[i])) => hasPageMap
  /\ pageRanges = PageTable(devices)

LEMMA TableOfNone == PageTable(<<>>) = [page \in Pages |-> <<>>]
<1>1. <<>> \in Seq(Available) /\ Len(<<>>) = 0
  OBVIOUS
<1>2. PICK g : TableOf(g, <<>>)
  BY <1>1, TableRounds
<1> QED
  BY <1>1, <1>2 DEF TableOf

LEMMA InitIndex == Init => IndexExact
<1> SUFFICES ASSUME Init PROVE IndexExact
  OBVIOUS
<1>1. devices = <<>>
  BY DEF Init, Map!Init
<1>2. /\ singleRAM = 0 /\ singleDevice = 0
      /\ pageRanges = [page \in Pages |-> <<>>]
  BY DEF Init
<1>3. devices \in Seq(Available) /\ Len(devices) = 0 /\ DOMAIN devices = {}
  BY <1>1
<1>4. pageRanges = PageTable(devices)
  BY <1>1, <1>2, TableOfNone
<1> QED
  BY <1>2, <1>3, <1>4 DEF IndexExact

LEMMA AddDeviceIndex ==
  ASSUME IndexExact, NEW d \in Available, AddDevice(d)
  PROVE  IndexExact'
<1>1. devices' = Append(devices, d)
  BY DEF AddDevice, RefreshTopology
<1>2. devices' \in Seq(Available)
  BY <1>1 DEF IndexExact
<1>3. /\ singleDevice' = IF Len(devices') = 1 THEN 1 ELSE 0
      /\ singleRAM' = IF Len(devices') = 1 /\ devices'[1].kind = "ram" THEN 1 ELSE 0
      /\ hasPageMap' = (\E i \in DOMAIN devices' : HasRange(devices'[i]))
      /\ pageRanges' = PageTable(devices')
  BY <1>1 DEF AddDevice, RefreshTopology
<1>4. (\E i \in DOMAIN devices' : HasRange(devices'[i])) => hasPageMap'
  BY <1>3
<1>5. /\ singleRAM' # 0 => Len(devices') = 1
      /\ singleRAM' \in {0, 1}
  BY <1>3
<1> QED
  BY <1>2, <1>3, <1>4, <1>5 DEF IndexExact

LEMMA NextIndex == IndexExact /\ [Next]_vars => IndexExact'
<1> SUFFICES ASSUME IndexExact, [Next]_vars PROVE IndexExact'
  OBVIOUS
<1>0. ASSUME UNCHANGED topology PROVE IndexExact'
  BY <1>0 DEF topology, IndexExact
<1>1. ASSUME NEW d \in Available, AddDevice(d) PROVE IndexExact'
  BY <1>1, AddDeviceIndex
<1>2. ASSUME NEW states \in WaitSettings, SetWaitStates(states) PROVE IndexExact'
  BY <1>0, <1>2 DEF SetWaitStates
<1>3. ASSUME NEW hook \in BOOLEAN, SetWaitHook(hook) PROVE IndexExact'
  BY <1>0, <1>3 DEF SetWaitHook
<1>4. ASSUME NEW op, NEW size, NEW a, NEW tag, NEW result, Finish(op, size, a, tag, result)
      PROVE  IndexExact'
  BY <1>0, <1>4 DEF Finish
<1>5. ASSUME NEW op, NEW size, NEW a, NEW tag,
             BusAccess(op, size, a, tag) \/ CPUAccess(op, size, a, tag)
      PROVE  IndexExact'
  BY <1>4, <1>5 DEF BusAccess, CPUAccess
<1>6. ASSUME NEW size, NEW a, Fetch(size, a) PROVE IndexExact'
  BY <1>4, <1>6 DEF Fetch
<1>7. CASE UNCHANGED vars
  BY <1>0, <1>7 DEF vars
<1> QED
  BY <1>1, <1>2, <1>3, <1>5, <1>6, <1>7 DEF Next

LEMMA OneIsLeast == Min({1}) = 1
  BY DEF Min

LEMMA LeastIs ==
  ASSUME NEW S \in SUBSET Nat, NEW m \in S, \A y \in S : m <= y
  PROVE  Min(S) = m
<1>1. Min(S) \in S /\ \A y \in S : Min(S) <= y
  BY LeastElement
<1> DEFINE k == Min(S)
<1>2. k \in Nat /\ k <= m /\ m <= k
  BY <1>1
<1> HIDE DEF k
<1>3. k = m
  BY <1>2
<1> QED
  BY <1>3 DEF k

(* The device that asking ds in order gives.                               *)
OwnerOf(ds, a) ==
  LET advertising == {i \in DOMAIN ds : Len(ds) > 1 /\ Advertises(ds[i], a)}
      containing == {i \in DOMAIN ds : Covers(ds[i], a)}
  IN  IF advertising # {} THEN Min(advertising)
      ELSE IF containing # {} THEN Min(containing) ELSE 0

OwnersNamed == \A a \in Address : Map!Owner(a) = OwnerOf(devices, a)

LEMMA OwnerNamed == OwnersNamed
<1> SUFFICES ASSUME NEW a \in Address PROVE Map!Owner(a) = OwnerOf(devices, a)
  BY DEF OwnersNamed
<1> DEFINE advertising == {i \in DOMAIN devices : Len(devices) > 1 /\ Advertises(devices[i], a)}
           containing == {i \in DOMAIN devices : Covers(devices[i], a)}
<1>1. \A S : Map!Min(S) = Min(S)
  BY DEF Map!Min, Min
<1>2. \A d, b : (Map!Advertises(d, b) <=> Advertises(d, b)) /\ (Map!Covers(d, b) <=> Covers(d, b))
  BY DEF Map!Advertises, Advertises, Map!Covers, Covers, Map!HasRange, HasRange,
         Map!RangeEnd, RangeEnd, Map!End, End
<1>3. /\ {i \in DOMAIN devices : Len(devices) > 1 /\ Map!Advertises(devices[i], a)} = advertising
      /\ {i \in DOMAIN devices : Map!Covers(devices[i], a)} = containing
  BY <1>2
<1>4. Map!Owner(a) = IF advertising # {} THEN Map!Min(advertising)
                     ELSE IF containing # {} THEN Map!Min(containing) ELSE 0
  BY <1>3 DEF Map!Owner
<1>5. OwnerOf(devices, a) = IF advertising # {} THEN Min(advertising)
                            ELSE IF containing # {} THEN Min(containing) ELSE 0
  BY Zenon DEF OwnerOf
<1> HIDE DEF advertising, containing
<1> QED
  BY <1>1, <1>4, <1>5

Containing(ds, a) == {i \in 1 .. Len(ds) : Covers(ds[i], a)}

(* Its three cases.                                                        *)
LEMMA FirstOwns ==
  ASSUME NEW ds \in Seq(Available), NEW a, NEW e, Len(ds) > 1, FirstTo(ds, Len(ds), a, e)
  PROVE  OwnerOf(ds, a) = e
<1> DEFINE L == Len(ds)
           advertising == {i \in DOMAIN ds : Len(ds) > 1 /\ Advertises(ds[i], a)}
<1>1. L \in Nat /\ DOMAIN ds = 1 .. L
  OBVIOUS
<1>2. /\ e \in 1 .. L /\ Advertises(ds[e], a)
      /\ \A m \in 1 .. e - 1 : ~Advertises(ds[m], a)
  BY DEF FirstTo
<1>3. e \in advertising /\ advertising \in SUBSET Nat
  BY <1>1, <1>2
<1>4. ASSUME NEW y \in advertising PROVE e <= y
  <2>1. y \in 1 .. L /\ y \notin 1 .. e - 1
    BY <1>1, <1>2
  <2> QED
    BY <1>1, <1>2, <2>1
<1>5. OwnerOf(ds, a) = IF advertising # {} THEN Min(advertising)
                       ELSE IF {i \in DOMAIN ds : Covers(ds[i], a)} # {}
                            THEN Min({i \in DOMAIN ds : Covers(ds[i], a)}) ELSE 0
  BY Zenon DEF OwnerOf
<1> HIDE DEF advertising
<1>6. Min(advertising) = e
  BY <1>3, <1>4, LeastIs
<1> QED
  BY <1>3, <1>5, <1>6

LEMMA ContainerOwns ==
  ASSUME NEW ds \in Seq(Available), NEW a,
         Len(ds) > 1 => \A m \in 1 .. Len(ds) : ~Advertises(ds[m], a)
  PROVE  OwnerOf(ds, a) = IF Containing(ds, a) # {} THEN Min(Containing(ds, a)) ELSE 0
<1> DEFINE advertising == {i \in DOMAIN ds : Len(ds) > 1 /\ Advertises(ds[i], a)}
<1>1. DOMAIN ds = 1 .. Len(ds)
  OBVIOUS
<1>2. advertising = {}
  BY <1>1
<1>3. OwnerOf(ds, a) = IF advertising # {} THEN Min(advertising)
                       ELSE IF Containing(ds, a) # {} THEN Min(Containing(ds, a)) ELSE 0
  BY <1>1, Zenon DEF OwnerOf, Containing
<1> QED
  BY <1>2, <1>3

LEMMA OnlyOneOwns ==
  ASSUME NEW ds \in Seq(Available), NEW a, Len(ds) = 1
  PROVE  OwnerOf(ds, a) = IF Covers(ds[1], a) THEN 1 ELSE 0
<1>0. ~(Len(ds) > 1)
  OBVIOUS
<1>1. OwnerOf(ds, a) = IF Containing(ds, a) # {} THEN Min(Containing(ds, a)) ELSE 0
  BY <1>0, ContainerOwns
<1>2. 1 .. Len(ds) = {1}
  OBVIOUS
<1>3. CASE Covers(ds[1], a)
  <2>1. Containing(ds, a) = {1}
    BY <1>2, <1>3 DEF Containing
  <2> QED
    BY <1>1, <1>3, <2>1, OneIsLeast
<1>4. CASE ~Covers(ds[1], a)
  <2>1. Containing(ds, a) = {}
    BY <1>2, <1>4 DEF Containing
  <2> QED
    BY <1>1, <1>4, <2>1
<1> QED
  BY <1>3, <1>4

LEMMA IndexGivesLookup == IndexExact => LookupIsFirstMatch
<1> SUFFICES ASSUME IndexExact, NEW a \in Address PROVE DeviceForAddress(a) = OwnerOf(devices, a)
  BY OwnerNamed DEF LookupIsFirstMatch, OwnersNamed
<1> DEFINE L == Len(devices)
           ranges == pageRanges[PageOf(a)]
           mapped == FindPageMappedDevice(ranges, a)
           containing == Containing(devices, a)
<1>1. devices \in Seq(Available) /\ L \in Nat /\ DOMAIN devices = 1 .. L
  BY DEF IndexExact
<1>2. TableInv(pageRanges, devices, L)
  BY <1>1, PageTableIs DEF IndexExact
<1>3. PageOf(a) \in Pages /\ a \in Int
  BY PageIn
<1>4. Ordered(ranges) /\ \A i \in 1 .. Len(ranges) : ranges[i].device # 0
  <2>1. Ordered(ranges) /\ \A x : Member(ranges, x) => x.device \in 1 .. L
    BY <1>2, <1>3 DEF TableInv
  <2>2. \A i \in 1 .. Len(ranges) : Member(ranges, ranges[i])
    BY DEF Member
  <2> HIDE DEF ranges
  <2> QED
    BY <1>1, <2>1, <2>2
<1>5. \A d : HeldBy(ranges, a, d) <=> FirstTo(devices, L, a, d)
  BY <1>2 DEF TableInv
<1>s. SelectInSeq(devices, LAMBDA d : Covers(d, a)) = IF containing # {} THEN Min(containing) ELSE 0
  BY <1>1, Zenon DEF SelectInSeq, Containing
<1>6. FindDevice(a) = IF hasPageMap /\ mapped # 0 THEN mapped
                      ELSE IF containing # {} THEN Min(containing) ELSE 0
  BY <1>s, Zenon DEF FindDevice
<1> HIDE DEF ranges, containing
<1>7. IF mapped # 0 THEN HeldBy(ranges, a, mapped) ELSE ~Covered(ranges, a)
  BY <1>3, <1>4, SearchIs
<1> HIDE DEF mapped, L
<1>8. CASE L = 1
  <2>1. singleDevice = 1 /\ singleRAM \in {0, 1}
    BY <1>8 DEF IndexExact, L
  <2>2. DeviceForAddress(a) = IF Covers(devices[1], a) THEN 1 ELSE 0
    BY <2>1 DEF DeviceForAddress
  <2>3. OwnerOf(devices, a) = IF Covers(devices[1], a) THEN 1 ELSE 0
    BY <1>1, <1>8, OnlyOneOwns DEF L
  <2> QED
    BY <2>2, <2>3
<1>9. CASE L # 1
  <2>1. DeviceForAddress(a) = FindDevice(a)
    BY <1>9 DEF DeviceForAddress, IndexExact, L
  <2>2. CASE mapped # 0
    <3>1. FirstTo(devices, L, a, mapped)
      BY <1>5, <1>7, <2>2
    <3>2. mapped \in 1 .. L /\ HasRange(devices[mapped])
      BY <3>1 DEF FirstTo, Advertises
    <3>3. L > 1
      BY <1>1, <1>9, <3>2
    <3>4. hasPageMap
      BY <1>1, <3>2 DEF IndexExact
    <3>5. OwnerOf(devices, a) = mapped
      BY <1>1, <3>1, <3>3, FirstOwns DEF L
    <3> QED
      BY <1>6, <2>1, <2>2, <3>4, <3>5
  <2>3. CASE mapped = 0
    <3>1. \A e : ~FirstTo(devices, L, a, e)
      BY <1>5, <1>7, <2>3 DEF HeldBy, Covered
    <3>2. \A m \in 1 .. L : ~Advertises(devices[m], a)
      BY <1>1, <3>1, FirstExists
    <3>3. DeviceForAddress(a) = IF containing # {} THEN Min(containing) ELSE 0
      BY <1>6, <2>1, <2>3
    <3>4. OwnerOf(devices, a) = IF containing # {} THEN Min(containing) ELSE 0
      BY <1>1, <3>2, ContainerOwns DEF L, containing
    <3> QED
      BY <3>3, <3>4
  <2> QED
    BY <2>2, <2>3
<1> QED
  BY <1>8, <1>9

(* The page table that refreshTopology builds and findDevice searches      *)
(* gives, for every address, the device that asking the devices in order   *)
(* gives.                                                                  *)
THEOREM LookupCorrect == Spec => []LookupIsFirstMatch
<1> QED
  BY InitIndex, NextIndex, IndexGivesLookup, PTL DEF Spec

(* A device attached later leaves the owner of an address as it is, unless *)
(* it advertises the address and the owner does not.                       *)
LEMMA OwnerStays ==
  ASSUME NEW ds \in Seq(Available), NEW d \in Available, NEW a, NEW dev, dev = OwnerOf(ds, a), dev # 0,
         Advertises(ds[dev], a) \/ ~Advertises(d, a)
  PROVE  OwnerOf(Append(ds, d), a) = dev
<1> DEFINE L == Len(ds)
           es == Append(ds, d)
<1>1. /\ L \in Nat /\ es \in Seq(Available) /\ Len(es) = L + 1
      /\ es[L + 1] = d /\ \A i \in 1 .. L : es[i] = ds[i]
  OBVIOUS
<1> HIDE DEF es
<1>2. \A i : i \in 1 .. L + 1 <=> i \in 1 .. L \/ i = L + 1
  BY <1>1
<1>3. ASSUME NEW e, e \in 1 .. L, FirstTo(ds, L, a, e), L >= 1 PROVE OwnerOf(es, a) = e
  <2>1. Advertises(es[e], a) /\ \A m \in 1 .. e - 1 : m \in 1 .. L /\ ~Advertises(ds[m], a)
    BY <1>1, <1>3 DEF FirstTo
  <2>2. FirstTo(es, L + 1, a, e)
    BY <1>1, <1>2, <1>3, <2>1 DEF FirstTo
  <2>3. Len(es) > 1
    BY <1>1, <1>3
  <2> QED
    BY <1>1, <2>2, <2>3, FirstOwns
<1>4. ASSUME NEW c \in Containing(ds, a), \A y \in Containing(ds, a) : c <= y, L >= 1,
             \A m \in 1 .. L : ~Advertises(ds[m], a), ~Advertises(d, a)
      PROVE  OwnerOf(es, a) = c
  <2>1. OwnerOf(es, a) = IF Containing(es, a) # {} THEN Min(Containing(es, a)) ELSE 0
    <3>1. \A m \in 1 .. Len(es) : ~Advertises(es[m], a)
      BY <1>1, <1>2, <1>4
    <3> QED
      BY <1>1, <3>1, ContainerOwns
  <2>2. c \in 1 .. L /\ Covers(ds[c], a)
    BY <1>4 DEF Containing
  <2>3. c \in Containing(es, a) /\ Containing(es, a) \in SUBSET Nat
    BY <1>1, <1>2, <2>2 DEF Containing
  <2>4. ASSUME NEW y \in Containing(es, a) PROVE c <= y
    <3>1. y \in 1 .. L + 1 /\ Covers(es[y], a)
      BY <1>1 DEF Containing
    <3>2. CASE y \in 1 .. L
      BY <1>1, <1>4, <3>1, <3>2 DEF Containing
    <3>3. CASE y = L + 1
      BY <1>1, <2>2, <3>3
    <3> QED
      BY <1>2, <3>1, <3>2, <3>3
  <2>5. Min(Containing(es, a)) = c
    BY <2>3, <2>4, LeastIs
  <2> QED
    BY <2>1, <2>3, <2>5
<1>5. CASE L = 0
  <2>1. Containing(ds, a) = {}
    BY <1>5 DEF Containing
  <2>0. ~(Len(ds) > 1)
    BY <1>5
  <2>2. OwnerOf(ds, a) = 0
    BY <2>0, <2>1, ContainerOwns
  <2> QED
    BY <2>2
<1>6. CASE L = 1
  <2>1. dev = 1 /\ Covers(ds[1], a)
    BY <1>6, OnlyOneOwns
  <2>2. \A m \in 1 .. L : m = 1
    BY <1>6
  <2>3. CASE Advertises(ds[1], a)
    <3>1. FirstTo(ds, L, a, 1)
      BY <1>6, <2>3 DEF FirstTo
    <3> QED
      BY <1>3, <1>6, <2>1, <3>1 DEF es
  <2>4. CASE ~Advertises(ds[1], a)
    <3>1. 1 \in Containing(ds, a) /\ \A y \in Containing(ds, a) : 1 <= y
      BY <1>6, <2>1, <2>2 DEF Containing
    <3>2. ~Advertises(d, a) /\ \A m \in 1 .. L : ~Advertises(ds[m], a)
      BY <2>1, <2>2, <2>4
    <3> QED
      BY <1>4, <1>6, <2>1, <3>1, <3>2 DEF es
  <2> QED
    BY <2>3, <2>4
<1>7. CASE L > 1
  <2>1. CASE \E m \in 1 .. L : Advertises(ds[m], a)
    <3>1. PICK e : FirstTo(ds, L, a, e)
      BY <1>1, <2>1, FirstExists
    <3>2. dev = e /\ e \in 1 .. L
      BY <1>7, <3>1, FirstOwns DEF FirstTo
    <3> QED
      BY <1>3, <1>7, <3>1, <3>2 DEF es
  <2>2. CASE ~\E m \in 1 .. L : Advertises(ds[m], a)
    <3>1. dev = IF Containing(ds, a) # {} THEN Min(Containing(ds, a)) ELSE 0
      BY <2>2, ContainerOwns
    <3>2. Containing(ds, a) # {} /\ Containing(ds, a) \in SUBSET Nat
      BY <3>1 DEF Containing
    <3>3. dev \in Containing(ds, a) /\ \A y \in Containing(ds, a) : dev <= y
      BY <3>1, <3>2, LeastElement
    <3>4. dev \in 1 .. L
      BY <3>3 DEF Containing
    <3>5. ~Advertises(d, a)
      BY <2>2, <3>4
    <3> QED
      BY <1>4, <1>7, <2>2, <3>3, <3>5 DEF es
  <2> QED
    BY <2>1, <2>2
<1>8. L \in Nat
  BY <1>1
<1> HIDE DEF L
<1>9. L = 0 \/ L = 1 \/ L > 1
  BY <1>8
<1> QED
  BY <1>5, <1>6, <1>7, <1>9 DEF es

(* What a step does to the devices.                                        *)
LEMMA StepDevices ==
  [Next]_vars => devices' = devices \/ \E d \in Available : devices' = Append(devices, d)
<1> SUFFICES ASSUME [Next]_vars
             PROVE  devices' = devices \/ \E d \in Available : devices' = Append(devices, d)
  OBVIOUS
<1>1. ASSUME NEW d \in Available, AddDevice(d) PROVE devices' = Append(devices, d)
  BY <1>1 DEF AddDevice, RefreshTopology
<1>2. ASSUME NEW states \in WaitSettings, SetWaitStates(states) PROVE devices' = devices
  BY <1>2 DEF SetWaitStates, topology
<1>3. ASSUME NEW hook \in BOOLEAN, SetWaitHook(hook) PROVE devices' = devices
  BY <1>3 DEF SetWaitHook, topology
<1>4. ASSUME NEW op, NEW size, NEW a, NEW tag, NEW result, Finish(op, size, a, tag, result)
      PROVE  devices' = devices
  BY <1>4 DEF Finish, topology
<1>5. ASSUME NEW op, NEW size, NEW a, NEW tag,
             BusAccess(op, size, a, tag) \/ CPUAccess(op, size, a, tag)
      PROVE  devices' = devices
  BY <1>4, <1>5 DEF BusAccess, CPUAccess
<1>6. ASSUME NEW size, NEW a, Fetch(size, a) PROVE devices' = devices
  BY <1>4, <1>6 DEF Fetch
<1>7. CASE UNCHANGED vars
  BY <1>7 DEF vars, topology
<1> QED
  BY <1>1, <1>2, <1>3, <1>5, <1>6, <1>7 DEF Next

Kept == \A a \in Address :
          LET dev == DeviceForAddress(a)
          IN  /\ dev # 0
              /\ \/ Advertises(devices[dev], a)
                 \/ \A i \in DOMAIN devices' \ DOMAIN devices : ~Advertises(devices'[i], a)
              => DeviceForAddress(a)' = dev

LEMMA StepKeepsOwners == IndexExact /\ IndexExact' /\ [Next]_vars => Kept
<1> SUFFICES ASSUME IndexExact, IndexExact', [Next]_vars, NEW a \in Address,
                    DeviceForAddress(a) # 0,
                    \/ Advertises(devices[DeviceForAddress(a)], a)
                    \/ \A i \in DOMAIN devices' \ DOMAIN devices : ~Advertises(devices'[i], a)
             PROVE  DeviceForAddress(a)' = DeviceForAddress(a)
  BY Zenon DEF Kept
<1>1. LookupIsFirstMatch /\ LookupIsFirstMatch'
  <2>1. (IndexExact => LookupIsFirstMatch)'
    BY IndexGivesLookup, PTL
  <2> QED
    BY <2>1, IndexGivesLookup
<1>2. OwnersNamed /\ OwnersNamed'
  BY OwnerNamed, PTL
<1>3. DeviceForAddress(a) = OwnerOf(devices, a)
  BY <1>1, <1>2 DEF LookupIsFirstMatch, OwnersNamed
<1>4. DeviceForAddress(a)' = OwnerOf(devices', a)
  <2>1. DeviceForAddress(a)' = Map!Owner(a)'
    BY <1>1 DEF LookupIsFirstMatch
  <2>2. Map!Owner(a)' = OwnerOf(devices', a)
    BY <1>2 DEF OwnersNamed
  <2> QED
    BY <2>1, <2>2
<1>5. CASE devices' = devices
  BY <1>3, <1>4, <1>5
<1>6. ASSUME NEW d \in Available, devices' = Append(devices, d)
      PROVE  DeviceForAddress(a)' = DeviceForAddress(a)
  <2>1. devices \in Seq(Available)
    BY DEF IndexExact
  <2>2. Len(devices) + 1 \in DOMAIN devices' \ DOMAIN devices /\ devices'[Len(devices) + 1] = d
    BY <1>6, <2>1
  <2>3. Advertises(devices[DeviceForAddress(a)], a) \/ ~Advertises(d, a)
    BY <2>2
  <2> DEFINE dev == DeviceForAddress(a)
  <2>4. dev = OwnerOf(devices, a) /\ dev # 0 /\ (Advertises(devices[dev], a) \/ ~Advertises(d, a))
    BY <1>3, <2>3
  <2> HIDE DEF dev
  <2>5. OwnerOf(Append(devices, d), a) = dev
    BY <2>1, <2>4, OwnerStays
  <2> QED
    BY <1>4, <1>6, <2>5 DEF dev
<1> QED
  BY <1>5, <1>6, StepDevices

(* Attaching a device (AddDevice) takes no address away from a device that *)
(* advertises it, and from another one only if the new device advertises   *)
(* it.                                                                     *)
THEOREM OwnersCorrect == Spec => OwnersKeep
<1>1. Spec => []IndexExact
  BY InitIndex, NextIndex, PTL DEF Spec
<1>2. IndexExact /\ IndexExact' /\ [Next]_vars => [Kept]_vars
  BY StepKeepsOwners
<1> QED
  BY <1>1, <1>2, PTL DEF Spec, OwnersKeep, Kept
-----------------------------------------------------------------------------
\* Types.

(* The greatest of a few numbers.                                          *)
LEMMA GreatestOf ==
  ASSUME NEW n \in Nat, NEW S \in SUBSET (1 .. n), S # {}
  PROVE  Max(S) \in S /\ \A y \in S : y <= Max(S)
<1> DEFINE T == {n - x : x \in S}
           m == Min(T)
<1>1. T \in SUBSET Nat /\ T # {}
  <2>1. \A x \in 1 .. n : n - x \in Nat
    OBVIOUS
  <2>2. \A x \in S : n - x \in Nat
    BY <2>1
  <2> QED
    BY <2>2, Zenon
<1>2. m \in T /\ \A y \in T : m <= y
  <2> HIDE DEF T
  <2> QED
    BY <1>1, LeastElement
<1>3. PICK g \in S : m = n - g
  BY <1>2
<1>4. ASSUME NEW y \in S PROVE y <= g
  <2>1. n - y \in T /\ y \in 1 .. n /\ g \in 1 .. n
    OBVIOUS
  <2>2. n - g <= n - y
    <3> HIDE DEF T, m
    <3> QED
      BY <1>2, <1>3, <2>1
  <2> QED
    BY <2>1, <2>2
<1>5. \E x \in S : \A y \in S : y <= x
  BY <1>4
<1> QED
  BY <1>5, Zenon DEF Max

LEMMA GreatestIs ==
  ASSUME NEW S \in SUBSET Nat, NEW m \in S, \A y \in S : y <= m
  PROVE  Max(S) = m
<1>1. \E x \in S : \A y \in S : y <= x
  OBVIOUS
<1>2. Max(S) \in S /\ \A y \in S : y <= Max(S)
  BY <1>1, Zenon DEF Max
<1> DEFINE k == Max(S)
<1>3. k \in Nat /\ k <= m /\ m <= k
  BY <1>2
<1> HIDE DEF k
<1>4. k = m
  BY <1>3
<1> QED
  BY <1>4 DEF k

(* What an access gives.                                                   *)
Faults == {"none", "bus", "address", "unsupported"}
MovesOf(ds) == [device : 1 .. Len(ds), address : Int]
Results(ds) == [fault : Faults, at : Address, waits : Nat, moved : Seq(MovesOf(ds))]

LEMMA ResultType ==
  ASSUME NEW ds, NEW fault \in Faults, NEW at \in Address, NEW waits \in Nat, NEW moved \in Seq(MovesOf(ds))
  PROVE  Result(fault, at, waits, moved) \in Results(ds)
  BY DEF Result, Results

LEMMA BytesType ==
  ASSUME NEW ds \in Seq(Available), NEW dev \in 1 .. Len(ds), NEW a \in Nat, NEW n \in Nat
  PROVE  Bytes(dev, a, n) \in Seq(MovesOf(ds))
<1>1. \A k \in 1 .. n : [device |-> dev, address |-> a + k - 1] \in MovesOf(ds)
  BY DEF MovesOf
<1>2. Bytes(dev, a, n) \in [1 .. n -> MovesOf(ds)]
  BY <1>1 DEF Bytes
<1> QED
  BY <1>2, SeqDef

LEMMA WrapType == ASSUME NEW a \in Nat PROVE Wrap(a) \in Address
<1>1. ASSUME NEW n \in Nat \ {0} PROVE a % n \in 0 .. n - 1
  OBVIOUS
<1> QED
  BY <1>1, SpaceAssumption DEF Wrap, Address

(* The device of an address, if any, is attached.                          *)
LEMMA OwnerType ==
  ASSUME NEW ds \in Seq(Available), NEW a
  PROVE  OwnerOf(ds, a) \in 0 .. Len(ds)
<1> DEFINE advertising == {i \in DOMAIN ds : Len(ds) > 1 /\ Advertises(ds[i], a)}
           containing == {i \in DOMAIN ds : Covers(ds[i], a)}
<1>1. DOMAIN ds = 1 .. Len(ds) /\ Len(ds) \in Nat
  OBVIOUS
<1>2. advertising \in SUBSET (1 .. Len(ds)) /\ containing \in SUBSET (1 .. Len(ds))
  BY <1>1
<1>3. OwnerOf(ds, a) = IF advertising # {} THEN Min(advertising)
                       ELSE IF containing # {} THEN Min(containing) ELSE 0
  BY Zenon DEF OwnerOf
<1> HIDE DEF advertising, containing
<1>4. ASSUME NEW S \in SUBSET (1 .. Len(ds)), S # {} PROVE Min(S) \in 0 .. Len(ds)
  <2>1. S \in SUBSET Nat
    BY <1>1
  <2>2. Min(S) \in S
    BY <1>4, <2>1, LeastElement
  <2> DEFINE m == Min(S)
  <2>3. m \in 1 .. Len(ds)
    BY <2>2
  <2> HIDE DEF m
  <2>4. m \in 0 .. Len(ds)
    BY <1>1, <2>3
  <2> QED
    BY <2>4 DEF m
<1> QED
  BY <1>1, <1>2, <1>3, <1>4

LEMMA LookupType ==
  ASSUME IndexExact, NEW a \in Address
  PROVE  DeviceForAddress(a) = OwnerOf(devices, a) /\ DeviceForAddress(a) \in 0 .. Len(devices)
<1>1. devices \in Seq(Available)
  BY DEF IndexExact
<1>2. DeviceForAddress(a) = OwnerOf(devices, a)
  BY IndexGivesLookup, OwnerNamed DEF LookupIsFirstMatch, OwnersNamed
<1> QED
  BY <1>1, <1>2, OwnerType

LEMMA CycleType ==
  ASSUME IndexExact, CachesExact, NEW op, NEW width \in Nat, NEW a \in Address
  PROVE  Cycle(op, width, a) \in Results(devices)
<1> DEFINE dev == DeviceForAddress(a)
<1>1. dev \in 0 .. Len(devices) /\ devices \in Seq(Available) /\ Len(devices) \in Nat
  BY LookupType DEF IndexExact
<1>2. waitStates \in Nat
  BY WaitAssumption DEF CachesExact
<1>3. <<>> \in Seq(MovesOf(devices)) /\ a \in Nat
  BY SpaceAssumption DEF Address
<1> HIDE DEF dev
<1>4. ASSUME dev # 0 PROVE WaitFor(dev) \in Nat /\ Bytes(dev, a, width) \in Seq(MovesOf(devices))
  <2>1. dev \in 1 .. Len(devices)
    BY <1>1, <1>4
  <2>2. devices[dev] \in Available
    BY <1>1, <2>1
  <2>3. devices[dev].waits \in Nat
    BY <2>2, DevicesAssumption DEF WellFormed, Device
  <2>4. WaitFor(dev) \in Nat
    BY <1>2, <2>3 DEF WaitFor
  <2> QED
    BY <1>1, <1>3, <2>1, <2>4, BytesType
<1> DEFINE waits == IF op = "peek" THEN 0 ELSE WaitFor(dev)
           moved == Bytes(dev, a, width)
           b == Seq(MovesOf(devices))
<1>5. Cycle(op, width, a) =
        IF dev = 0 THEN Result("bus", a, 0, <<>>)
        ELSE IF op = "peek" /\ devices[dev].kind = "plain" THEN Result("unsupported", a, 0, <<>>)
        ELSE IF Accepts(devices[dev], width, a) THEN Result("none", a, waits, moved)
        ELSE Result("bus", a, waits, <<>>)
  BY Zenon DEF Cycle, dev
<1>6. dev # 0 => waits \in Nat /\ moved \in b
  BY <1>4
<1>7. <<>> \in b
  BY <1>3
<1>8. \A f \in Faults, w \in Nat, m \in b : Result(f, a, w, m) \in Results(devices)
  BY ResultType
<1>9. "bus" \in Faults /\ "none" \in Faults /\ "unsupported" \in Faults /\ 0 \in Nat
  BY DEF Faults
<1> HIDE DEF waits, moved, b
<1> QED
  BY <1>5, <1>6, <1>7, <1>8, <1>9

LEMMA LongType ==
  ASSUME IndexExact, CachesExact, NEW op, NEW a \in Address
  PROVE  LongCycles(op, a) \in Results(devices)
<1> DEFINE high == Cycle(op, Word, a)
           low == Cycle(op, Word, Wrap(a + Word))
<1>1. Word \in Nat /\ a + Word \in Nat
  BY SpaceAssumption DEF Word, Address
<1>2. high \in Results(devices) /\ low \in Results(devices)
  BY <1>1, WrapType, CycleType
<1>3. LongCycles(op, a) =
        IF high.fault # "none" THEN high
        ELSE Result(low.fault, IF low.fault = "none" THEN a ELSE low.at,
                    high.waits + low.waits, high.moved \o low.moved)
  BY Zenon DEF LongCycles
<1> HIDE DEF high, low
<1>4. /\ low.fault \in Faults /\ (IF low.fault = "none" THEN a ELSE low.at) \in Address
      /\ high.waits + low.waits \in Nat
      /\ high.moved \in Seq(MovesOf(devices)) /\ low.moved \in Seq(MovesOf(devices))
  BY <1>2 DEF Results
<1>5. high.moved \o low.moved \in Seq(MovesOf(devices))
  BY <1>4, ConcatProperties
<1>6. Result(low.fault, IF low.fault = "none" THEN a ELSE low.at,
             high.waits + low.waits, high.moved \o low.moved) \in Results(devices)
  BY <1>4, <1>5, ResultType
<1> QED
  BY <1>2, <1>3, <1>6

LEMMA ThroughBusType ==
  ASSUME IndexExact, CachesExact, NEW op, NEW size \in Sizes, NEW a \in Address
  PROVE  ThroughBus(op, size, a) \in Results(devices)
<1>1. Result("address", a, 0, <<>>) \in Results(devices)
  <2>1. "address" \in Faults /\ 0 \in Nat /\ <<>> \in Seq(MovesOf(devices))
    BY DEF Faults
  <2> QED
    BY <2>1, ResultType
<1>2. size \in Nat
  BY DEF Sizes, Byte, Word, Long
<1> QED
  BY <1>1, <1>2, CycleType, LongType DEF ThroughBus

(* The direct path.                                                        *)
LEMMA FromRAMType ==
  ASSUME CachesExact, fastRAM # 0, NEW size \in Sizes, NEW a \in Address
  PROVE  FromRAM(size, a) \in Results(devices)
<1>1. fastRAM = 1 /\ devices \in Seq(Available) /\ Len(devices) = 1
  BY DEF CachesExact, FastRAM
<1>2. /\ size \in Nat /\ Word \in Nat /\ a \in Nat /\ a + Word \in Nat
  BY SpaceAssumption DEF Sizes, Byte, Word, Long, Address
<1>3. /\ Bytes(fastRAM, a, Word) \in Seq(MovesOf(devices))
      /\ Bytes(fastRAM, a, size) \in Seq(MovesOf(devices))
      /\ <<>> \in Seq(MovesOf(devices))
  <2>1. fastRAM \in 1 .. Len(devices)
    BY <1>1
  <2>2. \A n \in Nat : Bytes(fastRAM, a, n) \in Seq(MovesOf(devices))
    BY <1>1, <1>2, <2>1, BytesType
  <2> QED
    BY <1>2, <2>2
<1>4. Wrap(a + Word) \in Address
  BY <1>2, WrapType
<1>5. "bus" \in Faults /\ "none" \in Faults /\ 0 \in Nat
  BY DEF Faults
<1>6. \A f \in Faults, b \in Address, m \in Seq(MovesOf(devices)) : Result(f, b, 0, m) \in Results(devices)
  BY <1>5, ResultType
<1>7. \/ FromRAM(size, a) = Result("bus", a, 0, <<>>)
      \/ FromRAM(size, a) = Result("bus", Wrap(a + Word), 0, Bytes(fastRAM, a, Word))
      \/ FromRAM(size, a) = Result("none", a, 0, Bytes(fastRAM, a, size))
  BY Zenon DEF FromRAM
<1> QED
  BY <1>3, <1>4, <1>5, <1>6, <1>7

LEMMA AccessType ==
  ASSUME IndexExact, CachesExact, NEW size \in Sizes, NEW a \in Address
  PROVE  /\ \A op : ByCPU(op, size, a) \in Results(devices)
         /\ ByFetch(size, a) \in Results(devices)
<1>1. \A f \in {"bus", "address"} : Result(f, a, 0, <<>>) \in Results(devices)
  <2>1. {"bus", "address"} \subseteq Faults /\ 0 \in Nat /\ <<>> \in Seq(MovesOf(devices))
    BY DEF Faults
  <2> QED
    BY <2>1, ResultType
<1>2. ASSUME fastRAM # 0
      PROVE  FastRAMAccess(size, a) \in Results(devices) /\ ReadProgramFast(size, a) \in Results(devices)
  <2>1. FromRAM(size, a) \in Results(devices)
    BY <1>2, FromRAMType
  <2> QED
    BY <1>1, <2>1 DEF FastRAMAccess, ReadProgramFast
<1> QED
  BY <1>2, ThroughBusType DEF ByCPU, ByFetch

Stores == [1 .. MaxDevices -> [Address -> (Tags \cup {0}) \X Nat]]

(* A write stores lanes of its value.                                      *)
LEMMA StoreType ==
  ASSUME NEW ds, NEW result \in Results(ds), store \in Stores, NEW op, NEW tag,
         op = "write" => tag \in Tags
  PROVE  StoreAfter(op, tag, result) \in Stores
<1> DEFINE moved == result.moved
<1>1. moved \in Seq(MovesOf(ds))
  BY DEF Results
<1>2. DOMAIN moved = 1 .. Len(moved) /\ Len(moved) \in Nat
  BY <1>1
<1> HIDE DEF moved
<1>3. ASSUME op = "write", NEW i \in 1 .. MaxDevices, NEW a \in Address
      PROVE  (IF Lanes(moved, i, a) = {} THEN store[i][a] ELSE Map!Lane(tag, Max(Lanes(moved, i, a))))
               \in (Tags \cup {0}) \X Nat
  <2>1. store[i][a] \in (Tags \cup {0}) \X Nat
    BY DEF Stores
  <2> DEFINE lanes == Lanes(moved, i, a)
  <2>2. lanes \in SUBSET (1 .. Len(moved))
    BY <1>2 DEF Lanes
  <2> HIDE DEF lanes
  <2>3. ASSUME lanes # {} PROVE Max(lanes) \in Nat
    <3>1. Max(lanes) \in lanes
      BY <1>2, <2>2, <2>3, GreatestOf
    <3> DEFINE m == Max(lanes)
    <3>2. m \in 1 .. Len(moved)
      BY <2>2, <3>1
    <3> HIDE DEF m
    <3>3. m \in Nat
      BY <1>2, <3>2
    <3> QED
      BY <3>3 DEF m
  <2>4. tag \in Tags
    BY <1>3
  <2>5. ASSUME lanes # {} PROVE Map!Lane(tag, Max(lanes)) \in (Tags \cup {0}) \X Nat
    BY <2>3, <2>4, <2>5 DEF Map!Lane
  <2>6. (IF lanes = {} THEN store[i][a] ELSE Map!Lane(tag, Max(lanes))) \in (Tags \cup {0}) \X Nat
    BY <2>1, <2>5
  <2> QED
    BY <2>6 DEF lanes
<1>4. ASSUME op = "write" PROVE Overwritten(moved, tag) \in Stores
  BY <1>3, <1>4, Zenon DEF Overwritten, Stores
<1>5. StoreAfter(op, tag, result) = IF op = "write" THEN Overwritten(moved, tag) ELSE store
  BY Zenon DEF StoreAfter, moved
<1> QED
  BY <1>4, <1>5

LEMMA OriginalType ==
  [i \in 1 .. MaxDevices |-> [a \in Address |-> Map!Original(i, a)]] \in Stores
<1>1. ASSUME NEW i \in 1 .. MaxDevices, NEW a \in Address
      PROVE  Map!Original(i, a) \in (Tags \cup {0}) \X Nat
  <2>1. i \in Nat /\ Space \in Nat /\ a \in Nat
    BY BoundsAssumption, SpaceAssumption DEF Address
  <2>2. i * Space \in Nat
    BY <2>1
  <2> DEFINE n == i * Space
  <2>3. n + a \in Nat
    <3> HIDE DEF n
    <3> QED
      BY <2>1, <2>2 DEF n
  <2>4. Map!Original(i, a) = <<0, n + a>>
    BY Zenon DEF Map!Original
  <2> HIDE DEF n
  <2> QED
    BY <2>3, <2>4
<1> QED
  BY <1>1 DEF Stores

(* The page table names addresses and attached devices.                    *)
LEMMA IndexTypes ==
  ASSUME IndexExact
  PROVE  pageRanges \in [Pages -> Seq([start : Address, end : Address, device : DOMAIN devices])]
<1> DEFINE E == [start : Address, end : Address, device : DOMAIN devices]
           L == Len(devices)
<1>1. devices \in Seq(Available) /\ DOMAIN devices = 1 .. L
  BY DEF IndexExact
<1>2. TableInv(pageRanges, devices, L)
  BY <1>1, PageTableIs DEF IndexExact
<1>3. pageRanges \in Tables /\ pageRanges = [page \in Pages |-> pageRanges[page]]
  BY <1>2 DEF TableInv, Tables
<1>4. ASSUME NEW page \in Pages PROVE pageRanges[page] \in Seq(E)
  <2> DEFINE ranges == pageRanges[page]
  <2>1. /\ Ordered(ranges)
        /\ \A x : Member(ranges, x) => 0 <= x.start /\ x.end <= Space - 1 /\ x.device \in 1 .. L
    BY <1>2 DEF TableInv
  <2> HIDE DEF ranges
  <2>2. ranges \in Seq(Ranges)
    BY <2>1 DEF Ordered
  <2>3. ASSUME NEW i \in 1 .. Len(ranges) PROVE ranges[i] \in E
    <3>1. Member(ranges, ranges[i])
      BY DEF Member
    <3>2. 0 <= ranges[i].start /\ ranges[i].end <= Space - 1 /\ ranges[i].device \in 1 .. L
      BY <2>1, <3>1
    <3>3. ranges[i].start <= ranges[i].end
      BY <2>1 DEF Ordered
    <3>4. ranges[i] \in Ranges /\ ranges[i].start \in Int /\ ranges[i].end \in Int
      BY <2>2, ElementType
    <3>5. ranges[i].start \in Address /\ ranges[i].end \in Address
      BY <3>2, <3>3, <3>4, SpaceAssumption DEF Address
    <3> HIDE DEF L
    <3> QED
      BY <1>1, <3>2, <3>4, <3>5 DEF Ranges
  <2>4. ranges = [i \in 1 .. Len(ranges) |-> ranges[i]] /\ Len(ranges) \in Nat
    BY <2>2
  <2> HIDE DEF E
  <2>5. ranges \in [1 .. Len(ranges) -> E]
    BY <2>3, <2>4
  <2>6. ranges \in Seq(E)
    BY <2>4, <2>5, SeqDef
  <2> QED
    BY <2>6 DEF ranges
<1> HIDE DEF E
<1>5. pageRanges \in [Pages -> Seq(E)]
  BY <1>3, <1>4
<1> QED
  BY <1>5 DEF E

(* What is known of all devices, and the types of the rest of the state.   *)
WaitsKnown == hasWaitStateDevices = \E i \in DOMAIN devices : devices[i].waits > 0

StateTyped ==
  /\ Len(devices) <= MaxDevices
  /\ waitHook \in BOOLEAN
  /\ hasPageMap \in BOOLEAN
  /\ store \in Stores
  /\ last.fault \in Faults /\ last.at \in Address /\ last.waits \in Nat
  /\ accesses \in Nat

BusInv == CachesExact /\ IndexExact /\ WaitsKnown /\ StateTyped

LEMMA InvTypes == BusInv => TypeOK
<1> SUFFICES ASSUME BusInv PROVE TypeOK
  OBVIOUS
<1>1. pageRanges \in [Pages -> Seq([start : Address, end : Address, device : DOMAIN devices])]
  BY IndexTypes DEF BusInv
<1>2. fastRAM \in {0, 1} /\ hasWaitStateDevices \in BOOLEAN /\ waitStates \in WaitSettings
  BY DEF BusInv, CachesExact, FastRAM
<1>3. devices \in Seq(Available) /\ singleDevice \in {0, 1} /\ singleRAM \in {0, 1}
  BY DEF BusInv, IndexExact
<1> QED
  BY <1>1, <1>2, <1>3 DEF BusInv, StateTyped, Faults, Stores, TypeOK

LEMMA InitTyped == Init => WaitsKnown /\ StateTyped
<1> SUFFICES ASSUME Init PROVE WaitsKnown /\ StateTyped
  OBVIOUS
<1>1. /\ devices = <<>> /\ waitHook = FALSE
      /\ store = [i \in 1 .. MaxDevices |-> [a \in Address |-> Map!Original(i, a)]]
      /\ last = Map!NoAccess
  <2>1. Map!Init
    BY DEF Init
  <2> QED
    BY <2>1, Zenon DEF Map!Init, Map!Address, Address
<1>2. hasWaitStateDevices = FALSE /\ hasPageMap = FALSE /\ accesses = 0
  BY DEF Init
<1>3. /\ Len(devices) = 0 /\ DOMAIN devices = {}
      /\ waitHook \in BOOLEAN /\ hasPageMap \in BOOLEAN
  <2>1. Len(devices) = 0 /\ DOMAIN devices = {}
    BY <1>1
  <2>2. waitHook \in BOOLEAN
    BY <1>1, Zenon
  <2>3. hasPageMap \in BOOLEAN
    BY <1>2, Zenon
  <2> QED
    BY <2>1, <2>2, <2>3
<1>4. last.fault = "none" /\ last.at = 0 /\ last.waits = 0
  BY <1>1 DEF Map!NoAccess, Map!Outcome
<1>5. 0 \in Address /\ last.fault \in Faults
  BY <1>4, SpaceAssumption DEF Address, Faults
<1>6. store \in Stores
  BY <1>1, OriginalType, Zenon
<1>7. WaitsKnown
  BY <1>2, <1>3 DEF WaitsKnown
<1> QED
  BY <1>2, <1>3, <1>4, <1>5, <1>6, <1>7, BoundsAssumption DEF StateTyped

LEMMA AddDeviceTyped ==
  ASSUME BusInv, NEW d \in Available, AddDevice(d)
  PROVE  WaitsKnown' /\ StateTyped'
<1>1. /\ Len(devices) < MaxDevices /\ devices' = Append(devices, d)
      /\ UNCHANGED <<waitHook, store, last, accesses>>
  BY DEF AddDevice, RefreshTopology
<1>2. /\ hasWaitStateDevices' = (\E i \in DOMAIN devices' : devices'[i].waits > 0)
      /\ hasPageMap' = (\E i \in DOMAIN devices' : HasRange(devices'[i]))
  BY DEF AddDevice, RefreshTopology
<1>3. devices \in Seq(Available)
  BY DEF BusInv, IndexExact
<1>4. Len(devices') <= MaxDevices
  BY <1>1, <1>3, BoundsAssumption
<1>5. hasPageMap' \in BOOLEAN
  BY <1>2, Zenon
<1>6. WaitsKnown'
  BY <1>2, Zenon DEF WaitsKnown
<1> QED
  BY <1>1, <1>4, <1>5, <1>6 DEF BusInv, StateTyped

LEMMA FinishTyped ==
  ASSUME BusInv, NEW op, NEW size, NEW a, NEW tag, op = "write" => tag \in Tags,
         NEW result \in Results(devices), Finish(op, size, a, tag, result)
  PROVE  WaitsKnown' /\ StateTyped'
<1>1. /\ accesses' = accesses + 1 /\ store' = StoreAfter(op, tag, result)
      /\ UNCHANGED <<topology, waitHook>>
  BY DEF Finish
<1>2. /\ last'.fault = result.fault /\ last'.at = result.at /\ last'.waits = result.waits
  BY DEF Finish, Map!Outcome
<1>3. /\ result.fault \in Faults /\ result.at \in Address /\ result.waits \in Nat
  BY DEF Results
<1>4. store' \in Stores
  BY <1>1, StoreType DEF BusInv, StateTyped
<1>5. WaitsKnown'
  BY <1>1 DEF BusInv, WaitsKnown, topology
<1>6. /\ Len(devices') <= MaxDevices /\ waitHook' \in BOOLEAN /\ hasPageMap' \in BOOLEAN
      /\ accesses' \in Nat
  BY <1>1 DEF BusInv, StateTyped, topology
<1> QED
  BY <1>2, <1>3, <1>4, <1>5, <1>6 DEF StateTyped

LEMMA NextTyped == BusInv /\ [Next]_vars => WaitsKnown' /\ StateTyped'
<1> SUFFICES ASSUME BusInv, [Next]_vars PROVE WaitsKnown' /\ StateTyped'
  OBVIOUS
<1>0. ASSUME UNCHANGED <<topology, store, last, accesses>>, waitHook' \in BOOLEAN
      PROVE  WaitsKnown' /\ StateTyped'
  BY <1>0 DEF topology, BusInv, WaitsKnown, StateTyped
<1>h. waitHook \in BOOLEAN
  BY DEF BusInv, StateTyped
<1>1. ASSUME NEW d \in Available, AddDevice(d) PROVE WaitsKnown' /\ StateTyped'
  BY <1>1, AddDeviceTyped
<1>2. ASSUME NEW states \in WaitSettings, SetWaitStates(states) PROVE WaitsKnown' /\ StateTyped'
  BY <1>0, <1>2, <1>h DEF SetWaitStates
<1>3. ASSUME NEW hook \in BOOLEAN, SetWaitHook(hook) PROVE WaitsKnown' /\ StateTyped'
  BY <1>0, <1>3 DEF SetWaitHook
<1>4. ASSUME NEW op, NEW size \in Sizes, NEW a \in Address, NEW tag \in Tags,
             BusAccess(op, size, a, tag) \/ CPUAccess(op, size, a, tag)
      PROVE  WaitsKnown' /\ StateTyped'
  <2>1. IndexExact /\ CachesExact
    BY DEF BusInv
  <2>2. ThroughBus(op, size, a) \in Results(devices) /\ ByCPU(op, size, a) \in Results(devices)
    BY <2>1, ThroughBusType, AccessType
  <2>3. PICK result \in Results(devices) : Finish(op, size, a, tag, result)
    BY <1>4, <2>2 DEF BusAccess, CPUAccess
  <2> QED
    BY <2>3, FinishTyped
<1>5. ASSUME NEW size \in Sizes, NEW a \in Address, Fetch(size, a) PROVE WaitsKnown' /\ StateTyped'
  <2>1. IndexExact /\ CachesExact
    BY DEF BusInv
  <2>2. ByFetch(size, a) \in Results(devices)
    BY <2>1, AccessType
  <2>3. Finish("read", size, a, 0, ByFetch(size, a))
    BY <1>5 DEF Fetch
  <2> QED
    BY <2>2, <2>3, FinishTyped
<1>6. CASE UNCHANGED vars
  BY <1>0, <1>6, <1>h DEF vars
<1> QED
  BY <1>1, <1>2, <1>3, <1>4, <1>5, <1>6 DEF Next

LEMMA InvHolds == Spec => []BusInv
<1>1. Init => BusInv
  BY InitCaches, InitIndex, InitTyped DEF BusInv
<1>2. BusInv /\ [Next]_vars => BusInv'
  BY NextCaches, NextIndex, NextTyped DEF BusInv
<1> QED
  BY <1>1, <1>2, PTL DEF Spec

(* Types of the state of the bus: faults are reported at addresses of the  *)
(* address space, and page ranges name addresses and attached devices.     *)
THEOREM TypeCorrect == Spec => []TypeOK
<1> QED
  BY InvHolds, InvTypes, PTL

-----------------------------------------------------------------------------
\* The address map: what it says of one access.

(* A cycle is charged for the device that answers.                         *)
ChargeOf(a) ==
  LET dev == DeviceForAddress(a)
  IN  IF dev = 0 THEN 0 ELSE waitStates + devices[dev].waits

WidthOf(size) == IF size = Byte THEN Byte ELSE Word

(* The names of AddressMap, in terms of this module.                       *)
Named(op, size, a) ==
  LET dev == DeviceForAddress(a)
  IN  /\ Map!Owner(a) = dev
      /\ Map!Charge(a) = ChargeOf(a)
      /\ Map!CycleFault(op, size, a) =
           IF dev = 0 THEN "bus"
           ELSE IF op = "peek" /\ devices[dev].kind = "plain" THEN "unsupported"
           ELSE IF Accepts(devices[dev], WidthOf(size), a) THEN "none" ELSE "bus"

LEMMA MapNames ==
  ASSUME IndexExact, NEW op, NEW size, NEW a \in Address
  PROVE  Named(op, size, a)
<1>1. Map!Owner(a) = DeviceForAddress(a)
  BY IndexGivesLookup DEF LookupIsFirstMatch
<1>2. Map!Charge(a) = ChargeOf(a)
  BY <1>1, Zenon DEF Map!Charge, ChargeOf
<1>3. \A d, w : Map!Accepts(d, w, a) <=> Accepts(d, w, a)
  BY DEF Map!Accepts, Accepts, Map!Covers, Covers, Map!End, End
<1>4. Map!Width(size) = WidthOf(size)
  BY DEF Map!Width, WidthOf, Map!Byte, Byte, Map!Word, Word
<1> DEFINE dev == DeviceForAddress(a)
<1>5. Map!CycleFault(op, size, a) =
        CASE dev = 0 -> "bus"
          [] dev # 0 /\ op = "peek" /\ devices[dev].kind = "plain" -> "unsupported"
          [] OTHER -> IF Accepts(devices[dev], WidthOf(size), a) THEN "none" ELSE "bus"
  BY <1>1, <1>3, <1>4, Zenon DEF Map!CycleFault
<1> HIDE DEF dev
<1>6. Map!CycleFault(op, size, a) =
        IF dev = 0 THEN "bus"
        ELSE IF op = "peek" /\ devices[dev].kind = "plain" THEN "unsupported"
        ELSE IF Accepts(devices[dev], WidthOf(size), a) THEN "none" ELSE "bus"
  <2>1. CASE dev = 0
    BY <1>5, <2>1
  <2>2. CASE dev # 0 /\ op = "peek" /\ devices[dev].kind = "plain"
    BY <1>5, <2>2
  <2>3. CASE dev # 0 /\ ~(op = "peek" /\ devices[dev].kind = "plain")
    BY <1>5, <2>3
  <2> QED
    BY <2>1, <2>2, <2>3
<1> QED
  BY <1>1, <1>2, <1>6, Zenon DEF dev, Named

(* A cycle of the bus, in these terms.                                     *)
Answered(r, op, size, a) ==
  LET fault == Map!CycleFault(op, size, a)
  IN  r = Result(fault, a, IF waitHook /\ op # "peek" THEN Map!Charge(a) ELSE 0,
                 IF fault = "none" THEN Bytes(Map!Owner(a), a, WidthOf(size)) ELSE <<>>)

LEMMA CycleAnswers ==
  ASSUME BusInv, NEW op, NEW size \in Sizes, NEW a \in Address
  PROVE  Answered(Cycle(op, WidthOf(size), a), op, size, a)
<1> DEFINE dev == DeviceForAddress(a)
           w == WidthOf(size)
           fault == Map!CycleFault(op, size, a)
           waits == IF op = "peek" THEN 0 ELSE WaitFor(dev)
           moved == Bytes(dev, a, w)
<1>1. IndexExact
  BY DEF BusInv
<1>2. Named(op, size, a)
  BY <1>1, MapNames
<1>3. /\ Map!Owner(a) = dev
      /\ Map!Charge(a) = ChargeOf(a)
      /\ fault = IF dev = 0 THEN "bus"
                 ELSE IF op = "peek" /\ devices[dev].kind = "plain" THEN "unsupported"
                 ELSE IF Accepts(devices[dev], w, a) THEN "none" ELSE "bus"
  BY <1>2, Zenon DEF Named
<1>4. ChargeOf(a) = IF dev = 0 THEN 0 ELSE waitStates + devices[dev].waits
  BY Zenon DEF ChargeOf
<1>5. dev \in 0 .. Len(devices) /\ devices \in Seq(Available)
  BY <1>1, LookupType DEF IndexExact
<1>6. ASSUME dev # 0
      PROVE  waits = IF waitHook /\ op # "peek" THEN Map!Charge(a) ELSE 0
  <2>1. dev \in 1 .. Len(devices) /\ devices[dev] \in Available /\ dev \in DOMAIN devices
    <3> HIDE DEF dev
    <3> QED
      BY <1>5, <1>6
  <2>2. devices[dev].waits \in Nat /\ waitStates \in Nat
    <3>1. waitStates \in Nat
      BY WaitAssumption DEF BusInv, CachesExact
    <3> HIDE DEF dev
    <3> QED
      BY <2>1, <3>1, DevicesAssumption DEF WellFormed, Device
  <2>3. ~hasWaitStateDevices => devices[dev].waits = 0
    <3> HIDE DEF dev
    <3>1. hasWaitStateDevices = \E i \in DOMAIN devices : devices[i].waits > 0
      BY DEF BusInv, WaitsKnown
    <3>2. ~hasWaitStateDevices => ~(devices[dev].waits > 0)
      BY <2>1, <3>1
    <3> QED
      BY <2>2, <3>2
  <2>4. WaitFor(dev) = IF waitHook THEN waitStates + devices[dev].waits ELSE 0
    <3> HIDE DEF dev
    <3>1. (IF hasWaitStateDevices THEN devices[dev].waits ELSE 0) = devices[dev].waits
      BY <2>2, <2>3
    <3> QED
      BY <3>1, Zenon DEF WaitFor
  <2>5. Map!Charge(a) = waitStates + devices[dev].waits
    <3> HIDE DEF dev
    <3> QED
      BY <1>3, <1>4, <1>6
  <2> QED
    BY <2>4, <2>5, Zenon
<1>7. Cycle(op, w, a) =
        IF dev = 0 THEN Result("bus", a, 0, <<>>)
        ELSE IF op = "peek" /\ devices[dev].kind = "plain" THEN Result("unsupported", a, 0, <<>>)
        ELSE IF Accepts(devices[dev], w, a) THEN Result("none", a, waits, moved)
        ELSE Result("bus", a, waits, <<>>)
  BY Zenon DEF Cycle
<1> DEFINE charge == IF waitHook /\ op # "peek" THEN Map!Charge(a) ELSE 0
<1>8. dev = 0 => charge = 0
  <2> HIDE DEF dev
  <2> QED
    BY <1>3, <1>4
<1>9. op = "peek" => charge = 0
  BY Zenon
<1> HIDE DEF dev, w, fault, waits, moved, charge
<1>10. Cycle(op, w, a) = Result(fault, a, charge, IF fault = "none" THEN moved ELSE <<>>)
  <2>1. CASE dev = 0
    BY <1>3, <1>7, <1>8, <2>1
  <2>2. CASE dev # 0 /\ op = "peek" /\ devices[dev].kind = "plain"
    BY <1>3, <1>7, <1>9, <2>2
  <2>3. CASE dev # 0 /\ ~(op = "peek" /\ devices[dev].kind = "plain")
    <3>1. waits = charge
      BY <1>6, <2>3 DEF charge
    <3> QED
      BY <1>3, <1>7, <2>3, <3>1
  <2> QED
    BY <2>1, <2>2, <2>3
<1> QED
  BY <1>3, <1>10, Zenon DEF Answered, dev, w, fault, moved, charge

(* How many cycles are served, when those in G would be.                   *)
LEMMA ServedIs ==
  ASSUME NEW N \in 1 .. 2, NEW G \in SUBSET (1 .. N)
  PROVE  Max({n \in 0 .. N : \A k \in 1 .. n : k \in G}) =
           IF 1 \notin G THEN 0 ELSE IF N = 1 \/ 2 \notin G THEN 1 ELSE 2
<1> DEFINE S == {n \in 0 .. N : \A k \in 1 .. n : k \in G}
           m == IF 1 \notin G THEN 0 ELSE IF N = 1 \/ 2 \notin G THEN 1 ELSE 2
<1> SUFFICES Max(S) = m
  OBVIOUS
<1>1. S \in SUBSET Nat
  OBVIOUS
<1>2. m \in S
  OBVIOUS
<1>3. ASSUME NEW y \in S PROVE y <= m
  <2>1. y \in 0 .. N /\ \A k \in 1 .. y : k \in G
    OBVIOUS
  <2>2. N = 1 \/ N = 2
    OBVIOUS
  <2>3. CASE y = 0
    BY <2>3
  <2>4. CASE y = 1
    <3>1. 1 \in G
      BY <2>1, <2>4
    <3> QED
      BY <2>4, <3>1
  <2>5. CASE y = 2
    <3>1. 1 \in G /\ 2 \in G /\ N # 1
      BY <2>1, <2>5
    <3> QED
      BY <2>5, <3>1
  <2> QED
    BY <2>1, <2>2, <2>3, <2>4, <2>5
<1> HIDE DEF S, m
<1> QED
  BY <1>1, <1>2, <1>3, GreatestIs

(* The cycles of an access.                                                *)
CyclesNamed(size, a) ==
  Map!Cycles(size, a) = IF size = Long THEN <<a, Wrap(a + Word)>> ELSE <<a>>

LEMMA CyclesAre == ASSUME NEW size, NEW a PROVE CyclesNamed(size, a)
  BY Zenon DEF CyclesNamed, Map!Cycles, Map!Long, Long, Map!Wrap, Wrap, Map!Word, Word

Ends(op, size, c) == Map!CycleFault(op, size, c) = "none"

LEMMA CompletedIs ==
  ASSUME NEW op, NEW size, NEW a
  PROVE  Map!Completed(op, size, a) =
           IF ~Ends(op, size, a) THEN 0
           ELSE IF size # Long \/ ~Ends(op, size, Wrap(a + Word)) THEN 1 ELSE 2
<1> DEFINE cycles == Map!Cycles(size, a)
           N == Len(cycles)
           G == {k \in 1 .. N : Ends(op, size, cycles[k])}
<1>1. /\ N \in 1 .. 2
      /\ cycles[1] = a
      /\ N = 1 <=> size # Long
      /\ size = Long => cycles[2] = Wrap(a + Word)
  <2>1. cycles = IF size = Long THEN <<a, Wrap(a + Word)>> ELSE <<a>>
    BY CyclesAre, Zenon DEF CyclesNamed
  <2> HIDE DEF cycles
  <2> QED
    BY <2>1
<1> HIDE DEF cycles, N
<1>2. {n \in 0 .. N : \A k \in 1 .. n : Map!CycleFault(op, size, cycles[k]) = "none"} =
      {n \in 0 .. N : \A k \in 1 .. n : k \in G}
  <2>1. ASSUME NEW n \in 0 .. N, NEW k \in 1 .. n
        PROVE  Map!CycleFault(op, size, cycles[k]) = "none" <=> k \in G
    <3>1. k \in 1 .. N
      BY <1>1
    <3> QED
      BY <3>1 DEF Ends
  <2> HIDE DEF G
  <2> QED
    BY <2>1
<1>3. \A S : Map!Max(S) = Max(S)
  BY DEF Map!Max, Max
<1>4. Map!Completed(op, size, a) =
        Map!Max({n \in 0 .. N : \A k \in 1 .. n : Map!CycleFault(op, size, cycles[k]) = "none"})
  BY Zenon DEF Map!Completed, cycles, N
<1>5. Map!Completed(op, size, a) = Max({n \in 0 .. N : \A k \in 1 .. n : k \in G})
  <2> HIDE DEF G
  <2> QED
    BY <1>2, <1>3, <1>4, Zenon
<1>6. /\ 1 \in G <=> Ends(op, size, a)
      /\ size = Long => (2 \in G <=> Ends(op, size, Wrap(a + Word)))
  BY <1>1
<1>7. G \in SUBSET (1 .. N)
  OBVIOUS
<1> HIDE DEF G
<1>8. Max({n \in 0 .. N : \A k \in 1 .. n : k \in G}) =
           IF 1 \notin G THEN 0 ELSE IF N = 1 \/ 2 \notin G THEN 1 ELSE 2
  BY <1>1, <1>7, ServedIs
<1> QED
  BY <1>1, <1>5, <1>6, <1>8

(* The bytes moved in one cycle, and in two.                               *)
LEMMA MovedShort ==
  ASSUME NEW op, NEW size \in {Byte, Word}, NEW a \in Nat
  PROVE  Map!Moved(op, size, a) =
           IF Ends(op, size, a) THEN Bytes(Map!Owner(a), a, WidthOf(size)) ELSE <<>>
<1> DEFINE w == WidthOf(size)
           n == Map!Completed(op, size, a)
           cycle(k) == Map!Cycles(size, a)[(k - 1) \div w + 1]
<1>1. w \in 1 .. 2 /\ size # Long /\ Map!Width(size) = w
  BY DEF WidthOf, Map!Width, Map!Byte, Byte, Map!Word, Word, Long
<1>2. n = IF Ends(op, size, a) THEN 1 ELSE 0
  BY <1>1, CompletedIs
<1>3. Map!Moved(op, size, a) =
        [k \in 1 .. w * n |-> [device |-> Map!Owner(cycle(k)), address |-> cycle(k) + ((k - 1) % w)]]
  <2> HIDE DEF w
  <2> QED
    BY <1>1, Zenon DEF Map!Moved
<1>4. Map!Cycles(size, a) = <<a>>
  BY <1>1, CyclesAre, Zenon DEF CyclesNamed
<1> HIDE DEF w, n
<1>5. ASSUME NEW k \in 1 .. w
      PROVE  cycle(k) = a /\ (k - 1) % w = k - 1
  <2>1. (k - 1) \div w = 0 /\ (k - 1) % w = k - 1
    <3>1. w = 1 \/ w = 2
      BY <1>1
    <3> QED
      BY <3>1
  <2> QED
    BY <1>4, <2>1
<1>6. CASE n = 1
  <2>1. w * n = w
    BY <1>1, <1>6
  <2>2. \A k \in 1 .. w : a + (k - 1) = a + k - 1
    BY <1>1
  <2> HIDE DEF cycle
  <2>3. Map!Moved(op, size, a) = [k \in 1 .. w |-> [device |-> Map!Owner(a), address |-> a + k - 1]]
    <3>1. \A k \in 1 .. w : [device |-> Map!Owner(cycle(k)), address |-> cycle(k) + ((k - 1) % w)] =
                            [device |-> Map!Owner(a), address |-> a + k - 1]
      BY <1>5, <2>2
    <3>2. Map!Moved(op, size, a) =
        [k \in 1 .. w |-> [device |-> Map!Owner(cycle(k)), address |-> cycle(k) + ((k - 1) % w)]]
      BY <1>3, <2>1, Zenon
    <3> QED
      BY <3>1, <3>2
  <2>4. Ends(op, size, a)
    BY <1>2, <1>6
  <2> QED
    BY <2>3, <2>4, Zenon DEF Bytes, w
<1>7. CASE n = 0
  <2>1. 1 .. w * n = {}
    BY <1>1, <1>7
  <2>2. Map!Moved(op, size, a) = <<>>
    <3> HIDE DEF cycle
    <3>1. Map!Moved(op, size, a) =
        [k \in {} |-> [device |-> Map!Owner(cycle(k)), address |-> cycle(k) + ((k - 1) % w)]]
      BY <1>3, <2>1, Zenon
    <3> QED
      BY <3>1
  <2> QED
    BY <1>2, <1>7, <2>2
<1> QED
  BY <1>2, <1>6, <1>7

LEMMA MovedLong ==
  ASSUME NEW op, NEW a \in Nat
  PROVE  LET b == Wrap(a + Word)
             high == Bytes(Map!Owner(a), a, Word)
             low == Bytes(Map!Owner(b), b, Word)
         IN  Map!Moved(op, Long, a) =
               IF ~Ends(op, Long, a) THEN <<>> ELSE IF ~Ends(op, Long, b) THEN high ELSE high \o low
<1> DEFINE b == Wrap(a + Word)
           o == Map!Owner(a)
           p == Map!Owner(b)
           high == Bytes(o, a, Word)
           low == Bytes(p, b, Word)
           n == Map!Completed(op, Long, a)
           cycle(k) == Map!Cycles(Long, a)[(k - 1) \div 2 + 1]
           byte(k) == [device |-> Map!Owner(cycle(k)), address |-> cycle(k) + ((k - 1) % 2)]
           T == [device : {o, p}, address : Int]
<1>1. /\ n = IF ~Ends(op, Long, a) THEN 0 ELSE IF ~Ends(op, Long, b) THEN 1 ELSE 2
  BY CompletedIs
<1>2. Map!Moved(op, Long, a) = [k \in 1 .. 2 * n |-> byte(k)]
  <2>1. Map!Width(Long) = 2
    BY DEF Map!Width, Map!Byte, Byte, Map!Word, Word, Long
  <2> QED
    BY <2>1, Zenon DEF Map!Moved
<1>3. Map!Cycles(Long, a) = <<a, b>>
  BY CyclesAre, Zenon DEF CyclesNamed
<1>4. b \in Nat /\ Word = 2
  BY WrapType, SpaceAssumption DEF Word, Address
<1> HIDE DEF b, n
<1>5. /\ cycle(1) = a /\ cycle(2) = a /\ cycle(3) = b /\ cycle(4) = b
      /\ (1 - 1) % 2 = 0 /\ (2 - 1) % 2 = 1 /\ (3 - 1) % 2 = 0 /\ (4 - 1) % 2 = 1
  <2>1. (1 - 1) \div 2 = 0 /\ (2 - 1) \div 2 = 0 /\ (3 - 1) \div 2 = 1 /\ (4 - 1) \div 2 = 1
    OBVIOUS
  <2> QED
    BY <1>3, <2>1
<1>6. /\ byte(1) = [device |-> o, address |-> a + 0] /\ byte(2) = [device |-> o, address |-> a + 1]
      /\ byte(3) = [device |-> p, address |-> b + 0] /\ byte(4) = [device |-> p, address |-> b + 1]
  <2> HIDE DEF cycle, o, p
  <2> QED
    BY <1>5 DEF o, p
<1> HIDE DEF byte, o, p
<1>7. /\ high \in Seq(T) /\ Len(high) = 2 /\ high[1] = byte(1) /\ high[2] = byte(2)
      /\ low \in Seq(T) /\ Len(low) = 2 /\ low[1] = byte(3) /\ low[2] = byte(4)
  <2>1. \A d \in {o, p}, c \in Nat : Bytes(d, c, 2) = [k \in 1 .. 2 |-> [device |-> d, address |-> c + k - 1]]
    BY DEF Bytes
  <2>2. \A d \in {o, p}, c \in Nat : Bytes(d, c, 2) \in [1 .. 2 -> T]
    <3>1. \A d \in {o, p}, c \in Nat : \A k \in 1 .. 2 : [device |-> d, address |-> c + k - 1] \in T
      OBVIOUS
    <3> QED
      BY <2>1, <3>1
  <2>3. \A s \in [1 .. 2 -> T] : s \in Seq(T) /\ Len(s) = 2
    <3> HIDE DEF T
    <3>1. \A s \in [1 .. 2 -> T] : s \in Seq(T)
      BY SeqDef
    <3> QED
      BY <3>1
  <2>4. \A d \in {o, p}, c \in Nat :
          Bytes(d, c, 2)[1] = [device |-> d, address |-> c + 0] /\ Bytes(d, c, 2)[2] = [device |-> d, address |-> c + 1]
    BY <2>1
  <2>5. high = Bytes(o, a, 2) /\ low = Bytes(p, b, 2)
    BY <1>4
  <2> HIDE DEF T, high, low
  <2> QED
    BY <1>4, <1>6, <2>2, <2>3, <2>4, <2>5
<1> DEFINE moved == Map!Moved(op, Long, a)
<1> HIDE DEF T, high, low
<1>8. \A k \in 1 .. 4 : byte(k) \in T
  <2>1. \A s \in Seq(T) : Len(s) = 2 => s[1] \in T /\ s[2] \in T
    OBVIOUS
  <2>2. byte(1) \in T /\ byte(2) \in T /\ byte(3) \in T /\ byte(4) \in T
    BY <1>7, <2>1
  <2>3. \A k \in 1 .. 4 : k = 1 \/ k = 2 \/ k = 3 \/ k = 4
    OBVIOUS
  <2> QED
    BY <2>2, <2>3
<1>9. \A N \in {0, 2, 4} : /\ [k \in 1 .. N |-> byte(k)] \in Seq(T)
                           /\ Len([k \in 1 .. N |-> byte(k)]) = N
                           /\ \A k \in 1 .. N : [j \in 1 .. N |-> byte(j)][k] = byte(k)
  <2> SUFFICES ASSUME NEW N \in {0, 2, 4}
               PROVE  /\ [k \in 1 .. N |-> byte(k)] \in Seq(T)
                      /\ Len([k \in 1 .. N |-> byte(k)]) = N
                      /\ \A k \in 1 .. N : [j \in 1 .. N |-> byte(j)][k] = byte(k)
    OBVIOUS
  <2>1. N \in Nat /\ \A k \in 1 .. N : k \in 1 .. 4
    OBVIOUS
  <2> DEFINE f == [k \in 1 .. N |-> byte(k)]
  <2>2. f \in [1 .. N -> T] /\ \A k \in 1 .. N : f[k] = byte(k)
    BY <1>8, <2>1
  <2> HIDE DEF f
  <2>3. f \in Seq(T)
    BY <2>1, <2>2, SeqDef
  <2>4. Len(f) = N
    BY <2>1, <2>2, <2>3
  <2> QED
    BY <2>2, <2>3, <2>4 DEF f
<1>s. \A s, t \in Seq(T) : Len(s) = Len(t) /\ (\A k \in 1 .. Len(s) : s[k] = t[k]) => s = t
  BY SeqEqual
<1>10. CASE n = 0
  <2>1. 2 * n = 0
    BY <1>10
  <2>2. moved \in Seq(T) /\ Len(moved) = 0
    BY <1>2, <1>9, <2>1
  <2>3. moved = <<>>
    <3> HIDE DEF moved
    <3> QED
      BY <2>2
  <2> QED
    BY <1>1, <1>10, <2>3 DEF b, o, p, high, low
<1>11. CASE n = 1
  <2>1. 2 * n = 2
    BY <1>11
  <2>2. moved \in Seq(T) /\ Len(moved) = 2 /\ moved[1] = byte(1) /\ moved[2] = byte(2)
    BY <1>2, <1>9, <2>1
  <2> HIDE DEF moved
  <2>3. \A k \in 1 .. 2 : moved[k] = high[k]
    <3>1. \A k \in 1 .. 2 : k = 1 \/ k = 2
      OBVIOUS
    <3> QED
      BY <1>7, <2>2, <3>1
  <2>4. moved = high
    BY <1>7, <1>s, <2>2, <2>3
  <2> QED
    BY <1>1, <1>11, <2>4 DEF b, o, p, high, low, moved
<1>12. CASE n = 2
  <2>1. 2 * n = 4
    BY <1>12
  <2>2. moved \in Seq(T) /\ Len(moved) = 4
        /\ moved[1] = byte(1) /\ moved[2] = byte(2) /\ moved[3] = byte(3) /\ moved[4] = byte(4)
    BY <1>2, <1>9, <2>1
  <2> HIDE DEF moved
  <2>3. /\ high \o low \in Seq(T) /\ Len(high \o low) = 4
        /\ (high \o low)[1] = high[1] /\ (high \o low)[2] = high[2]
        /\ (high \o low)[3] = low[1] /\ (high \o low)[4] = low[2]
    <3>1. /\ high \o low \in Seq(T)
          /\ Len(high \o low) = Len(high) + Len(low)
          /\ \A k \in 1 .. Len(high) + Len(low) :
               (high \o low)[k] = IF k <= Len(high) THEN high[k] ELSE low[k - Len(high)]
      BY <1>7, ConcatProperties
    <3>2. 3 - 2 = 1 /\ 4 - 2 = 2 /\ 2 + 2 = 4
      OBVIOUS
    <3> QED
      BY <1>7, <3>1, <3>2
  <2>4. \A k \in 1 .. 4 : moved[k] = (high \o low)[k]
    <3>1. \A k \in 1 .. 4 : k = 1 \/ k = 2 \/ k = 3 \/ k = 4
      OBVIOUS
    <3> QED
      BY <1>7, <2>2, <2>3, <3>1
  <2>5. moved = high \o low
    BY <1>s, <2>2, <2>3, <2>4
  <2> QED
    BY <1>1, <1>12, <2>5 DEF b, o, p, high, low, moved
<1>13. n = 0 \/ n = 1 \/ n = 2
  BY <1>1
<1> QED
  BY <1>10, <1>11, <1>12, <1>13

(* An access through the bus, as AddressMap describes it.                  *)
Described(r, op, size, a) ==
  LET served == Map!Completed(op, size, a)
      cycles == Map!Cycles(size, a)
      done == served = Len(cycles)
      failing == cycles[served + 1]
  IN  /\ r.fault = IF done THEN "none" ELSE Map!CycleFault(op, size, failing)
      /\ r.at = IF done THEN a ELSE failing
      /\ r.waits = Map!Charged(op, size, a)
      /\ r.moved = Map!Moved(op, size, a)
      /\ done <=> r.fault = "none"

LEMMA ChargeType == ASSUME BusInv, NEW a \in Address PROVE Map!Charge(a) \in Nat
<1>1. IndexExact /\ devices \in Seq(Available) /\ waitStates \in Nat
  BY WaitAssumption DEF BusInv, IndexExact, CachesExact
<1>2. Named("read", Byte, a)
  BY <1>1, MapNames
<1>3. Map!Charge(a) = ChargeOf(a)
  BY <1>2, Zenon DEF Named
<1> DEFINE dev == DeviceForAddress(a)
<1>4. dev \in 0 .. Len(devices)
  BY <1>1, LookupType
<1>5. ChargeOf(a) = IF dev = 0 THEN 0 ELSE waitStates + devices[dev].waits
  BY Zenon DEF ChargeOf
<1> HIDE DEF dev
<1>6. dev # 0 => devices[dev] \in Available
  BY <1>1, <1>4
<1>7. dev # 0 => devices[dev].waits \in Nat
  BY <1>6, DevicesAssumption DEF WellFormed, Device
<1> QED
  BY <1>1, <1>3, <1>5, <1>7

LEMMA ShortDescribed ==
  ASSUME BusInv, NEW op, NEW size \in {Byte, Word}, NEW a \in Address
  PROVE  Described(Cycle(op, size, a), op, size, a)
<1> DEFINE r == Cycle(op, size, a)
           fault == Map!CycleFault(op, size, a)
           charge == IF waitHook /\ op # "peek" THEN Map!Charge(a) ELSE 0
           moved == IF fault = "none" THEN Bytes(Map!Owner(a), a, WidthOf(size)) ELSE <<>>
           served == Map!Completed(op, size, a)
           cycles == Map!Cycles(size, a)
<1>1. size \in Sizes /\ WidthOf(size) = size /\ size # Long /\ a \in Nat
  BY SpaceAssumption DEF WidthOf, Sizes, Byte, Word, Long, Address
<1>2. Answered(Cycle(op, WidthOf(size), a), op, size, a)
  BY <1>1, CycleAnswers
<1>3. r = Result(fault, a, charge, moved)
  BY <1>1, <1>2, Zenon DEF Answered
<1>4. served = IF fault = "none" THEN 1 ELSE 0
  BY <1>1, CompletedIs DEF Ends
<1>5. cycles = <<a>>
  BY <1>1, CyclesAre, Zenon DEF CyclesNamed
<1>6. Map!Moved(op, size, a) = moved
  BY <1>1, MovedShort, Zenon DEF Ends
<1>7. Map!Charged(op, size, a) = charge
  <2>1. BusInv /\ Map!Long = Long
    BY DEF Map!Long, Long
  <2>2. Map!Charge(a) \in Nat
    BY ChargeType
  <2>3. Map!Charged(op, size, a) =
          IF ~waitHook \/ op = "peek" THEN 0
          ELSE Map!Charge(a) + IF size = Long /\ Map!Completed(op, size, a) > 0
                               THEN Map!Charge(Map!Wrap(a + Map!Word)) ELSE 0
    BY <2>1, Zenon DEF Map!Charged
  <2> DEFINE c == Map!Charge(a)
  <2>4. c + 0 = c
    <3> HIDE DEF c
    <3> QED
      BY <2>2 DEF c
  <2>5. Map!Charged(op, size, a) = IF ~waitHook \/ op = "peek" THEN 0 ELSE c
    <3>1. Map!Charged(op, size, a) = IF ~waitHook \/ op = "peek" THEN 0 ELSE c + 0
      BY <1>1, <2>3, Zenon
    <3> QED
      BY <2>4, <3>1, Zenon
  <2> QED
    BY <2>5, Zenon
<1> DEFINE m == Map!Moved(op, size, a)
           ch == Map!Charged(op, size, a)
<1> HIDE DEF r, fault, charge, moved, served, cycles, m, ch
<1>8. /\ r.fault = fault /\ r.at = a /\ r.waits = ch /\ r.moved = m
  BY <1>3, <1>6, <1>7 DEF Result, m, ch
<1>9. Len(cycles) = 1 /\ cycles[1] = a
  BY <1>5
<1>10. served = 0 => cycles[served + 1] = a
  BY <1>9
<1>11. /\ r.fault = IF served = Len(cycles) THEN "none" ELSE Map!CycleFault(op, size, cycles[served + 1])
       /\ r.at = IF served = Len(cycles) THEN a ELSE cycles[served + 1]
       /\ (served = Len(cycles)) <=> r.fault = "none"
  <2>1. CASE fault = "none"
    BY <1>4, <1>8, <1>9, <2>1
  <2>2. CASE fault # "none"
    <3>1. served = 0 /\ served # Len(cycles) /\ cycles[served + 1] = a
      BY <1>4, <1>9, <1>10, <2>2
    <3> QED
      BY <1>8, <2>2, <3>1 DEF fault
  <2> QED
    BY <2>1, <2>2
<1> QED
  BY <1>8, <1>11, Zenon DEF Described, r, served, cycles, m, ch

LEMMA LongDescribed ==
  ASSUME BusInv, NEW op, NEW a \in Address
  PROVE  Described(LongCycles(op, a), op, Long, a)
<1> DEFINE b == Wrap(a + Word)
           high == Cycle(op, Word, a)
           low == Cycle(op, Word, b)
           r == LongCycles(op, a)
           F1 == Map!CycleFault(op, Long, a)
           F2 == Map!CycleFault(op, Long, b)
           C1 == Map!Charge(a)
           C2 == Map!Charge(b)
           B1 == Bytes(Map!Owner(a), a, Word)
           B2 == Bytes(Map!Owner(b), b, Word)
           served == Map!Completed(op, Long, a)
           cycles == Map!Cycles(Long, a)
           ch == Map!Charged(op, Long, a)
           m == Map!Moved(op, Long, a)
           heard == waitHook /\ op # "peek"
<1>1. /\ Long \in Sizes /\ WidthOf(Long) = Word /\ a \in Nat /\ b \in Address
  <2>1. a \in Nat /\ a + Word \in Nat
    BY SpaceAssumption DEF Address, Word
  <2> QED
    BY <2>1, WrapType DEF WidthOf, Sizes, Byte, Word, Long
<1>2. /\ Answered(high, op, Long, a) /\ Answered(low, op, Long, b)
  <2>1. /\ Answered(Cycle(op, WidthOf(Long), a), op, Long, a)
        /\ Answered(Cycle(op, WidthOf(Long), b), op, Long, b)
    <3> HIDE DEF b
    <3> QED
      BY <1>1, CycleAnswers
  <2> QED
    BY <1>1, <2>1, Zenon
<1>3. /\ high = Result(F1, a, IF heard THEN C1 ELSE 0, IF F1 = "none" THEN B1 ELSE <<>>)
      /\ low = Result(F2, b, IF heard THEN C2 ELSE 0, IF F2 = "none" THEN B2 ELSE <<>>)
  BY <1>1, <1>2, Zenon DEF Answered
<1>4. served = IF F1 # "none" THEN 0 ELSE IF F2 # "none" THEN 1 ELSE 2
  BY CompletedIs, Zenon DEF Ends
<1>5. cycles = <<a, b>>
  BY CyclesAre, Zenon DEF CyclesNamed
<1>6. m = IF F1 # "none" THEN <<>> ELSE IF F2 # "none" THEN B1 ELSE B1 \o B2
  <2>1. m = IF ~Ends(op, Long, a) THEN <<>> ELSE IF ~Ends(op, Long, b) THEN B1 ELSE B1 \o B2
    BY <1>1, MovedLong
  <2> QED
    BY <2>1, Zenon DEF Ends
<1>7. C1 \in Nat /\ C2 \in Nat
  <2> HIDE DEF b
  <2> QED
    BY <1>1, ChargeType
<1>8. r = IF high.fault # "none" THEN high
          ELSE Result(low.fault, IF low.fault = "none" THEN a ELSE low.at,
                      high.waits + low.waits, high.moved \o low.moved)
  BY Zenon DEF LongCycles
<1>9. ch = IF ~heard THEN 0 ELSE C1 + (IF served > 0 THEN C2 ELSE 0)
  <2>1. Map!Long = Long /\ Map!Wrap(a + Map!Word) = b
    BY DEF Map!Long, Long, Map!Wrap, Wrap, Map!Word, Word
  <2> QED
    BY <2>1, Zenon DEF Map!Charged
<1>11. B1 \o <<>> = B1
  <2>1. Word \in Nat
    BY DEF Word
  <2>2. B1 \in Seq(Moves(Map!Owner(a)))
    BY <1>1, <2>1, BytesAre
  <2> QED
    BY <2>2, ConcatEmptySeq
<1>12. Len(cycles) = 2 /\ cycles[1] = a /\ cycles[2] = b
  BY <1>5
<1> DEFINE W1 == IF heard THEN C1 ELSE 0
           W2 == IF heard THEN C2 ELSE 0
           M1 == IF F1 = "none" THEN B1 ELSE <<>>
           M2 == IF F2 = "none" THEN B2 ELSE <<>>
<1>13. /\ high.fault = F1 /\ high.at = a /\ high.waits = W1 /\ high.moved = M1
       /\ low.fault = F2 /\ low.at = b /\ low.waits = W2 /\ low.moved = M2
  <2> HIDE DEF b, high, low, F1, F2, C1, C2, B1, B2, heard, W1, W2, M1, M2
  <2> USE DEF W1, W2, M1, M2
  <2> QED
    BY <1>3 DEF Result
<1>14. W1 \in Nat /\ W2 \in Nat
  <2> HIDE DEF C1, C2, heard
  <2> QED
    BY <1>7
<1>15. heard => W1 = C1 /\ W2 = C2
  BY Zenon
<1>16. ~heard => W1 = 0 /\ W2 = 0
  BY Zenon
<1> HIDE DEF b, high, low, r, F1, F2, C1, C2, B1, B2, served, cycles, ch, m, heard, W1, W2
<1>17. CASE F1 # "none"
  <2>1. r = high /\ served = 0 /\ m = <<>>
    BY <1>4, <1>6, <1>8, <1>13, <1>17
  <2>2. ch = W1
    <3>1. CASE heard
      BY <1>7, <1>9, <1>15, <2>1, <3>1
    <3>2. CASE ~heard
      BY <1>9, <1>16, <3>2
    <3> QED
      BY <3>1, <3>2
  <2>3. served # Len(cycles) /\ cycles[served + 1] = a
    BY <1>12, <2>1
  <2> QED
    BY <1>13, <1>17, <2>1, <2>2, <2>3, Zenon DEF Described, r, served, cycles, F1, ch, m
<1>18. CASE F1 = "none"
  <2>1. r = Result(F2, IF F2 = "none" THEN a ELSE b, W1 + W2, B1 \o M2)
    BY <1>8, <1>13, <1>18, Zenon
  <2>2. /\ r.fault = F2 /\ r.at = IF F2 = "none" THEN a ELSE b
        /\ r.waits = W1 + W2 /\ r.moved = B1 \o M2
    <3> HIDE DEF M2
    <3> QED
      BY <2>1 DEF Result
  <2>3. served > 0 /\ served \in Nat
    BY <1>4, <1>18
  <2>4. ch = W1 + W2
    <3>1. CASE heard
      BY <1>9, <1>15, <2>3, <3>1
    <3>2. CASE ~heard
      BY <1>9, <1>16, <3>2
    <3> QED
      BY <3>1, <3>2
  <2>5. m = B1 \o M2
    <3>1. CASE F2 = "none"
      BY <1>6, <1>18, <3>1, Zenon
    <3>2. CASE F2 # "none"
      BY <1>6, <1>11, <1>18, <3>2, Zenon
    <3> QED
      BY <3>1, <3>2
  <2> HIDE DEF M2
  <2>6. CASE F2 = "none"
    <3>1. served = Len(cycles)
      BY <1>4, <1>12, <1>18, <2>6
    <3> QED
      BY <2>2, <2>4, <2>5, <2>6, <3>1, Zenon DEF Described, r, served, cycles, ch, m
  <2>7. CASE F2 # "none"
    <3>1. served # Len(cycles) /\ cycles[served + 1] = b
      BY <1>4, <1>12, <1>18, <2>7
    <3> QED
      BY <2>2, <2>4, <2>5, <2>7, <3>1, Zenon DEF Described, r, served, cycles, F2, ch, m
  <2> QED
    BY <2>6, <2>7
<1> QED
  BY <1>17, <1>18

LEMMA BusDescribed ==
  ASSUME BusInv, NEW op, NEW size \in Sizes, NEW a \in Address, ValidAlignment(size, a)
  PROVE  Described(ThroughBus(op, size, a), op, size, a)
<1>1. CASE size = Long
  <2>1. ThroughBus(op, size, a) = LongCycles(op, a)
    BY <1>1, Zenon DEF ThroughBus
  <2>2. Described(LongCycles(op, a), op, Long, a)
    BY LongDescribed
  <2> QED
    BY <1>1, <2>1, <2>2, Zenon
<1>2. CASE size # Long
  <2>1. ThroughBus(op, size, a) = Cycle(op, size, a)
    BY <1>2, Zenon DEF ThroughBus
  <2>2. size \in {Byte, Word}
    BY <1>2 DEF Sizes
  <2>3. Described(Cycle(op, size, a), op, size, a)
    BY <2>2, ShortDescribed
  <2> QED
    BY <2>1, <2>3, Zenon
<1> QED
  BY <1>1, <1>2

-----------------------------------------------------------------------------
\* The direct path at the end of the address space.

(* A RAM of the whole address space would differ: the long at the last     *)
(* word faults on the direct path and wraps around on the bus.             *)
NoRAMIsWhole == \A d \in Available : d.kind = "ram" => d.size < Space

LEMMA WrappedLong ==
  ASSUME NoRAMIsWhole, CachesExact, fastRAM # 0, NEW op \in {"read", "write"}, NEW a \in Address,
         a = Space - 2
  PROVE  FastRAMAccess(Long, a) = ThroughBus(op, Long, a) /\ ReadProgramFast(Long, a) = ThroughBus(op, Long, a)
<1> DEFINE ram == devices[1]
           b == Wrap(a + Word)
           high == Cycle(op, Word, a)
           low == Cycle(op, Word, b)
<1>1. /\ fastRAM = 1 /\ ram \in Available /\ ram.kind = "ram"
  BY DEF CachesExact, FastRAM
<1>2. /\ ram.first \in Nat /\ ram.size \in Nat /\ ram.first + ram.size <= Space /\ ram.size < Space
      /\ Space \in Nat /\ Space > 0 /\ a \in Nat
  BY <1>1, DevicesAssumption, SpaceAssumption DEF WellFormed, Device, End, Address, NoRAMIsWhole
<1>3. b = 0 /\ b \in Address
  <2>1. a + Word = Space
    BY <1>2 DEF Word
  <2>2. \A n \in Nat \ {0} : n % n = 0
    OBVIOUS
  <2>3. b = 0
    BY <1>2, <2>1, <2>2 DEF Wrap
  <2> QED
    BY <1>2, <2>3 DEF Address
<1>4. Space % 2 = 0 => (Space - 2) % 2 = 0
  BY <1>2
<1>5. ValidAlignment(Long, a)
  BY <1>4, SpaceAssumption DEF ValidAlignment
<1>6. /\ high = IF Covers(ram, a) /\ a + Word <= End(ram)
                THEN Result("none", a, 0, Bytes(1, a, Word)) ELSE Result("bus", a, 0, <<>>)
      /\ low = IF Covers(ram, b) /\ b + Word <= End(ram)
               THEN Result("none", b, 0, Bytes(1, b, Word)) ELSE Result("bus", b, 0, <<>>)
  BY <1>3, CycleOnRAM
<1>7. ThroughBus(op, Long, a) =
        IF high.fault # "none" THEN high
        ELSE Result(low.fault, IF low.fault = "none" THEN a ELSE low.at,
                    high.waits + low.waits, high.moved \o low.moved)
  BY <1>5, Zenon DEF ThroughBus, LongCycles
<1> DEFINE direct == IF a < ram.first THEN Result("bus", a, 0, <<>>)
                     ELSE IF a - ram.first + 1 >= ram.size THEN Result("bus", a, 0, <<>>)
                     ELSE Result("bus", b, 0, Bytes(1, a, Word))
<1>8. FastRAMAccess(Long, a) = direct /\ ReadProgramFast(Long, a) = direct
  <2>1. a >= ram.first => FromRAM(Long, a) = IF a - ram.first + 1 >= ram.size THEN Result("bus", a, 0, <<>>)
                                        ELSE Result("bus", b, 0, Bytes(1, a, Word))
    <3>1. (a - ram.first) + 3 >= ram.size
      BY <1>2
    <3>2. Long # Byte
      BY DEF Long, Byte
    <3>3. FromRAM(Long, a) = IF (a - ram.first) + 1 >= ram.size THEN Result("bus", a, 0, <<>>)
                             ELSE IF (a - ram.first) + 3 >= ram.size
                                  THEN Result("bus", b, 0, Bytes(1, a, Word))
                             ELSE Result("none", a, 0, Bytes(1, a, Long))
      BY <1>1, <3>2, Zenon DEF FromRAM
    <3> QED
      BY <1>2, <3>1, <3>3
  <2> HIDE DEF ram
  <2>2. a < ram.first \/ a >= ram.first
    BY <1>2
  <2> QED
    BY <1>1, <1>2, <1>5, <2>1, <2>2 DEF FastRAMAccess, ReadProgramFast, ram
<1>9. CASE a < ram.first \/ a - ram.first + 1 >= ram.size
  <2>1. ~(Covers(ram, a) /\ a + Word <= End(ram))
    BY <1>2, <1>9 DEF Covers, End, Word
  <2>2. high = Result("bus", a, 0, <<>>)
    BY <1>6, <2>1
  <2>3. high.fault # "none"
    BY <2>2 DEF Result
  <2>4. ThroughBus(op, Long, a) = Result("bus", a, 0, <<>>)
    <3> HIDE DEF high, low
    <3> QED
      BY <1>7, <2>2, <2>3
  <2> QED
    BY <1>8, <1>9, <2>4
<1>10. CASE ~(a < ram.first) /\ ~(a - ram.first + 1 >= ram.size)
  <2>1. Covers(ram, a) /\ a + Word <= End(ram)
    BY <1>2, <1>10 DEF Covers, End, Word
  <2>2. high = Result("none", a, 0, Bytes(1, a, Word))
    BY <1>6, <2>1
  <2>3. ~Covers(ram, b)
    BY <1>2, <1>3, <1>10 DEF Covers, End
  <2>4. low = Result("bus", b, 0, <<>>)
    BY <1>6, <2>3
  <2>5. /\ high.fault = "none" /\ high.waits = 0 /\ high.moved = Bytes(1, a, Word)
        /\ low.fault = "bus" /\ low.at = b /\ low.waits = 0 /\ low.moved = <<>>
    <3> HIDE DEF high, low, b
    <3> QED
      BY <2>2, <2>4 DEF Result
  <2>6. Bytes(1, a, Word) \o <<>> = Bytes(1, a, Word)
    <3>1. Word \in Nat
      BY DEF Word
    <3>2. Bytes(1, a, Word) \in Seq(Moves(1))
      BY <1>2, <3>1, BytesAre
    <3> QED
      BY <3>2, ConcatEmptySeq
  <2>7. ThroughBus(op, Long, a) = Result("bus", b, 0, Bytes(1, a, Word))
    <3>1. 0 + 0 = 0
      OBVIOUS
    <3> HIDE DEF high, low, b
    <3> QED
      BY <1>7, <2>5, <2>6, <3>1
  <2> QED
    BY <1>8, <1>10, <2>7
<1> QED
  BY <1>9, <1>10

(* The direct path against the bus, wherever it is taken.                  *)
Bypasses(op, size, a) ==
  /\ ReadProgramFast(size, a) = ThroughBus("read", size, a)
  /\ \/ FastRAMAccess(size, a) = ThroughBus(op, size, a)
     \/ /\ ~ValidAlignment(size, a) /\ a < devices[fastRAM].first
        /\ FastRAMAccess(size, a) = Result("bus", a, 0, <<>>)

LEMMA DirectPath ==
  ASSUME NoRAMIsWhole, CachesExact, fastRAM # 0,
         NEW op \in {"read", "write"}, NEW size \in Sizes, NEW a \in Address
  PROVE  Bypasses(op, size, a)
<1>1. CASE a + size <= Space
  <2>1. DirectPathAgrees
    BY CachesGiveAgreement
  <2> QED
    BY <1>1, <2>1, Zenon DEF DirectPathAgrees, Bypasses
<1>2. CASE ~ValidAlignment(size, a)
  <2>1. \A o : ThroughBus(o, size, a) = Result("address", a, 0, <<>>)
    BY <1>2, Zenon DEF ThroughBus
  <2>2. ReadProgramFast(size, a) = Result("address", a, 0, <<>>)
    BY <1>2, Zenon DEF ReadProgramFast
  <2>3. FastRAMAccess(size, a) = IF a < devices[fastRAM].first THEN Result("bus", a, 0, <<>>)
                                 ELSE Result("address", a, 0, <<>>)
    BY <1>2, Zenon DEF FastRAMAccess
  <2> QED
    BY <1>2, <2>1, <2>2, <2>3, Zenon DEF Bypasses
<1>3. CASE ~(a + size <= Space) /\ ValidAlignment(size, a)
  <2>1. /\ Space \in Nat /\ Space % 2 = 0 /\ a \in 0 .. Space - 1
        /\ size \in {1, 2, 4} /\ (size = 1 \/ a % 2 = 0)
    BY <1>3, SpaceAssumption DEF Address, Sizes, Byte, Word, Long, ValidAlignment
  <2>2. size # 1
    BY <1>3, <2>1
  <2>3. a % 2 = 0 /\ (a = Space - 1 \/ a = Space - 2 \/ a = Space - 3)
    BY <1>3, <2>1, <2>2
  <2>4. a = Space - 2
    BY <2>1, <2>3
  <2>5. size = Long
    BY <1>3, <2>1, <2>2, <2>4 DEF Long
  <2>6. \A o \in {"read", "write"} :
          FastRAMAccess(Long, a) = ThroughBus(o, Long, a) /\ ReadProgramFast(Long, a) = ThroughBus(o, Long, a)
    BY <2>4, WrappedLong
  <2> QED
    BY <2>5, <2>6, Zenon DEF Bypasses
<1> QED
  BY <1>1, <1>2, <1>3

-----------------------------------------------------------------------------
\* The bus implements its address map.

LEMMA MisalignedIs == \A size, a : Map!Misaligned(size, a) <=> size # Byte /\ a % 2 = 1
  BY DEF Map!Misaligned, Map!Byte, Byte

(* A described access that takes effect is a transfer.                     *)
LEMMA FinishTransfers ==
  ASSUME NEW op, NEW size, NEW a, NEW tag, NEW t, op = "write" => t = tag,
         NEW result, Described(result, op, size, a), ~Map!Misaligned(size, a),
         Finish(op, size, a, tag, result)
  PROVE  Map!Transfer(op, size, a, t)
<1> DEFINE served == Map!Completed(op, size, a)
           cycles == Map!Cycles(size, a)
           done == served = Len(cycles)
           failing == cycles[served + 1]
           moved == Map!Moved(op, size, a)
           value == [k \in DOMAIN moved |-> store[moved[k].device][moved[k].address]]
           holds(i, b) == {k \in DOMAIN moved : moved[k] = [device |-> i, address |-> b]}
<1>1. /\ result.fault = IF done THEN "none" ELSE Map!CycleFault(op, size, failing)
      /\ result.at = IF done THEN a ELSE failing
      /\ result.waits = Map!Charged(op, size, a)
      /\ result.moved = moved
      /\ done <=> result.fault = "none"
  BY Zenon DEF Described
<1>2. last' = Map!Outcome(op, size, a, result.fault, result.at, result.waits,
                          IF op = "write" \/ result.fault # "none" THEN <<>>
                          ELSE [k \in DOMAIN result.moved |->
                                 store[result.moved[k].device][result.moved[k].address]])
  BY Zenon DEF Finish
<1>3. last' = Map!Outcome(op, size, a,
                          IF done THEN "none" ELSE Map!CycleFault(op, size, failing),
                          IF done THEN a ELSE failing,
                          Map!Charged(op, size, a),
                          IF op = "write" \/ ~done THEN <<>> ELSE value)
  <2>1. (IF op = "write" \/ result.fault # "none" THEN <<>>
         ELSE [k \in DOMAIN result.moved |-> store[result.moved[k].device][result.moved[k].address]]) =
        (IF op = "write" \/ ~done THEN <<>> ELSE value)
    <3> HIDE DEF done, moved
    <3>1. [k \in DOMAIN result.moved |-> store[result.moved[k].device][result.moved[k].address]] = value
      BY <1>1, Zenon
    <3> HIDE DEF value
    <3> QED
      BY <1>1, <3>1, Zenon
  <2> HIDE DEF done, moved, value, served, failing
  <2> QED
    BY <1>1, <1>2, <2>1, Zenon
<1>4. Map!Answers(op, size, a)
  <2>1. \E f, at, w, v : last' = Map!Outcome(op, size, a, f, at, w, v)
    BY <1>2, Zenon
  <2>2. PICK f, at, w, v : last' = Map!Outcome(op, size, a, f, at, w, v)
    BY <2>1
  <2> QED
    BY <2>2 DEF Map!Answers, Map!Outcome
<1>5. store' = IF op # "write" THEN store
               ELSE [i \in 1 .. MaxDevices |-> [b \in Map!Address |->
                       IF holds(i, b) = {} THEN store[i][b] ELSE Map!Lane(t, Map!Max(holds(i, b)))]]
  <2>1. \A S : Map!Max(S) = Max(S)
    BY DEF Map!Max, Max
  <2>2. store' = IF op = "write" THEN Overwritten(moved, tag) ELSE store
    <3>1. store' = StoreAfter(op, tag, result)
      BY Zenon DEF Finish
    <3> HIDE DEF moved
    <3> QED
      BY <1>1, <3>1, Zenon DEF StoreAfter
  <2>3. \A i, b : Lanes(moved, i, b) = holds(i, b)
    <3> HIDE DEF moved
    <3> QED
      BY Zenon DEF Lanes
  <2>4. Map!Address = Address
    BY DEF Map!Address, Address
  <2>5. Overwritten(moved, tag) =
          [i \in 1 .. MaxDevices |-> [b \in Map!Address |->
             IF holds(i, b) = {} THEN store[i][b] ELSE Map!Lane(tag, Map!Max(holds(i, b)))]]
    <3> HIDE DEF moved, holds
    <3> QED
      BY <2>1, <2>3, <2>4, Zenon DEF Overwritten
  <2> HIDE DEF moved, holds
  <2> QED
    BY <2>2, <2>5
<1>6. UNCHANGED <<devices, waitStates, waitHook>>
  BY DEF Finish, topology
<1> QED
  BY <1>3, <1>4, <1>5, <1>6, Zenon DEF Map!Transfer

(* A misaligned access leaves everything as it is.                         *)
LEMMA FinishMisaligns ==
  ASSUME BusInv, NEW op, NEW size, NEW a, NEW tag, Map!Misaligned(size, a),
         NEW fault, fault = "address" \/ (fault = "bus" /\ Map!Owner(a) = 0),
         Finish(op, size, a, tag, Result(fault, a, 0, <<>>))
  PROVE  Map!Misalign(op, size, a)
<1> DEFINE r == Result(fault, a, 0, <<>>)
<1>1. /\ r.fault = fault /\ r.at = a /\ r.waits = 0 /\ r.moved = <<>> /\ fault # "none"
  BY DEF Result
<1> HIDE DEF r
<1>2. last' = Map!Outcome(op, size, a, r.fault, r.at, r.waits,
                          IF op = "write" \/ r.fault # "none" THEN <<>>
                          ELSE [k \in DOMAIN r.moved |-> store[r.moved[k].device][r.moved[k].address]])
  BY Zenon DEF Finish, r
<1>3. last' = Map!Outcome(op, size, a, fault, a, 0, <<>>)
  BY <1>1, <1>2, Zenon
<1>4. Map!Answers(op, size, a)
  BY <1>3 DEF Map!Answers, Map!Outcome
<1>5. store' = store
  <2>1. store' = StoreAfter(op, tag, r)
    BY Zenon DEF Finish, r
  <2>2. \A i, b : Lanes(<<>>, i, b) = {}
    BY DEF Lanes
  <2>3. Overwritten(<<>>, tag) = [i \in 1 .. MaxDevices |-> [b \in Address |-> store[i][b]]]
    BY <2>2, Zenon DEF Overwritten
  <2>4. store \in [1 .. MaxDevices -> [Address -> (Tags \cup {0}) \X Nat]]
    BY DEF BusInv, StateTyped, Stores
  <2>5. store = [i \in 1 .. MaxDevices |-> [b \in Address |-> store[i][b]]]
    <3>1. \A i \in 1 .. MaxDevices : store[i] = [b \in Address |-> store[i][b]]
      BY <2>4, Zenon
    <3>2. store = [i \in 1 .. MaxDevices |-> store[i]]
      BY <2>4
    <3> QED
      BY <3>1, <3>2, Zenon
  <2> QED
    BY <1>1, <2>1, <2>3, <2>5, Zenon DEF StoreAfter
<1>6. UNCHANGED <<devices, waitStates, waitHook>>
  BY DEF Finish, topology
<1> QED
  BY <1>3, <1>4, <1>5, <1>6, Zenon DEF Map!Misalign

(* An access on either path is one of the two.                             *)
Promised(op, size, a) == Map!Misalign(op, size, a) \/ \E t \in Tags : Map!Transfer(op, size, a, t)

LEMMA BusPromised ==
  ASSUME BusInv, NEW op, NEW size \in Sizes, NEW a \in Address, NEW tag, op = "write" => tag \in Tags,
         Finish(op, size, a, tag, ThroughBus(op, size, a))
  PROVE  Promised(op, size, a)
<1>1. a % 2 = 0 \/ a % 2 = 1
  BY SpaceAssumption DEF Address
<1>2. CASE ValidAlignment(size, a)
  <2>1. ~Map!Misaligned(size, a)
    BY <1>2, MisalignedIs DEF ValidAlignment
  <2>2. PICK t \in Tags : op = "write" => t = tag
    BY TagsAssumption
  <2>3. Described(ThroughBus(op, size, a), op, size, a)
    BY <1>2, BusDescribed
  <2>4. Map!Transfer(op, size, a, t)
    BY <2>1, <2>2, <2>3, FinishTransfers
  <2> QED
    BY <2>4, Zenon DEF Promised
<1>3. CASE ~ValidAlignment(size, a)
  <2>1. Map!Misaligned(size, a)
    BY <1>1, <1>3, MisalignedIs DEF ValidAlignment
  <2>2. ThroughBus(op, size, a) = Result("address", a, 0, <<>>)
    BY <1>3, Zenon DEF ThroughBus
  <2>3. Finish(op, size, a, tag, Result("address", a, 0, <<>>))
    BY <2>2, Zenon
  <2>4. Map!Misalign(op, size, a)
    BY <2>1, <2>3, FinishMisaligns
  <2> QED
    BY <2>4, Zenon DEF Promised
<1> QED
  BY <1>2, <1>3

LEMMA DirectPromised ==
  ASSUME NoRAMIsWhole, BusInv, fastRAM # 0,
         NEW op \in {"read", "write"}, NEW size \in Sizes, NEW a \in Address,
         NEW tag, op = "write" => tag \in Tags
  PROVE  /\ Finish(op, size, a, tag, FastRAMAccess(size, a)) => Promised(op, size, a)
         /\ op = "read" /\ Finish(op, size, a, tag, ReadProgramFast(size, a)) => Promised(op, size, a)
<1>1. CachesExact /\ IndexExact
  BY DEF BusInv
<1>2. Bypasses(op, size, a)
  BY <1>1, DirectPath
<1>3. ASSUME Finish(op, size, a, tag, FastRAMAccess(size, a)) PROVE Promised(op, size, a)
  <2>1. CASE FastRAMAccess(size, a) = ThroughBus(op, size, a)
    <3>1. Finish(op, size, a, tag, ThroughBus(op, size, a))
      BY <1>3, <2>1, Zenon
    <3> QED
      BY <3>1, BusPromised
  <2>2. CASE /\ ~ValidAlignment(size, a) /\ a < devices[fastRAM].first
             /\ FastRAMAccess(size, a) = Result("bus", a, 0, <<>>)
    <3>1. Map!Misaligned(size, a)
      <4>1. a % 2 = 0 \/ a % 2 = 1
        BY SpaceAssumption DEF Address
      <4> QED
        BY <2>2, <4>1, MisalignedIs DEF ValidAlignment
    <3>2. Finish(op, size, a, tag, Result("bus", a, 0, <<>>))
      BY <1>3, <2>2, Zenon
    <3>3. Map!Owner(a) = 0
      <4>1. fastRAM = 1 /\ singleRAM = 1
        BY <1>1 DEF CachesExact, FastRAM
      <4>2. devices[1] \in Available /\ a \in Nat
        <5>1. devices \in Seq(Available) /\ Len(devices) = 1
          BY <1>1, <4>1 DEF CachesExact
        <5>2. devices[1] \in Available
          BY <5>1
        <5> QED
          BY <5>2, SpaceAssumption DEF Address
      <4>3. devices[1].first \in Nat
        BY <4>2, DevicesAssumption, SpaceAssumption DEF WellFormed, Device, Address
      <4>4. ~Covers(devices[1], a)
        BY <2>2, <4>1, <4>2, <4>3 DEF Covers
      <4>5. DeviceForAddress(a) = IF Covers(devices[1], a) THEN 1 ELSE 0
        BY <4>1, Zenon DEF DeviceForAddress
      <4> QED
        BY <1>1, <4>4, <4>5, IndexGivesLookup DEF LookupIsFirstMatch
    <3>4. Map!Misalign(op, size, a)
      BY <3>1, <3>2, <3>3, FinishMisaligns
    <3> QED
      BY <3>4, Zenon DEF Promised
  <2> QED
    BY <1>2, <2>1, <2>2 DEF Bypasses
<1>4. ASSUME op = "read", Finish(op, size, a, tag, ReadProgramFast(size, a)) PROVE Promised(op, size, a)
  <2>1. Finish(op, size, a, tag, ThroughBus(op, size, a))
    BY <1>2, <1>4, Zenon DEF Bypasses
  <2> QED
    BY <2>1, BusPromised
<1> QED
  BY <1>3, <1>4

LEMMA StepPromised ==
  ASSUME NoRAMIsWhole, BusInv, [Next]_vars
  PROVE  [Map!Next]_(Map!vars)
<1>1. ASSUME NEW d \in Available, AddDevice(d) PROVE Map!Next
  <2>1. Map!Attach(d)
    BY <1>1, Zenon DEF AddDevice, RefreshTopology, Map!Attach
  <2> QED
    BY <2>1, Zenon DEF Map!Next
<1>h. waitHook \in BOOLEAN /\ waitStates \in WaitSettings
  BY DEF BusInv, StateTyped, CachesExact
<1>2. ASSUME NEW states \in WaitSettings, SetWaitStates(states) PROVE Map!Next
  <2>1. waitStates' \in WaitSettings /\ waitHook' = waitHook /\ UNCHANGED <<devices, store, last>>
    BY <1>2 DEF SetWaitStates, topology
  <2>2. waitHook' \in BOOLEAN
    BY <1>h, <2>1, Zenon
  <2>3. Map!Configure
    BY <2>1, <2>2, Zenon DEF Map!Configure
  <2> QED
    BY <2>3, Zenon DEF Map!Next
<1>3. ASSUME NEW hook \in BOOLEAN, SetWaitHook(hook) PROVE Map!Next
  <2>1. waitHook' = hook /\ waitStates' = waitStates /\ UNCHANGED <<devices, store, last>>
    BY <1>3 DEF SetWaitHook, topology
  <2>2. Map!Configure
    BY <1>h, <2>1, Zenon DEF Map!Configure
  <2> QED
    BY <2>2, Zenon DEF Map!Next
<1>4. ASSUME NEW op \in Map!Operations, NEW size \in Sizes, NEW a \in Address, Promised(op, size, a)
      PROVE  Map!Next
  <2>1. size \in Map!Sizes /\ a \in Map!Address
    BY DEF Map!Sizes, Sizes, Map!Byte, Byte, Map!Word, Word, Map!Long, Long, Map!Address, Address
  <2> QED
    BY <1>4, <2>1, Zenon DEF Promised, Map!Next
<1>5. ASSUME NEW op \in Map!Operations, NEW size \in Sizes, NEW a \in Address, NEW tag \in Tags,
             BusAccess(op, size, a, tag) \/ CPUAccess(op, size, a, tag)
      PROVE  Map!Next
  <2>1. CASE Finish(op, size, a, tag, ThroughBus(op, size, a))
    <3>1. Promised(op, size, a)
      BY <2>1, BusPromised
    <3> QED
      BY <1>4, <3>1
  <2>2. CASE op # "peek" /\ fastRAM # 0 /\ Finish(op, size, a, tag, FastRAMAccess(size, a))
    <3>1. op \in {"read", "write"}
      BY <2>2 DEF Map!Operations
    <3>2. Promised(op, size, a)
      BY <2>2, <3>1, DirectPromised
    <3> QED
      BY <1>4, <3>2
  <2> QED
    BY <1>5, <2>1, <2>2, Zenon DEF BusAccess, CPUAccess, ByCPU
<1>6. ASSUME NEW size \in Sizes, NEW a \in Address, Fetch(size, a) PROVE Map!Next
  <2>1. "read" \in Map!Operations
    BY DEF Map!Operations
  <2>2. CASE Finish("read", size, a, 0, ThroughBus("read", size, a))
    <3>1. Promised("read", size, a)
      BY <2>2, BusPromised
    <3> QED
      BY <1>4, <2>1, <3>1
  <2>3. CASE fastRAM # 0 /\ Finish("read", size, a, 0, ReadProgramFast(size, a))
    <3>1. Promised("read", size, a)
      BY <2>3, DirectPromised
    <3> QED
      BY <1>4, <2>1, <3>1
  <2> QED
    BY <1>6, <2>2, <2>3, Zenon DEF Fetch, ByFetch
<1>7. CASE UNCHANGED vars
  <2>1. UNCHANGED Map!vars
    BY <1>7 DEF vars, topology, Map!vars
  <2> QED
    BY <2>1
<1> QED
  BY <1>1, <1>2, <1>3, <1>5, <1>6, <1>7 DEF Next

(* Attaching, configuring and every read, write, peek and fetch, on the    *)
(* bus or the direct path, is a step of AddressMap, if no RAM is the whole *)
(* address space.                                                          *)
THEOREM Refinement == ASSUME NoRAMIsWhole PROVE Spec => ImplementsAddressMap
<1>1. Init => Map!Init
  BY DEF Init
<1>2. BusInv /\ [Next]_vars => [Map!Next]_(Map!vars)
  BY StepPromised
<1>3. Spec => []BusInv
  BY InvHolds
<1> QED
  BY <1>1, <1>2, <1>3, PTL DEF Spec, ImplementsAddressMap, Map!Spec
=============================================================================
