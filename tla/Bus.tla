--------------------------------- MODULE Bus ---------------------------------
(***************************************************************************)
(* The bus of bus.go with the two short cuts around it.  Attaching a       *)
(* device rebuilds a page table of disjoint ranges (addPageRange), which   *)
(* lookups search before they scan the devices; a bus of one device asks   *)
(* it directly; and while that device is a RAM and no wait states are      *)
(* configured, the CPU (cpu.go) reads and writes the RAM's bytes itself,   *)
(* with its own copy of the alignment and range checks.                    *)
(*                                                                         *)
(* A device is named by its position in devices; 0 stands for nil.         *)
(***************************************************************************)
EXTENDS Devices, SequencesExt, FiniteSetsExt

CONSTANTS
  PageSize,      \* addresses of a page; 2^16 in the code
  Available,     \* the devices the host may attach
  WaitSettings,  \* the wait states SetWaitStates may set
  Tags,          \* tell the values written apart
  MaxDevices,    \* bound: devices attached
  MaxSteps       \* bound: devices attached and accesses made, together

ASSUME PageAssumption == PageSize \in Nat /\ PageSize > 0
ASSUME DevicesAssumption == \A d \in Available : WellFormed(d)
ASSUME WaitAssumption == WaitSettings \subseteq Nat /\ 0 \in WaitSettings
ASSUME TagsAssumption == Tags # {}
ASSUME BoundsAssumption == MaxDevices \in Nat /\ MaxSteps \in Nat

VARIABLES
  devices, waitStates, waitHook,       \* what the host configured
  singleDevice, singleRAM, fastRAM,    \* the cached devices
  hasWaitStateDevices, hasPageMap,     \* what is known of all devices
  pageRanges,                          \* per page, its ranges in order
  store,                               \* the bytes held by each device
  last,                                \* the outcome of the last access
  accesses                             \* ghost: accesses so far

topology == <<devices, singleDevice, singleRAM, hasWaitStateDevices, hasPageMap, pageRanges>>
vars == <<topology, waitStates, waitHook, fastRAM, store, last, accesses>>

Map == INSTANCE AddressMap

Pages == 0 .. (Space - 1) \div PageSize
PageOf(a) == a \div PageSize
PageRange(start, end, dev) == [start |-> start, end |-> end, device |-> dev]
-----------------------------------------------------------------------------
(* The page table.                                                         *)

\* A mutant of Beyond: the cursor stays on the last covered address.
BeyondOverlapping(range, end) == IF range.end >= end THEN end + 1 ELSE range.end

(* Where the cursor goes behind a range.                                   *)
Beyond(range, end) == IF range.end >= end THEN end + 1 ELSE range.end + 1

(* A loop: its variables after N rounds.                                   *)
Loop(Round(_, _), first, N) ==
  LET after[n \in 0 .. N] == IF n = 0 THEN first ELSE Round(after[n - 1], n)
  IN  after[N]

(* The cursor passes one range; what it skips is a gap.                    *)
Pass(w, range, end, dev) ==
  IF w.done \/ range.end < w.cursor THEN w
  ELSE IF range.start > end THEN [w EXCEPT !.done = TRUE]
  ELSE [cursor |-> Beyond(range, end),
        done |-> range.end >= end,
        gaps |-> IF w.cursor >= range.start THEN w.gaps
                 ELSE Append(w.gaps, PageRange(w.cursor, Min({end, range.start - 1}), dev))]

(* The parts of start..end that no range of a page covers yet.             *)
Uncovered(existing, start, end, dev) ==
  LET Round(w, n) == Pass(w, existing[n], end, dev)
      walked == Loop(Round, [cursor |-> start, done |-> FALSE, gaps |-> <<>>], Len(existing))
  IN  IF walked.cursor <= end
      THEN Append(walked.gaps, PageRange(walked.cursor, end, dev)) ELSE walked.gaps

(* New ranges go behind the old ones that do not start later.              *)
Place(ranges, range) ==
  InsertAt(ranges, Cardinality({i \in DOMAIN ranges : ranges[i].start <= range.start}) + 1, range)

Merge(existing, uncovered) ==
  LET Round(ranges, n) == Place(ranges, uncovered[n])
  IN  Loop(Round, existing, Len(uncovered))

AddPageRange(existing, start, end, dev) ==
  Merge(existing, Uncovered(existing, start, end, dev))

(* One device enters the pages it advertises.                              *)
EnterDevice(table, ds, i) ==
  LET start == ds[i].first
      end == RangeEnd(ds[i])
  IN  [page \in Pages |->
        IF HasRange(ds[i]) /\ PageOf(start) <= page /\ page <= PageOf(end)
        THEN AddPageRange(table[page], Max({start, page * PageSize}),
                          Min({end, page * PageSize + PageSize - 1}), i)
        ELSE table[page]]

\* A mutant of PageTable: later devices cover earlier ones.
PageTableNewestFirst(ds) ==
  LET Round(table, i) == EnterDevice(table, ds, Len(ds) + 1 - i)
  IN  Loop(Round, [page \in Pages |-> <<>>], Len(ds))

PageTable(ds) ==
  LET Round(table, i) == EnterDevice(table, ds, i)
  IN  Loop(Round, [page \in Pages |-> <<>>], Len(ds))

(* A round of a binary search among the ranges lo + 1 .. hi.               *)
Halve(w, ranges, a) ==
  LET mid == w.lo + (w.hi - w.lo) \div 2
      current == ranges[mid + 1]
  IN  IF w.lo >= w.hi \/ w.device # 0 THEN w
      ELSE IF a < current.start THEN [w EXCEPT !.hi = mid]
      ELSE IF a > current.end THEN [w EXCEPT !.lo = mid + 1]
      ELSE [w EXCEPT !.device = current.device]

(* Every round drops a range: there are no more rounds than ranges.        *)
FindPageMappedDevice(ranges, a) ==
  LET Round(w, n) == Halve(w, ranges, a)
  IN  Loop(Round, [lo |-> 0, hi |-> Len(ranges), device |-> 0], Len(ranges)).device
-----------------------------------------------------------------------------
(* Configuration.                                                          *)

FastRAM(ram, waits, waitDevices) == IF waits # 0 \/ waitDevices THEN 0 ELSE ram

RefreshTopology(ds) ==
  /\ devices' = ds
  /\ singleDevice' = IF Len(ds) = 1 THEN 1 ELSE 0
  /\ singleRAM' = IF Len(ds) = 1 /\ ds[1].kind = "ram" THEN 1 ELSE 0
  /\ hasWaitStateDevices' = (\E i \in DOMAIN ds : ds[i].waits > 0)
  /\ hasPageMap' = (\E i \in DOMAIN ds : HasRange(ds[i]))
  /\ pageRanges' = PageTable(ds)
  /\ fastRAM' = FastRAM(singleRAM', waitStates, hasWaitStateDevices')

(* NewBus without devices; one with devices adds them in the same way.     *)
Init ==
  /\ Map!Init
  /\ singleDevice = 0 /\ singleRAM = 0 /\ fastRAM = 0
  /\ hasWaitStateDevices = FALSE /\ hasPageMap = FALSE
  /\ pageRanges = [page \in Pages |-> <<>>]
  /\ accesses = 0

AddDevice(d) ==
  /\ Len(devices) < MaxDevices /\ accesses + Len(devices) < MaxSteps
  /\ RefreshTopology(Append(devices, d))
  /\ UNCHANGED <<waitStates, waitHook, store, last, accesses>>

\* A mutant of SetWaitStates: the cached RAM is not looked at again.
SetWaitStatesKeepingRAM(states) ==
  /\ waitStates' = states
  /\ UNCHANGED <<topology, waitHook, fastRAM, store, last, accesses>>

SetWaitStates(states) ==
  /\ waitStates' = states
  /\ fastRAM' = FastRAM(singleRAM, states, hasWaitStateDevices)
  /\ UNCHANGED <<topology, waitHook, store, last, accesses>>

SetWaitHook(hook) ==
  /\ waitHook' = hook
  /\ UNCHANGED <<topology, waitStates, fastRAM, store, last, accesses>>
-----------------------------------------------------------------------------
(* An access through the bus.  A result tells the bytes moved, in order,   *)
(* and how the access ended.                                               *)

Result(fault, at, waits, moved) ==
  [fault |-> fault, at |-> at, waits |-> waits, moved |-> moved]

Bytes(dev, a, width) == [k \in 1 .. width |-> [device |-> dev, address |-> a + k - 1]]

FindDevice(a) ==
  LET mapped == FindPageMappedDevice(pageRanges[PageOf(a)], a)
      Holds(d) == Covers(d, a)
  IN  IF hasPageMap /\ mapped # 0 THEN mapped ELSE SelectInSeq(devices, Holds)

DeviceForAddress(a) ==
  LET Asked(dev) == IF Covers(devices[dev], a) THEN dev ELSE 0
  IN  IF singleRAM # 0 THEN Asked(singleRAM)
      ELSE IF singleDevice # 0 THEN Asked(singleDevice)
      ELSE FindDevice(a)

WaitFor(dev) ==
  IF ~waitHook THEN 0
  ELSE waitStates + (IF hasWaitStateDevices THEN devices[dev].waits ELSE 0)

Cycle(op, width, a) ==
  LET dev == DeviceForAddress(a)
      waits == IF op = "peek" THEN 0 ELSE WaitFor(dev)
  IN  IF dev = 0 THEN Result("bus", a, 0, <<>>)
      ELSE IF op = "peek" /\ devices[dev].kind = "plain" THEN Result("unsupported", a, 0, <<>>)
      ELSE IF Accepts(devices[dev], width, a) THEN Result("none", a, waits, Bytes(dev, a, width))
      ELSE Result("bus", a, waits, <<>>)

\* A mutant of LongCycles: the second cycle leaves the address space.
LongCyclesUnwrapped(op, a) ==
  LET high == Cycle(op, Word, a)
      low == Cycle(op, Word, a + Word)
  IN  IF high.fault # "none" THEN high
      ELSE Result(low.fault, IF low.fault = "none" THEN a ELSE low.at,
                  high.waits + low.waits, high.moved \o low.moved)

LongCycles(op, a) ==
  LET high == Cycle(op, Word, a)
      low == Cycle(op, Word, Wrap(a + Word))
  IN  IF high.fault # "none" THEN high
      ELSE Result(low.fault, IF low.fault = "none" THEN a ELSE low.at,
                  high.waits + low.waits, high.moved \o low.moved)

ValidAlignment(size, a) == size = Byte \/ a % 2 = 0

ThroughBus(op, size, a) ==
  IF ~ValidAlignment(size, a) THEN Result("address", a, 0, <<>>)
  ELSE IF size = Long THEN LongCycles(op, a)
  ELSE Cycle(op, size, a)
-----------------------------------------------------------------------------
(* The CPU's own path to the bytes of fastRAM.                             *)

(* Both paths fetch the bytes a word at a time as far as the RAM goes.     *)
FromRAM(size, a) ==
  LET ram == devices[fastRAM]
      idx == a - ram.first
      first == IF size = Byte THEN 0 ELSE 1
  IN  IF idx + first >= ram.size THEN Result("bus", a, 0, <<>>)
      ELSE IF size = Long /\ idx + 3 >= ram.size
           THEN Result("bus", Wrap(a + Word), 0, Bytes(fastRAM, a, Word))
      ELSE Result("none", a, 0, Bytes(fastRAM, a, size))

(* Data accesses compare with the offset of the RAM before they look at    *)
(* the alignment, program fetches after it.                                *)
FastRAMAccess(size, a) ==
  IF a < devices[fastRAM].first THEN Result("bus", a, 0, <<>>)
  ELSE IF ~ValidAlignment(size, a) THEN Result("address", a, 0, <<>>)
  ELSE FromRAM(size, a)

ReadProgramFast(size, a) ==
  IF ~ValidAlignment(size, a) THEN Result("address", a, 0, <<>>)
  ELSE IF a < devices[fastRAM].first THEN Result("bus", a, 0, <<>>)
  ELSE FromRAM(size, a)

ByCPU(op, size, a) ==
  IF fastRAM # 0 THEN FastRAMAccess(size, a) ELSE ThroughBus(op, size, a)

ByFetch(size, a) ==
  IF fastRAM # 0 THEN ReadProgramFast(size, a) ELSE ThroughBus("read", size, a)
-----------------------------------------------------------------------------
(* The lanes of an access that end up in a byte of a device.               *)
Lanes(moved, i, a) == {k \in DOMAIN moved : moved[k] = [device |-> i, address |-> a]}

Overwritten(moved, tag) ==
  [i \in 1 .. MaxDevices |-> [a \in Address |->
     IF Lanes(moved, i, a) = {} THEN store[i][a] ELSE Map!Lane(tag, Max(Lanes(moved, i, a)))]]

\* A mutant of StoreAfter: a write that fails stores nothing.
StoreAfterAllOrNothing(op, tag, result) ==
  IF op = "write" /\ result.fault = "none" THEN Overwritten(result.moved, tag) ELSE store

(* A write stores the bytes it moved, also when it fails later.            *)
StoreAfter(op, tag, result) ==
  IF op = "write" THEN Overwritten(result.moved, tag) ELSE store

(* An access takes effect; a read that fails gives nothing.                *)
Finish(op, size, address, tag, result) ==
  LET value == [k \in DOMAIN result.moved |-> store[result.moved[k].device][result.moved[k].address]]
  IN  /\ accesses + Len(devices) < MaxSteps
      /\ accesses' = accesses + 1
      /\ last' = Map!Outcome(op, size, address, result.fault, result.at, result.waits,
                             IF op = "write" \/ result.fault # "none" THEN <<>> ELSE value)
      /\ store' = StoreAfter(op, tag, result)
      /\ UNCHANGED <<topology, waitStates, waitHook, fastRAM>>

BusAccess(op, size, a, tag) == Finish(op, size, a, tag, ThroughBus(op, size, a))
CPUAccess(op, size, a, tag) == op # "peek" /\ Finish(op, size, a, tag, ByCPU(op, size, a))
Fetch(size, a) == size # Byte /\ Finish("read", size, a, 0, ByFetch(size, a))

Next ==
  \/ \E d \in Available : AddDevice(d)
  \/ \E states \in WaitSettings : SetWaitStates(states)
  \/ \E hook \in BOOLEAN : SetWaitHook(hook)
  \/ \E op \in Map!Operations, size \in Sizes, a \in Address, tag \in Tags :
       BusAccess(op, size, a, tag) \/ CPUAccess(op, size, a, tag)
  \/ \E size \in Sizes, a \in Address : Fetch(size, a)

Spec == Init /\ [][Next]_vars
-----------------------------------------------------------------------------
Index == 0 .. MaxDevices

(* Types of the fields; cached devices and page ranges name devices.       *)
TypeOK ==
  /\ devices \in Seq(Available) /\ Len(devices) <= MaxDevices
  /\ waitStates \in WaitSettings /\ waitHook \in BOOLEAN
  /\ singleDevice \in {0, 1} /\ singleRAM \in {0, 1} /\ fastRAM \in {0, 1}
  /\ hasWaitStateDevices \in BOOLEAN /\ hasPageMap \in BOOLEAN
  /\ pageRanges \in [Pages -> Seq([start : Address, end : Address, device : DOMAIN devices])]
  /\ store \in [1 .. MaxDevices -> [Address -> (Tags \cup {0}) \X Nat]]
  /\ last.fault \in {"none", "bus", "address", "unsupported"}
  /\ last.at \in Address /\ last.waits \in Nat
  /\ accesses \in Nat

(* The page table and its binary search (findDevice), and the cached       *)
(* single device, give for every address the device that asking all        *)
(* devices in order gives: overlapping, adjacent, empty and page-crossing  *)
(* ranges included.                                                        *)
LookupIsFirstMatch == \A a \in Address : DeviceForAddress(a) = Map!Owner(a)

(* While the CPU bypasses the bus (fastRAMRead, fastRAMWrite,              *)
(* readProgramFastWord and Long), it moves the bytes, reports the faults   *)
(* at the addresses and charges the wait states of an access through the   *)
(* bus.  Data at an odd address below the RAM fault on both paths, but in  *)
(* different ways; a long that wraps around the address space is left out. *)
DirectPathAgrees ==
  fastRAM # 0 =>
    \A size \in Sizes, a \in Address : a + size <= Space =>
      /\ ReadProgramFast(size, a) = ThroughBus("read", size, a)
      /\ \A op \in {"read", "write"} :
           \/ FastRAMAccess(size, a) = ThroughBus(op, size, a)
           \/ /\ ~ValidAlignment(size, a) /\ a < devices[fastRAM].first
              /\ FastRAMAccess(size, a) = Result("bus", a, 0, <<>>)

(* The stronger claim that an access reports the same kind of fault on     *)
(* both paths: the bus checks the alignment before the mapping (Read and   *)
(* Write of bus.go), the CPU's data path the other way round.              *)
DirectPathFaultsAlike ==
  fastRAM # 0 =>
    \A size \in Sizes, a \in Address :
      FastRAMAccess(size, a).fault = ThroughBus("read", size, a).fault

(* Attaching a device (AddDevice, which rebuilds everything) takes no      *)
(* address away from a device that advertises it, and from another one     *)
(* only if the new device advertises it.                                   *)
OwnersKeep ==
  [][\A a \in Address :
       LET dev == DeviceForAddress(a)
       IN  /\ dev # 0
           /\ \/ Advertises(devices[dev], a)
              \/ \A i \in DOMAIN devices' \ DOMAIN devices : ~Advertises(devices'[i], a)
           => DeviceForAddress(a)' = dev]_vars

(* Tables, caches and short cuts together do what AddressMap promises, for *)
(* any order of attaching, configuring and accessing.                      *)
ImplementsAddressMap == Map!Spec
=============================================================================
