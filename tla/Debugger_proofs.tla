--------------------------- MODULE Debugger_proofs ---------------------------
(***************************************************************************)
(* Proofs about the debugger, for every set of options and limits: the     *)
(* cached flags follow what the host and RunUntil want, what is recorded   *)
(* of a step is what happened in it, and the ring implements a history.    *)
(***************************************************************************)
EXTENDS Debugger, SequenceTheorems, FiniteSetTheorems, WellFoundedInduction, TLAPS

(* The inductive invariant.  Whether the history is on is whether the ring *)
(* has a place, and an event must not change that: the ring is a sequence, *)
(* and the place written next is one of its places.                        *)
Ring(Entries) ==
  /\ history \in Seq(Entries)
  /\ historyCount \in 0 .. Len(history)
  /\ historyNext \in Nat
  /\ history # <<>> => historyNext < Len(history)

RingOK == events \in Nat /\ Ring(Nat)

Inv == RingOK /\ FlagsFollowUse

(* Writing an entry keeps the ring and its length.                         *)
LEMMA AppendKeepsRing ==
  ASSUME NEW CONSTANT E, Ring(E), NEW entry \in E, H!AppendHistory(entry)
  PROVE  Ring(E)' /\ (H!On' <=> H!On)
<1>1. CASE ~H!On
  BY <1>1 DEF H!AppendHistory, Ring, H!On, H!vars
<1>2. CASE H!On
  <2>1. history \in Seq(E) /\ Len(history) \in Nat \ {0}
    BY <1>2 DEF Ring, H!On
  <2>2. history' = [history EXCEPT ![historyNext + 1] = entry]
        /\ historyNext' = (historyNext + 1) % Len(history)
        /\ historyCount' = historyCount + (IF historyCount < Len(history) THEN 1 ELSE 0)
    BY <1>2 DEF H!AppendHistory
  <2>3. history' \in Seq(E) /\ Len(history') = Len(history)
    <3>1. historyNext + 1 \in 1 .. Len(history)
      BY <1>2, <2>1 DEF Ring, H!On
    <3> QED
      BY <2>1, <2>2, <3>1, ExceptSeq
  <2>4. historyNext' \in 0 .. (Len(history) - 1)
    BY <1>2, <2>1, <2>2 DEF Ring, H!On
  <2>5. historyCount' \in 0 .. Len(history)
    BY <2>1, <2>2 DEF Ring
  <2>6. history' # <<>>
    BY <2>1, <2>3
  <2> QED
    BY <1>2, <2>1, <2>3, <2>4, <2>5, <2>6 DEF Ring, H!On
<1> QED
  BY <1>1, <1>2

(* The remainder of a division by the length of the ring is a place of it. *)
LEMMA Remainder ==
  ASSUME NEW n \in Nat, NEW size \in Nat \ {0}
  PROVE  n % size \in 0 .. (size - 1)
OBVIOUS

(* What History returns comes from places of the ring.                     *)
LEMMA RecentInRing ==
  ASSUME NEW CONSTANT E, Ring(E), NEW i \in 1 .. historyCount
  PROVE  H!Recent[i] \in E
<1> DEFINE size == Len(history)
           start == IF historyNext < historyCount
                    THEN (historyNext + size) - historyCount ELSE historyNext - historyCount
<1>1. history \in Seq(E) /\ historyCount \in 0 .. size /\ historyNext \in Nat
  BY DEF Ring
<1>2. size \in Nat \ {0}
  BY <1>1
<1>3. start \in Nat
  BY <1>1, <1>2
<1>4. H!Recent[i] = history[((start + i - 1) % size) + 1]
  BY DEF H!Recent
<1>5. start + i - 1 \in Nat
  BY <1>1, <1>3
<1>6. (start + i - 1) % size \in 0 .. (size - 1)
  BY <1>2, <1>5, Remainder
<1>7. ((start + i - 1) % size) + 1 \in 1 .. size
  <2> HIDE DEF start
  <2>1. \A m \in 0 .. (size - 1) : m + 1 \in 1 .. size
    BY <1>2
  <2> QED
    BY <1>6, <2>1, Zenon
<1>8. \A k \in 1 .. size : history[k] \in E
  BY <1>1, ElementOfSeq
<1> QED
  BY <1>4, <1>7, <1>8, Zenon

(* A new ring is well formed.                                              *)
LEMMA ResizeKeepsRing ==
  ASSUME NEW CONSTANT E, 0 \in E, Ring(E), NEW limit \in Nat, H!SetHistoryLimit(limit)
  PROVE  Ring(E)'
<1> DEFINE kept == IF historyCount <= limit THEN historyCount ELSE limit
<1>1. CASE limit = 0
  BY <1>1 DEF H!SetHistoryLimit, Ring, H!On
<1>2. CASE limit # 0
  <2>1. history' = [i \in 1 .. limit |->
                      IF i <= kept THEN H!Recent[(historyCount - kept) + i] ELSE 0]
        /\ historyNext' = kept % limit /\ historyCount' = kept
    BY <1>2 DEF H!SetHistoryLimit, H!Blank
  <2>2. historyCount \in Nat /\ kept \in 0 .. limit /\ kept <= historyCount
    BY DEF Ring
  <2>3. \A i \in 1 .. limit : history'[i] \in E
    <3> SUFFICES ASSUME NEW i \in 1 .. limit PROVE history'[i] \in E
      OBVIOUS
    <3>1. CASE i <= kept
      <4>1. (historyCount - kept) + i \in 1 .. historyCount
        BY <2>2, <3>1
      <4> QED
        BY <2>1, <3>1, <4>1, RecentInRing
    <3>2. CASE ~(i <= kept)
      BY <2>1, <3>2
    <3> QED
      BY <3>1, <3>2
  <2>4. history' \in [1 .. limit -> E]
    BY <2>1, <2>3
  <2>5. history' \in Seq(E) /\ Len(history') = limit
    BY <2>4
  <2>6. historyNext' \in 0 .. (limit - 1)
    BY <1>2, <2>1, <2>2, Remainder
  <2>7. history' # <<>>
    BY <1>2, <2>5
  <2> QED
    BY <2>1, <2>2, <2>5, <2>6, <2>7 DEF Ring, H!On
<1> QED
  BY <1>1, <1>2

(* An event changes neither the tracers nor whether the history is on.     *)
LEMMA EventKeepsInv ==
  ASSUME Inv, Event, UNCHANGED <<tracers, run>>
  PROVE  Inv'
<1>1. events' \in Nat
  BY DEF Inv, RingOK, Event
<1>2. H!AppendHistory(events') /\ Ring(Nat)
  BY DEF Event, Inv, RingOK
<1>3. Ring(Nat)' /\ (H!On' <=> H!On)
  BY <1>1, <1>2, AppendKeepsRing
<1> QED
  BY <1>1, <1>3 DEF Inv, RingOK, FlagsFollowUse, tracers

(* A step that leaves the ring, the flags and the run alone.               *)
LEMMA QuietKeepsInv ==
  ASSUME Inv, UNCHANGED <<tracers, ring, run>>, events' \in Nat
  PROVE  Inv'
BY DEF Inv, RingOK, FlagsFollowUse, tracers, ring, Ring, H!On

(* The end of a run puts the flags back.                                   *)
LEMMA EndRunKeepsInv ==
  ASSUME Inv, EndRun, events' \in Nat
  PROVE  Inv'
<1>1. run' = [active |-> FALSE, options |-> NoOptions] /\ collectStepBus' = FALSE
  BY DEF EndRun, NoRun
<1>2. Ring(Nat)' /\ (H!On' <=> H!On)
  BY DEF EndRun, Inv, RingOK, ring, Ring, H!On
<1>3. FlagsFollowUse'
  <2>1. ~run'.active
    BY <1>1
  <2>2. collectStepBus' = (run'.active /\ Collects(run'.options))
    BY <1>1, <2>1
  <2> QED
    BY <2>2 DEF EndRun, RefreshDebugModes, FlagsFollowUse, H!On, Collects
<1> QED
  BY <1>2, <1>3 DEF Inv, RingOK

LEMMA AccessKeepsInv ==
  ASSUME Inv, NEW access, Access(access), UNCHANGED <<tracers, run>>
  PROVE  Inv'
<1>1. CASE ~Records(access)
  <2>1. events' \in Nat /\ UNCHANGED ring
    BY <1>1 DEF Access, Inv, RingOK
  <2> QED
    BY <2>1, QuietKeepsInv
<1>2. CASE Records(access)
  BY <1>2, EventKeepsInv DEF Access
<1> QED
  BY <1>1, <1>2

LEMMA AbortKeepsInv ==
  ASSUME Inv, AbortStep
  PROVE  Inv'
<1>1. events' \in Nat
  BY DEF AbortStep, Inv, RingOK
<1>2. CASE run.active
  BY <1>1, <1>2, EndRunKeepsInv DEF AbortStep
<1>3. CASE ~run.active
  BY <1>1, <1>3, QuietKeepsInv DEF AbortStep
<1> QED
  BY <1>2, <1>3

(* The host's own calls refresh the flags for what they changed.           *)
LEMMA HostKeepsInv ==
  ASSUME Inv, SetTracer \/ SetBusTracer \/ \E limit \in Limits : SetHistoryLimit(limit)
  PROVE  Inv'
<1>1. events' \in Nat /\ UNCHANGED <<collectStepBus, run>>
  BY DEF SetTracer, SetBusTracer, SetHistoryLimit, Inv, RingOK, runs
<1>2. RefreshDebugModes
  BY DEF SetTracer, SetBusTracer, SetHistoryLimit
<1>3. Ring(Nat)'
  <2>1. CASE SetTracer \/ SetBusTracer
    BY <2>1 DEF SetTracer, SetBusTracer, Inv, RingOK, ring, Ring, H!On
  <2>2. CASE \E limit \in Limits : SetHistoryLimit(limit)
    <3>1. PICK limit \in Limits : H!SetHistoryLimit(limit)
      BY <2>2 DEF SetHistoryLimit
    <3> QED
      BY <3>1, ResizeKeepsRing, LimitsAssumption DEF Inv, RingOK
  <2> QED
    BY <2>1, <2>2
<1> QED
  BY <1>1, <1>2, <1>3 DEF Inv, RingOK, FlagsFollowUse, RefreshDebugModes, H!On

LEMMA StartRunKeepsInv ==
  ASSUME Inv, NEW options \in Options, StartRun(options)
  PROVE  Inv'
<1>1. Ring(Nat)' /\ events' \in Nat
  BY DEF StartRun, Inv, RingOK, ring, Ring, H!On
<1>2. CASE RunStopReason(options) = "none"
  <2>1. run' = [active |-> TRUE, options |-> options] /\ collectStepBus' = Collects(options)
    <3>1. collectStepBus' = (RunStopReason(options) = "none" /\ Collects(options))
      BY DEF StartRun
    <3>2. Collects(options) \in BOOLEAN
      BY DEF Collects
    <3>3. run' = [active |-> TRUE, options |-> options]
      BY <1>2 DEF StartRun
    <3> QED
      BY <1>2, <3>1, <3>2, <3>3
  <2>2. run'.active /\ run'.options = options
    BY <2>1
  <2> QED
    BY <1>1, <2>1, <2>2 DEF StartRun, Inv, RingOK, RefreshDebugModes, FlagsFollowUse, H!On, Collects
<1>3. CASE RunStopReason(options) # "none"
  <2>1. run' = NoRun /\ collectStepBus' = FALSE
    BY <1>3 DEF StartRun
  <2>2. ~run'.active
    BY <2>1 DEF NoRun
  <2> QED
    BY <1>1, <2>1, <2>2 DEF StartRun, Inv, RingOK, RefreshDebugModes, FlagsFollowUse, H!On
<1> QED
  BY <1>2, <1>3

LEMMA EndStepKeepsInv ==
  ASSUME Inv, EndStep
  PROVE  Inv'
<1>1. events' \in Nat /\ UNCHANGED ring
  BY DEF EndStep, Inv, RingOK
<1>2. EndRun \/ UNCHANGED <<run, tracers>>
  BY DEF EndStep, runs
<1> QED
  BY <1>1, <1>2, QuietKeepsInv, EndRunKeepsInv

LEMMA ResetKeepsInv ==
  ASSUME Inv, Reset
  PROVE  Inv'
<1>1. UNCHANGED <<trap, busTrap, collectStepBus, history, run>> /\ events' = 0
      /\ historyNext' = 0 /\ historyCount' = 0 /\ RefreshDebugModes
  BY DEF Reset, H!Clear
<1>2. Ring(Nat)'
  BY <1>1 DEF Inv, RingOK, Ring, H!On
<1> QED
  BY <1>1, <1>2 DEF Inv, RingOK, FlagsFollowUse, RefreshDebugModes, H!On

LEMMA StepKeepsInv == Inv /\ [Next]_vars => Inv'
<1> SUFFICES ASSUME Inv, [Next]_vars PROVE Inv'
  OBVIOUS
<1> USE QuietKeepsInv
<1>1. CASE SetTracer \/ SetBusTracer \/ \E limit \in Limits : SetHistoryLimit(limit)
  BY <1>1, HostKeepsInv
<1>2. CASE \E options \in Options : StartRun(options)
  BY <1>2, StartRunKeepsInv
<1>3. CASE ReachLimit
  <2>1. EndRun /\ events' \in Nat
    BY <1>3 DEF ReachLimit, Inv, RingOK
  <2> QED
    BY <2>1, EndRunKeepsInv
<1>4. CASE BeginStep
  BY <1>4 DEF BeginStep, Inv, RingOK
<1>5. CASE FetchOpcode \/ \E access \in Accesses : AccessMemory(access)
  BY <1>5, AccessKeepsInv DEF FetchOpcode, AccessMemory, runs
<1>6. CASE FetchFault \/ StayStopped \/ Wake \/ AcceptInterrupt \/ NoInterrupt
  BY <1>6 DEF FetchFault, StayStopped, Wake, AcceptInterrupt, NoInterrupt, runs, Inv, RingOK
<1>7. CASE EndFault \/ InterruptException
  BY <1>7, EventKeepsInv DEF EndFault, InterruptException, DispatchException, runs
<1>8. CASE InterruptDispatched
  BY <1>8, EventKeepsInv DEF InterruptDispatched, DispatchInterrupt, runs
<1>9. CASE EndExecute
  <2>1. UNCHANGED <<tracers, run>> /\ (Event \/ UNCHANGED <<ring, events>>)
    BY <1>9 DEF EndExecute, DispatchException, runs
  <2> QED
    BY <2>1, EventKeepsInv DEF Inv, RingOK
<1>10. CASE SendTrace
  <2>1. UNCHANGED <<tracers, run>> /\ (Event \/ UNCHANGED <<ring, events>>)
    BY <1>10 DEF SendTrace, runs
  <2> QED
    BY <2>1, EventKeepsInv DEF Inv, RingOK
<1>11. CASE EndStep
  BY <1>11, EndStepKeepsInv
<1>12. CASE ExecuteBreakpoint \/ AccessAborts
  BY <1>12, AbortKeepsInv DEF ExecuteBreakpoint, AccessAborts
<1>13. CASE Reset
  BY <1>13, ResetKeepsInv
<1>14. CASE UNCHANGED vars
  BY <1>14 DEF vars, runs, Inv, RingOK
<1> QED
  BY <1>1, <1>2, <1>3, <1>4, <1>5, <1>6, <1>7, <1>8, <1>9, <1>10, <1>11, <1>12, <1>13, <1>14
  DEF Next

LEMMA InitInv == Init => Inv
<1> SUFFICES ASSUME Init PROVE Inv
  OBVIOUS
<1>1. RingOK /\ ~H!On
  BY DEF Init, RingOK, Ring, H!Init, H!On
<1>2. ~run.active
  BY DEF Init, NoRun
<1>3. FlagsFollowUse
  BY <1>1, <1>2 DEF Init, FlagsFollowUse
<1> QED
  BY <1>1, <1>3 DEF Inv

(* The cached flags are those of the tracers, the history and the run, for *)
(* every set of options and limits and in whatever order the host, its     *)
(* callbacks and RunUntil's own clean-up set them.                         *)
THEOREM FlagsCorrect == Spec => []FlagsFollowUse
<1>1. Inv => FlagsFollowUse
  BY DEF Inv
<1> QED
  BY <1>1, InitInv, StepKeepsInv, PTL DEF Spec

-----------------------------------------------------------------------------
(* What is recorded of a step.                                             *)

(* A set of numbers that is not empty has a least element.                 *)
LEMMA LeastElement ==
  ASSUME NEW S \in SUBSET Nat, S # {}
  PROVE  Min(S) \in S
<1> DEFINE Less == OpToRel(<, Nat)
<1>1. IsWellFoundedOn(Less, Nat)
  BY NatLessThanWellFounded
<1>2. PICK x \in S : \A y \in S : ~(<<y, x>> \in Less)
  <2> HIDE DEF Less
  <2> QED
    BY <1>1, WFMin
<1>3. \A y \in S : x <= y
  <2> SUFFICES ASSUME NEW y \in S PROVE x <= y
    OBVIOUS
  <2>1. ~(<<y, x>> \in Less)
    BY <1>2
  <2>2. x \in Nat /\ y \in Nat
    OBVIOUS
  <2>3. ~(y < x)
    BY <2>1, <2>2 DEF OpToRel
  <2> HIDE DEF Less
  <2> QED
    BY <2>2, <2>3
<1> QED
  BY <1>2, <1>3 DEF Min

(* The reason given is one of those met.                                   *)
LEMMA FirstIsMet ==
  ASSUME NEW met \in SUBSET ToSet(Reasons), met # {}
  PROVE  FirstOf(met) \in met
<1> DEFINE places == {i \in DOMAIN Reasons : Reasons[i] \in met}
<1>1. DOMAIN Reasons \subseteq Nat
  BY DEF Reasons
<1>2. places \in SUBSET Nat
  BY <1>1
<1>3. places # {}
  BY DEF ToSet
<1>4. Min(places) \in places
  <2> HIDE DEF places
  <2> QED
    BY <1>2, <1>3, LeastElement
<1> QED
  BY <1>4 DEF FirstOf

(* An access that meets the condition is found.                            *)
LEMMA WatchedIsFound ==
  ASSUME NEW options, NEW accesses \in Seq(Accesses),
         ToSet(accesses) \cap options.watched # {}
  PROVE  MatchBusAccess(options, accesses) # "none"
<1> DEFINE matching == {i \in DOMAIN accesses : accesses[i] \in options.watched}
<1>1. DOMAIN accesses \subseteq Nat
  OBVIOUS
<1>2. matching \in SUBSET Nat
  BY <1>1
<1>3. matching # {}
  BY DEF ToSet
<1>4. Min(matching) \in matching
  <2> HIDE DEF matching
  <2> QED
    BY <1>2, <1>3, LeastElement
<1>5. accesses[Min(matching)] \in Accesses
  BY <1>4, ElementOfSeq
<1> QED
  BY <1>3, <1>5 DEF MatchBusAccess, Accesses

(* While a step is under way its records are what happened in it, as far   *)
(* as anybody asked for them.                                              *)
Occurrences ==
  [exception : Exceptions \cup {"none"}, interrupt : BOOLEAN,
   accesses : Seq(Accesses), traced : BOOLEAN]

RecordsTrue ==
  /\ stepException = occurred.exception
  /\ stepInterrupt = occurred.interrupt
  /\ collectStepBus => stepBusAccesses = occurred.accesses

RecordsOK ==
  /\ stepInterrupt \in BOOLEAN
  /\ occurred \in Occurrences
  /\ phase # "idle" => RecordsTrue

LEMMA NothingOccurs == Nothing \in Occurrences
<1>1. <<>> \in Seq(Accesses)
  OBVIOUS
<1> QED
  BY <1>1 DEF Nothing, Occurrences

(* The host's calls in the middle of a step do not change what is          *)
(* collected of it.                                                        *)
LEMMA HostKeepsRecords ==
  ASSUME RecordsOK, SetTracer \/ SetBusTracer \/ \E limit \in Limits : SetHistoryLimit(limit)
  PROVE  RecordsOK'
<1>1. UNCHANGED <<collectStepBus, stepException, stepInterrupt, stepBusAccesses, phase>>
      /\ StillTraced
  BY DEF SetTracer, SetBusTracer, SetHistoryLimit, records
<1>2. occurred \in Occurrences
  BY DEF RecordsOK
<1>3. occurred' = [occurred EXCEPT !.traced =
                     occurred.traced /\ (traceInstructions' \/ traceBus')]
  BY <1>1 DEF StillTraced
<1>4. (occurred.traced /\ (traceInstructions' \/ traceBus')) \in BOOLEAN
  OBVIOUS
<1>5. /\ occurred' \in Occurrences /\ occurred'.exception = occurred.exception
      /\ occurred'.interrupt = occurred.interrupt /\ occurred'.accesses = occurred.accesses
  <2> DEFINE still == occurred.traced /\ (traceInstructions' \/ traceBus')
  <2>1. still \in BOOLEAN /\ occurred' = [occurred EXCEPT !.traced = still]
    BY <1>3, <1>4
  <2> HIDE DEF still
  <2> QED
    BY <1>2, <2>1 DEF Occurrences
<1> QED
  BY <1>1, <1>5 DEF RecordsOK, RecordsTrue

(* Nothing is left of the step before.                                     *)
LEMMA BeginKeepsRecords ==
  ASSUME RecordsOK, BeginStep
  PROVE  RecordsOK'
<1>1. stepException' = "none" /\ stepInterrupt' = FALSE /\ stepBusAccesses' = <<>>
  <2>1. CASE Recorded
    BY <2>1 DEF BeginStep, ResetStepDebugState
  <2>2. CASE ~Recorded
    BY <2>2 DEF BeginStep, Recorded, records, RecordsOK
  <2> QED
    BY <2>1, <2>2
<1>2. /\ occurred' \in Occurrences /\ occurred'.exception = "none"
      /\ occurred'.interrupt = FALSE /\ occurred'.accesses = <<>>
  <2> DEFINE traced == traceInstructions \/ traceBus
  <2>1. traced \in BOOLEAN /\ occurred' = [Nothing EXCEPT !.traced = traced]
    BY DEF BeginStep
  <2>2. Nothing \in Occurrences /\ Nothing.exception = "none" /\ Nothing.interrupt = FALSE
        /\ Nothing.accesses = <<>>
    BY NothingOccurs DEF Nothing
  <2> HIDE DEF traced
  <2> QED
    BY <2>1, <2>2 DEF Occurrences
<1> QED
  BY <1>1, <1>2 DEF RecordsOK, RecordsTrue

(* Accesses are collected as long as anybody asked: the flag is set.       *)
LEMMA AccessKeepsRecords ==
  ASSUME Inv, RecordsOK, NEW access \in Accesses, Access(access),
         phase # "idle", phase' # "idle", UNCHANGED tracers
  PROVE  RecordsOK'
<1>1. UNCHANGED <<stepException, stepInterrupt, collectStepBus>>
  BY DEF Access, tracers
<1>2. /\ occurred' \in Occurrences /\ occurred'.exception = occurred.exception
      /\ occurred'.interrupt = occurred.interrupt
      /\ occurred'.accesses = Append(occurred.accesses, access)
  <2>1. occurred' = [occurred EXCEPT !.accesses = Append(occurred.accesses, access)]
    BY DEF Access
  <2>2. occurred \in Occurrences
    BY DEF RecordsOK
  <2>3. Append(occurred.accesses, access) \in Seq(Accesses)
    BY <2>2 DEF Occurrences
  <2> QED
    BY <2>1, <2>2, <2>3 DEF Occurrences
<1>3. ASSUME collectStepBus
      PROVE  stepBusAccesses' = Append(stepBusAccesses, access)
  <2>1. Records(access)
    BY <1>3 DEF Records, Inv, FlagsFollowUse
  <2> QED
    BY <1>3, <2>1 DEF Access
<1> QED
  BY <1>1, <1>2, <1>3 DEF RecordsOK, RecordsTrue

LEMMA DispatchKeepsRecords ==
  ASSUME RecordsOK, phase # "idle", UNCHANGED tracers,
         DispatchInterrupt \/ \E exception \in Exceptions : DispatchException(exception)
  PROVE  RecordsOK'
<1>0. occurred \in Occurrences
  BY DEF RecordsOK
<1>1. CASE DispatchInterrupt
  <2>1. /\ stepInterrupt' = TRUE /\ UNCHANGED <<stepException, stepBusAccesses, collectStepBus>>
        /\ occurred' = [occurred EXCEPT !.interrupt = TRUE]
    BY <1>1 DEF DispatchInterrupt, tracers
  <2>2. /\ occurred' \in Occurrences /\ occurred'.exception = occurred.exception
        /\ occurred'.interrupt = TRUE /\ occurred'.accesses = occurred.accesses
    BY <1>0, <2>1 DEF Occurrences
  <2> QED
    BY <2>1, <2>2 DEF RecordsOK, RecordsTrue
<1>2. CASE \E exception \in Exceptions : DispatchException(exception)
  <2>1. PICK exception \in Exceptions :
          /\ stepException' = exception
          /\ UNCHANGED <<stepInterrupt, stepBusAccesses, collectStepBus>>
          /\ occurred' = [occurred EXCEPT !.exception = exception]
    BY <1>2 DEF DispatchException, tracers
  <2>2. /\ occurred' \in Occurrences /\ occurred'.exception = exception
        /\ occurred'.interrupt = occurred.interrupt /\ occurred'.accesses = occurred.accesses
    BY <1>0, <2>1 DEF Occurrences
  <2> QED
    BY <2>1, <2>2 DEF RecordsOK, RecordsTrue
<1> QED
  BY <1>1, <1>2

(* A step that records nothing, and one that ends.                         *)
LEMMA QuietKeepsRecords ==
  ASSUME RecordsOK, phase # "idle" \/ phase' = "idle",
         UNCHANGED <<tracers, records, occurred>>
  PROVE  RecordsOK'
BY DEF RecordsOK, RecordsTrue, tracers, records

LEMMA EndKeepsRecords ==
  ASSUME RecordsOK, phase' = "idle", UNCHANGED <<records, occurred>>
  PROVE  RecordsOK'
BY DEF RecordsOK, records

LEMMA StepKeepsRecords == Inv /\ RecordsOK /\ [Next]_vars => RecordsOK'
<1> SUFFICES ASSUME Inv, RecordsOK, [Next]_vars PROVE RecordsOK'
  OBVIOUS
<1>1. CASE SetTracer \/ SetBusTracer \/ \E limit \in Limits : SetHistoryLimit(limit)
  BY <1>1, HostKeepsRecords
<1>2. CASE (\E options \in Options : StartRun(options)) \/ ReachLimit \/ EndStep
  <2>1. phase' = "idle" /\ UNCHANGED <<records, occurred>>
    BY <1>2 DEF StartRun, ReachLimit, EndStep
  <2> QED
    BY <2>1, EndKeepsRecords
<1>3. CASE BeginStep
  BY <1>3, BeginKeepsRecords
<1>4. CASE FetchOpcode \/ \E access \in Accesses : AccessMemory(access)
  <2>1. phase # "idle" /\ phase' # "idle" /\ UNCHANGED tracers
    BY <1>4 DEF FetchOpcode, AccessMemory
  <2>2. \E access \in Accesses : Access(access)
    BY <1>4 DEF FetchOpcode, AccessMemory, Accesses
  <2> QED
    BY <2>1, <2>2, AccessKeepsRecords
<1>5. CASE FetchFault \/ StayStopped \/ Wake \/ AcceptInterrupt \/ NoInterrupt
  BY <1>5, QuietKeepsRecords
  DEF FetchFault, StayStopped, Wake, AcceptInterrupt, NoInterrupt, Enter
<1>6. CASE EndFault \/ InterruptException \/ InterruptDispatched
  BY <1>6, DispatchKeepsRecords
  DEF EndFault, InterruptException, InterruptDispatched, Enter, Exceptions
<1>7. CASE EndExecute
  <2>1. phase # "idle" /\ UNCHANGED tracers
    BY <1>7 DEF EndExecute, Enter
  <2>2. UNCHANGED <<records, occurred>> \/ \E exception \in Exceptions : DispatchException(exception)
    BY <1>7 DEF EndExecute
  <2> QED
    BY <2>1, <2>2, QuietKeepsRecords, DispatchKeepsRecords
<1>8. CASE SendTrace
  BY <1>8, QuietKeepsRecords DEF SendTrace, Enter
<1>9. CASE ExecuteBreakpoint \/ AccessAborts
  BY <1>9, EndKeepsRecords DEF ExecuteBreakpoint, AccessAborts, AbortStep
<1>10. CASE Reset
  <2>1. phase' = "idle" /\ stepInterrupt' = FALSE /\ occurred' = Nothing
    BY <1>10 DEF Reset, ResetStepDebugState
  <2> QED
    BY <2>1, NothingOccurs DEF RecordsOK
<1>11. CASE UNCHANGED vars
  BY <1>11 DEF vars, tracers, records, RecordsOK, RecordsTrue
<1> QED
  BY <1>1, <1>2, <1>3, <1>4, <1>5, <1>6, <1>7, <1>8, <1>9, <1>10, <1>11 DEF Next

LEMMA InitRecords == Init => RecordsOK
BY NothingOccurs DEF Init, RecordsOK

(* What is met by the records of a step is met by what happened in it: the *)
(* accesses matter only if they were collected.                            *)
LEMMA MetByRecords ==
  ASSUME Inv, RecordsOK, phase # "idle", run.active
  PROVE  Met(run.options, stepException, stepInterrupt, stepBusAccesses)
           = Met(run.options, occurred.exception, occurred.interrupt, occurred.accesses)
<1>1. stepException = occurred.exception /\ stepInterrupt = occurred.interrupt
  BY DEF RecordsOK, RecordsTrue
<1>2. CASE collectStepBus
  BY <1>1, <1>2 DEF RecordsOK, RecordsTrue
<1>3. CASE ~collectStepBus
  <2>1. run.options.watched = {} /\ run.options.predicate = {}
    BY <1>3 DEF Inv, FlagsFollowUse, Collects
  <2> QED
    BY <1>1, <2>1 DEF Met
<1> QED
  BY <1>2, <1>3

LEMMA StepStopsInTime ==
  ASSUME Inv, RecordsOK, Next,
         phase = "return", phase' = "idle", run.active,
         NEW met, met = Met(run.options, occurred.exception, occurred.interrupt, occurred.accesses)
  PROVE  IF met = {} THEN run'.active
         ELSE /\ ~run'.active
              /\ result'.reason = FirstOf(met)
              /\ result'.reason = "bus" =>
                   result'.access = MatchBusAccess(run.options, occurred.accesses)
<1>1. EndStep
  BY DEF Next, SetTracer, SetBusTracer, SetHistoryLimit, StartRun, ReachLimit, BeginStep,
         FetchOpcode, FetchFault, EndFault, AccessMemory, StayStopped, Wake, EndExecute,
         AcceptInterrupt, NoInterrupt, InterruptException, InterruptDispatched, SendTrace,
         ExecuteBreakpoint, AccessAborts, Reset, Enter
<1>2. RunStopReason(run.options) = IF met = {} THEN "none" ELSE FirstOf(met)
  BY MetByRecords DEF RunStopReason
<1>3. met \in SUBSET ToSet(Reasons) /\ "none" \notin ToSet(Reasons)
  <2>1. met \subseteq ToSet(Reasons)
    BY DEF Met
  <2>2. \A i \in DOMAIN Reasons : Reasons[i] # "none"
    BY DEF Reasons
  <2> QED
    BY <2>1, <2>2 DEF ToSet
<1>4. result'.reason = RunStopReason(run.options)
      /\ (RunStopReason(run.options) = "none" => UNCHANGED run)
      /\ (RunStopReason(run.options) # "none" => run' = NoRun)
  BY <1>1 DEF EndStep, EndRun
<1>5. CASE met = {}
  BY <1>2, <1>4, <1>5
<1>6. CASE met # {}
  <2>1. FirstOf(met) \in met
    BY <1>3, <1>6, FirstIsMet
  <2>2. ~run'.active /\ result'.reason = FirstOf(met)
    BY <1>2, <1>3, <1>4, <1>6, <2>1 DEF NoRun
  <2>3. ASSUME FirstOf(met) = "bus"
        PROVE  result'.access = MatchBusAccess(run.options, occurred.accesses)
    <3>1. ToSet(occurred.accesses) \cap run.options.watched # {}
      BY <2>1, <2>3 DEF Met
    <3>2. stepBusAccesses = occurred.accesses /\ occurred.accesses \in Seq(Accesses)
      BY <3>1 DEF Inv, FlagsFollowUse, Collects, RecordsOK, RecordsTrue, Occurrences
    <3>3. MatchBusAccess(run.options, occurred.accesses) # "none"
      BY <3>1, <3>2, WatchedIsFound
    <3> QED
      BY <1>1, <3>2, <3>3 DEF EndStep
  <2> QED
    BY <1>6, <2>2, <2>3
<1> QED
  BY <1>5, <1>6

(* A run stops at the first step that meets one of its conditions, whatever *)
(* tracers and rings come and go in the middle of it, and says which.      *)
THEOREM StopsCorrect == Spec => StopsInTime
<1> DEFINE met == Met(run.options, occurred.exception, occurred.interrupt, occurred.accesses)
           Step ==
             phase = "return" /\ phase' = "idle" /\ run.active =>
               IF met = {} THEN run'.active
               ELSE /\ ~run'.active
                    /\ result'.reason = FirstOf(met)
                    /\ result'.reason = "bus" =>
                         result'.access = MatchBusAccess(run.options, occurred.accesses)
<1>1. Inv /\ RecordsOK /\ [Next]_vars => [Step]_vars
  <2> SUFFICES ASSUME Inv, RecordsOK, Next, phase = "return", phase' = "idle", run.active
               PROVE  Step
    OBVIOUS
  <2> QED
    BY StepStopsInTime
<1>2. Spec => [][Step]_vars
  BY <1>1, InitInv, StepKeepsInv, InitRecords, StepKeepsRecords, PTL DEF Spec
<1> QED
  BY <1>2 DEF StopsInTime

(* The fetched bytes of a step that is under way are its own, and a step   *)
(* traced from its beginning is traced still and has all of them.          *)
BytesOwn ==
  /\ \A i \in DOMAIN traceBytes : traceBytes[i] = step
  /\ occurred.traced =>
       (traceInstructions \/ traceBus) /\ Len(traceBytes) = Cardinality(Fetches)

BytesOK ==
  /\ traceBytes \in Seq(Nat) /\ step \in Nat
  /\ phase # "idle" => BytesOwn

FetchesIn(accesses) == {i \in DOMAIN accesses : accesses[i] = "fetch"}

(* One fetch more, and no other access, makes one more of them.            *)
LEMMA FetchesGrow ==
  ASSUME NEW accesses \in Seq(Accesses), NEW access \in Accesses
  PROVE  /\ Cardinality(FetchesIn(accesses)) \in Nat
         /\ Cardinality(FetchesIn(Append(accesses, access)))
              = Cardinality(FetchesIn(accesses)) + (IF access = "fetch" THEN 1 ELSE 0)
<1> DEFINE fetches == FetchesIn(accesses)
           n == Len(accesses) + 1
<1>1. n \in Nat /\ DOMAIN accesses = 1 .. Len(accesses)
  OBVIOUS
<1>2. IsFiniteSet(fetches) /\ n \notin fetches
  <2>1. IsFiniteSet(1 .. Len(accesses))
    BY FS_Interval
  <2>2. fetches \subseteq 1 .. Len(accesses)
    BY <1>1 DEF FetchesIn
  <2>3. n \notin 1 .. Len(accesses)
    OBVIOUS
  <2> HIDE DEF fetches, n
  <2> QED
    BY <2>1, <2>2, <2>3, FS_Subset
<1>3. FetchesIn(Append(accesses, access)) = IF access = "fetch" THEN fetches \cup {n} ELSE fetches
  <2>1. /\ DOMAIN Append(accesses, access) = 1 .. n
        /\ \A i \in 1 .. Len(accesses) : Append(accesses, access)[i] = accesses[i]
        /\ Append(accesses, access)[n] = access
    OBVIOUS
  <2>2. 1 .. n = (1 .. Len(accesses)) \cup {n}
    BY <1>1
  <2> HIDE DEF n
  <2> QED
    BY <1>1, <2>1, <2>2 DEF FetchesIn
<1>4. Cardinality(fetches) \in Nat /\ Cardinality(fetches \cup {n}) = Cardinality(fetches) + 1
  <2> HIDE DEF fetches, n
  <2> QED
    BY <1>2, FS_AddElement, FS_CardinalityType
<1> HIDE DEF fetches, n
<1>5. CASE access = "fetch"
  BY <1>3, <1>4, <1>5 DEF fetches
<1>6. CASE access # "fetch"
  BY <1>3, <1>4, <1>6 DEF fetches
<1> QED
  BY <1>5, <1>6

(* A step is no longer counted as traced when the last tracer goes.        *)
LEMMA HostKeepsBytes ==
  ASSUME RecordsOK, BytesOK, SetTracer \/ SetBusTracer \/ \E limit \in Limits : SetHistoryLimit(limit)
  PROVE  BytesOK'
<1>1. UNCHANGED <<traceBytes, step, phase>> /\ StillTraced
  BY DEF SetTracer, SetBusTracer, SetHistoryLimit, records
<1> DEFINE tracing == traceInstructions' \/ traceBus'
           still == occurred.traced /\ tracing
<1>2. occurred' = [occurred EXCEPT !.traced = still]
  BY <1>1 DEF StillTraced
<1>3. still \in BOOLEAN /\ (still => tracing /\ occurred.traced)
  OBVIOUS
<1>4. occurred'.accesses = occurred.accesses /\ (occurred'.traced => tracing /\ occurred.traced)
  <2>1. occurred \in Occurrences
    BY DEF RecordsOK
  <2> HIDE DEF still, tracing
  <2>2. occurred'.accesses = occurred.accesses /\ occurred'.traced = still
    BY <1>2, <2>1 DEF Occurrences
  <2> QED
    BY <1>3, <2>2
<1> QED
  BY <1>1, <1>4 DEF BytesOK, BytesOwn, Fetches

LEMMA BeginKeepsBytes ==
  ASSUME BytesOK, BeginStep
  PROVE  BytesOK'
<1>1. step' \in Nat
  <2>1. step \in Nat /\ MaxSteps \in Nat \ {0} /\ step' = (step % MaxSteps) + 1
    BY BoundsAssumption DEF BytesOK, BeginStep
  <2> QED
    BY <2>1, Remainder
<1>2. traceBytes' = <<>>
  BY DEF BeginStep, ResetStepDebugState, Recorded, records
<1>3. occurred'.accesses = <<>> /\ (occurred'.traced => traceInstructions' \/ traceBus')
  <2> DEFINE traced == traceInstructions \/ traceBus
  <2>1. occurred' = [Nothing EXCEPT !.traced = traced] /\ (traced => traceInstructions' \/ traceBus')
    BY DEF BeginStep, tracers
  <2> HIDE DEF traced
  <2> QED
    BY <2>1 DEF Nothing
<1>4. Cardinality(Fetches') = 0
  <2>1. Fetches' = {}
    BY <1>3 DEF Fetches
  <2> QED
    BY <2>1, FS_EmptySet
<1> QED
  BY <1>1, <1>2, <1>3, <1>4 DEF BytesOK, BytesOwn

LEMMA AccessKeepsBytes ==
  ASSUME RecordsOK, BytesOK, NEW access \in Accesses, Access(access),
         phase # "idle", UNCHANGED <<tracers, step>>
  PROVE  BytesOK'
<1>1. UNCHANGED <<traceInstructions, traceBus, step>>
  BY DEF tracers
<1>2. /\ occurred.accesses \in Seq(Accesses)
      /\ occurred'.accesses = Append(occurred.accesses, access)
      /\ occurred'.traced = occurred.traced
  <2>1. occurred' = [occurred EXCEPT !.accesses = Append(occurred.accesses, access)]
    BY DEF Access
  <2> QED
    BY <2>1 DEF RecordsOK, Occurrences
<1>3. /\ Cardinality(Fetches) \in Nat
      /\ Cardinality(Fetches') = Cardinality(Fetches) + (IF access = "fetch" THEN 1 ELSE 0)
  <2>1. Fetches = FetchesIn(occurred.accesses)
        /\ Fetches' = FetchesIn(Append(occurred.accesses, access))
    BY <1>2 DEF Fetches, FetchesIn
  <2> QED
    BY <1>2, <2>1, FetchesGrow
<1>4. traceBytes \in Seq(Nat) /\ step \in Nat /\ BytesOwn
  BY DEF BytesOK
<1>5. CASE access = "fetch" /\ Records(access)
  <2>1. traceBytes' = Append(traceBytes, step)
    BY <1>5 DEF Access
  <2>2. /\ traceBytes' \in Seq(Nat) /\ Len(traceBytes') = Len(traceBytes) + 1
        /\ \A i \in DOMAIN traceBytes' : traceBytes'[i] = step
    BY <1>4, <2>1 DEF BytesOwn
  <2> QED
    BY <1>1, <1>2, <1>3, <1>4, <1>5, <2>2 DEF BytesOK, BytesOwn
<1>6. CASE access = "fetch" /\ ~Records(access)
  <2>1. ~occurred.traced /\ UNCHANGED traceBytes
    BY <1>4, <1>6 DEF Access, Records, BytesOwn
  <2> QED
    BY <1>1, <1>2, <1>4, <2>1 DEF BytesOK, BytesOwn
<1>7. CASE access # "fetch"
  <2>1. UNCHANGED traceBytes
    BY <1>7 DEF Access
  <2> QED
    BY <1>1, <1>2, <1>3, <1>4, <1>7, <2>1 DEF BytesOK, BytesOwn
<1> QED
  BY <1>5, <1>6, <1>7

(* A step that fetches nothing, and one that ends.                         *)
LEMMA QuietKeepsBytes ==
  ASSUME BytesOK, phase # "idle", UNCHANGED <<traceInstructions, traceBus, traceBytes, step>>,
         occurred'.accesses = occurred.accesses, occurred'.traced = occurred.traced
  PROVE  BytesOK'
BY DEF BytesOK, BytesOwn, Fetches

LEMMA EndKeepsBytes ==
  ASSUME BytesOK, phase' = "idle", UNCHANGED <<traceBytes, step>>
  PROVE  BytesOK'
BY DEF BytesOK

LEMMA DispatchKeepsBytes ==
  ASSUME RecordsOK, BytesOK, phase # "idle", UNCHANGED <<tracers, step>>,
         DispatchInterrupt \/ \E exception \in Exceptions : DispatchException(exception)
  PROVE  BytesOK'
<1>1. UNCHANGED <<traceInstructions, traceBus, traceBytes, step>>
  BY DEF DispatchInterrupt, DispatchException, tracers
<1>2. occurred'.accesses = occurred.accesses /\ occurred'.traced = occurred.traced
  BY DEF DispatchInterrupt, DispatchException, RecordsOK, Occurrences
<1> QED
  BY <1>1, <1>2, QuietKeepsBytes

LEMMA StepKeepsBytes == RecordsOK /\ BytesOK /\ [Next]_vars => BytesOK'
<1> SUFFICES ASSUME RecordsOK, BytesOK, [Next]_vars PROVE BytesOK'
  OBVIOUS
<1>1. CASE SetTracer \/ SetBusTracer \/ \E limit \in Limits : SetHistoryLimit(limit)
  BY <1>1, HostKeepsBytes
<1>2. CASE \/ \E options \in Options : StartRun(options)
           \/ ReachLimit \/ EndStep \/ ExecuteBreakpoint \/ AccessAborts
  <2>1. phase' = "idle" /\ UNCHANGED <<traceBytes, step>>
    BY <1>2 DEF StartRun, ReachLimit, EndStep, ExecuteBreakpoint, AccessAborts, AbortStep, records
  <2> QED
    BY <2>1, EndKeepsBytes
<1>3. CASE BeginStep
  BY <1>3, BeginKeepsBytes
<1>4. CASE FetchOpcode \/ \E access \in Accesses : AccessMemory(access)
  <2>1. phase # "idle" /\ UNCHANGED <<tracers, step>>
    BY <1>4 DEF FetchOpcode, AccessMemory
  <2>2. \E access \in Accesses : Access(access)
    BY <1>4 DEF FetchOpcode, AccessMemory, Accesses
  <2> QED
    BY <2>1, <2>2, AccessKeepsBytes
<1>5. CASE FetchFault \/ StayStopped \/ Wake \/ AcceptInterrupt \/ NoInterrupt \/ SendTrace
  <2>1. phase # "idle" /\ UNCHANGED <<tracers, records, step, occurred>>
    BY <1>5 DEF FetchFault, StayStopped, Wake, AcceptInterrupt, NoInterrupt, SendTrace, Enter
  <2> QED
    BY <2>1, QuietKeepsBytes DEF tracers, records
<1>6. CASE EndFault \/ InterruptException \/ InterruptDispatched
  BY <1>6, DispatchKeepsBytes
  DEF EndFault, InterruptException, InterruptDispatched, Enter, Exceptions
<1>7. CASE EndExecute
  <2>1. phase # "idle" /\ UNCHANGED <<tracers, step>>
    BY <1>7 DEF EndExecute, Enter
  <2>2. UNCHANGED <<records, occurred>> \/ \E exception \in Exceptions : DispatchException(exception)
    BY <1>7 DEF EndExecute
  <2> QED
    BY <2>1, <2>2, QuietKeepsBytes, DispatchKeepsBytes DEF tracers, records
<1>8. CASE Reset
  BY <1>8 DEF Reset, ResetStepDebugState, BytesOK
<1>9. CASE UNCHANGED vars
  BY <1>9 DEF vars, tracers, records, BytesOK, BytesOwn, Fetches
<1> QED
  BY <1>1, <1>2, <1>3, <1>4, <1>5, <1>6, <1>7, <1>8, <1>9 DEF Next

LEMMA InitBytes == Init => BytesOK
BY DEF Init, BytesOK

(* A trace reports the bytes of its own step, and all of them if the step  *)
(* was traced from its beginning, whoever attaches or detaches tracers in  *)
(* the middle of it.                                                       *)
THEOREM TracesCorrect == Spec => []TraceShowsOwnBytes
<1>1. BytesOK => TraceShowsOwnBytes
  BY DEF BytesOK, BytesOwn, TraceShowsOwnBytes, ToSet
<1> QED
  BY <1>1, InitRecords, InitBytes, InitInv, StepKeepsInv, StepKeepsRecords, StepKeepsBytes, PTL
  DEF Spec

-----------------------------------------------------------------------------
(* Types.                                                                  *)

RecordTypes ==
  /\ stepException \in Exceptions \cup {"none"}
  /\ stepBusAccesses \in Seq(Accesses)
  /\ traceBytes \in Seq(1 .. MaxSteps)
  /\ step \in 0 .. MaxSteps
  /\ phase # "idle" => step > 0

LEMMA NextStep ==
  ASSUME NEW s \in 0 .. MaxSteps
  PROVE  (s % MaxSteps) + 1 \in 1 .. MaxSteps
<1>1. s \in Nat /\ MaxSteps \in Nat \ {0}
  BY BoundsAssumption
<1>2. s % MaxSteps \in 0 .. (MaxSteps - 1)
  BY <1>1, Remainder
<1> QED
  BY <1>1, <1>2

LEMMA AccessKeepsRecordTypes ==
  ASSUME RecordTypes, NEW access \in Accesses, Access(access), phase # "idle", UNCHANGED step
  PROVE  RecordTypes'
<1>1. step \in 1 .. MaxSteps
  BY BoundsAssumption DEF RecordTypes
<1>2. traceBytes' \in Seq(1 .. MaxSteps)
  <2>1. traceBytes' = traceBytes \/ traceBytes' = Append(traceBytes, step)
    BY DEF Access
  <2>2. traceBytes \in Seq(1 .. MaxSteps)
    BY DEF RecordTypes
  <2>3. Append(traceBytes, step) \in Seq(1 .. MaxSteps)
    BY <1>1, <2>2
  <2> QED
    BY <2>1, <2>2, <2>3, Zenon
<1>3. stepBusAccesses' \in Seq(Accesses)
  <2>1. stepBusAccesses' = stepBusAccesses \/ stepBusAccesses' = Append(stepBusAccesses, access)
    BY DEF Access
  <2>2. stepBusAccesses \in Seq(Accesses)
    BY DEF RecordTypes
  <2>3. Append(stepBusAccesses, access) \in Seq(Accesses)
    BY <2>2
  <2> QED
    BY <2>1, <2>2, <2>3, Zenon
<1>4. UNCHANGED stepException
  BY DEF Access
<1> QED
  BY <1>1, <1>2, <1>3, <1>4 DEF RecordTypes

LEMMA StepKeepsRecordTypes == RecordTypes /\ [Next]_vars => RecordTypes'
<1> SUFFICES ASSUME RecordTypes, [Next]_vars PROVE RecordTypes'
  OBVIOUS
<1>1. ASSUME UNCHANGED <<stepBusAccesses, traceBytes, step>>,
             stepException' \in Exceptions \cup {"none"}, phase # "idle" \/ phase' = "idle"
      PROVE  RecordTypes'
  BY <1>1 DEF RecordTypes
<1>2. CASE SetTracer \/ SetBusTracer \/ \E limit \in Limits : SetHistoryLimit(limit)
  BY <1>2 DEF SetTracer, SetBusTracer, SetHistoryLimit, records, RecordTypes
<1>3. CASE \/ \E options \in Options : StartRun(options)
           \/ ReachLimit \/ EndStep \/ ExecuteBreakpoint \/ AccessAborts
  <2>1. phase' = "idle" /\ UNCHANGED <<records, step>>
    BY <1>3 DEF StartRun, ReachLimit, EndStep, ExecuteBreakpoint, AccessAborts, AbortStep
  <2> QED
    BY <1>1, <2>1 DEF records, RecordTypes
<1>4. CASE BeginStep
  <2>1. step' \in 1 .. MaxSteps
    BY <1>4, NextStep DEF BeginStep, RecordTypes
  <2>2. UNCHANGED records \/ ResetStepDebugState
    BY <1>4 DEF BeginStep
  <2>3. <<>> \in Seq(Accesses) /\ <<>> \in Seq(1 .. MaxSteps)
    OBVIOUS
  <2>4. /\ stepException' \in Exceptions \cup {"none"}
        /\ stepBusAccesses' \in Seq(Accesses)
        /\ traceBytes' \in Seq(1 .. MaxSteps)
    <3>1. CASE UNCHANGED records
      BY <3>1 DEF records, RecordTypes
    <3>2. CASE ResetStepDebugState
      BY <2>3, <3>2, Zenon DEF ResetStepDebugState
    <3> QED
      BY <2>2, <3>1, <3>2
  <2>5. step' \in 0 .. MaxSteps /\ step' > 0
    BY <2>1, BoundsAssumption
  <2> QED
    BY <2>4, <2>5 DEF RecordTypes
<1>5. CASE FetchOpcode \/ \E access \in Accesses : AccessMemory(access)
  <2>1. phase # "idle" /\ UNCHANGED step
    BY <1>5 DEF FetchOpcode, AccessMemory
  <2>2. \E access \in Accesses : Access(access)
    BY <1>5 DEF FetchOpcode, AccessMemory, Accesses
  <2> QED
    BY <2>1, <2>2, AccessKeepsRecordTypes
<1>6. CASE FetchFault \/ StayStopped \/ Wake \/ AcceptInterrupt \/ NoInterrupt \/ SendTrace
  <2>1. phase # "idle" /\ UNCHANGED <<records, step>>
    BY <1>6 DEF FetchFault, StayStopped, Wake, AcceptInterrupt, NoInterrupt, SendTrace, Enter
  <2> QED
    BY <1>1, <2>1 DEF records, RecordTypes
<1>7. CASE EndFault \/ InterruptException \/ InterruptDispatched \/ EndExecute
  <2>1. phase # "idle" /\ UNCHANGED step
    BY <1>7 DEF EndFault, InterruptException, InterruptDispatched, EndExecute, Enter
  <2>2. \/ UNCHANGED records
        \/ DispatchInterrupt
        \/ \E exception \in Exceptions : DispatchException(exception)
    BY <1>7 DEF EndFault, InterruptException, InterruptDispatched, EndExecute, Exceptions
  <2> QED
    BY <1>1, <2>1, <2>2 DEF DispatchInterrupt, DispatchException, records, RecordTypes
<1>8. CASE Reset
  <2>1. step' = 0 /\ ResetStepDebugState /\ phase' = "idle"
    BY <1>8 DEF Reset
  <2>2. <<>> \in Seq(Accesses) /\ <<>> \in Seq(1 .. MaxSteps)
    OBVIOUS
  <2> QED
    BY <2>1, <2>2, BoundsAssumption DEF ResetStepDebugState, RecordTypes
<1>9. CASE UNCHANGED vars
  BY <1>9 DEF vars, records, RecordTypes
<1> QED
  BY <1>2, <1>3, <1>4, <1>5, <1>6, <1>7, <1>8, <1>9 DEF Next

(* The run in progress and its result.                                     *)
RunTypes ==
  /\ trap \in BOOLEAN /\ busTrap \in BOOLEAN
  /\ pc \in PCs /\ phase \in Phases
  /\ run \in [active : BOOLEAN, options : RunUntilOptions]
  /\ {"reason", "instructions"} \subseteq DOMAIN result
  /\ result.reason \in ToSet(Reasons) \cup {"none", "limit"}
  /\ result.instructions \in Nat

LEMMA ReasonType ==
  ASSUME NEW options
  PROVE  RunStopReason(options) \in ToSet(Reasons) \cup {"none"}
<1> DEFINE met == Met(options, stepException, stepInterrupt, stepBusAccesses)
<1>1. met \in SUBSET ToSet(Reasons)
  BY DEF Met
<1>2. RunStopReason(options) = IF met = {} THEN "none" ELSE FirstOf(met)
  BY DEF RunStopReason
<1> HIDE DEF met
<1> QED
  BY <1>1, <1>2, FirstIsMet

LEMMA NoRunType == NoRun \in [active : BOOLEAN, options : RunUntilOptions]
BY DEF NoRun, NoOptions, RunUntilOptions

LEMMA StepKeepsRunTypes == RunTypes /\ [Next]_vars => RunTypes'
<1> SUFFICES ASSUME RunTypes, [Next]_vars PROVE RunTypes'
  OBVIOUS
<1>1. CASE SetTracer \/ SetBusTracer \/ \E limit \in Limits : SetHistoryLimit(limit)
  BY <1>1 DEF SetTracer, SetBusTracer, SetHistoryLimit, runs, RunTypes
<1>2. CASE \E options \in Options : StartRun(options)
  <2>1. PICK options \in Options : StartRun(options)
    BY <1>2
  <2>2. options \in RunUntilOptions
    BY OptionsAssumption
  <2>3. run' \in [active : BOOLEAN, options : RunUntilOptions]
    BY <2>1, <2>2, NoRunType DEF StartRun
  <2>4. /\ {"reason", "instructions"} \subseteq DOMAIN result'
        /\ result'.reason = RunStopReason(options) /\ result'.instructions = 0
    BY <2>1 DEF StartRun, NoResult
  <2>5. UNCHANGED <<trap, busTrap, pc, phase>>
    BY <2>1 DEF StartRun
  <2> QED
    BY <2>3, <2>4, <2>5, ReasonType DEF RunTypes
<1>3. CASE ReachLimit
  <2>1. /\ UNCHANGED <<trap, busTrap, pc, phase>> /\ run' = NoRun
        /\ result' = [result EXCEPT !.reason = "limit"]
    BY <1>3 DEF ReachLimit, EndRun
  <2> QED
    BY <2>1, NoRunType DEF RunTypes
<1>4. CASE EndStep
  <2>1. UNCHANGED <<trap, busTrap, pc>> /\ phase' = "idle" /\ run' \in {run, NoRun}
    BY <1>4 DEF EndStep, EndRun, runs, tracers
  <2>2. CASE ~run.active
    BY <1>4, <2>1, <2>2 DEF EndStep, RunTypes, runs, Phases
  <2>3. CASE run.active
    <3>1. /\ {"reason", "instructions"} \subseteq DOMAIN result'
          /\ result'.reason = RunStopReason(run.options)
          /\ result'.instructions = result.instructions + 1
      BY <1>4, <2>3 DEF EndStep
    <3> QED
      BY <2>1, <3>1, ReasonType, NoRunType DEF RunTypes, Phases
  <2> QED
    BY <2>2, <2>3
<1>5. CASE BeginStep
  <2>1. UNCHANGED <<trap, busTrap, pc, run>> /\ phase' \in Phases /\ result' \in {result, NoResult}
    BY <1>5 DEF BeginStep, tracers, Enter, Phases
  <2>2. /\ {"reason", "instructions"} \subseteq DOMAIN NoResult
        /\ NoResult.reason = "none" /\ NoResult.instructions = 0
    BY DEF NoResult
  <2> QED
    BY <2>1, <2>2 DEF RunTypes
<1>6. CASE \/ FetchOpcode \/ FetchFault \/ (\E access \in Accesses : AccessMemory(access))
           \/ StayStopped \/ Wake \/ EndExecute
           \/ AcceptInterrupt \/ NoInterrupt \/ InterruptException \/ InterruptDispatched
  <2>1. UNCHANGED <<tracers, pc, runs>> /\ phase' \in Phases \cup {phase}
    BY <1>6 DEF FetchOpcode, FetchFault, AccessMemory, StayStopped, Wake, EndExecute,
                AcceptInterrupt, NoInterrupt, InterruptException, InterruptDispatched, Enter, Phases
  <2> QED
    BY <2>1 DEF tracers, runs, RunTypes
<1>7. CASE EndFault \/ SendTrace
  <2>1. UNCHANGED <<tracers, runs>> /\ pc' \in PCs /\ phase' \in Phases
    BY <1>7 DEF EndFault, SendTrace, Enter, Phases
  <2> QED
    BY <2>1 DEF tracers, runs, RunTypes
<1>8. CASE ExecuteBreakpoint \/ AccessAborts
  <2>1. UNCHANGED <<trap, busTrap, pc, result>> /\ phase' = "idle" /\ run' \in {run, NoRun}
    BY <1>8 DEF ExecuteBreakpoint, AccessAborts, AbortStep, EndRun, tracers
  <2> QED
    BY <2>1, NoRunType DEF RunTypes, Phases
<1>9. CASE Reset
  <2>1. UNCHANGED <<trap, busTrap, phase, run>> /\ pc' \in PCs /\ result' = NoResult
    BY <1>9 DEF Reset
  <2> QED
    BY <2>1 DEF RunTypes, NoResult
<1>10. CASE UNCHANGED vars
  BY <1>10 DEF vars, tracers, runs, RunTypes
<1> QED
  BY <1>1, <1>2, <1>3, <1>4, <1>5, <1>6, <1>7, <1>8, <1>9, <1>10 DEF Next

(* How many events there can be in a phase above MaxEvents, below which    *)
(* each access and each fault begins.                                      *)
Beyond(p) ==
  CASE p \in {"idle", "begun", "return"} -> 4
    [] p = "trace" -> 3
    [] p \in {"accepted", "fetch"} -> 2
    [] p \in {"check", "stacking", "woken"} -> 1
    [] p \in {"fault", "waking", "execute"} -> 0

(* A step of a run either stays stopped, of which MaxSteps are counted, or *)
(* has an event.                                                           *)
Counts ==
  /\ events \in Nat
  /\ events <= MaxEvents + Beyond(phase)
  /\ result.instructions <= MaxSteps + events
  /\ result.instructions <= MaxSteps + MaxEvents
  /\ phase \notin {"idle", "begun"} => result.instructions < MaxSteps + MaxEvents
  /\ phase \notin {"idle", "begun", "fault", "waking"} => result.instructions < MaxSteps + events

LEMMA StepKeepsCounts == RunTypes /\ Counts /\ [Next]_vars => Counts'
<1> SUFFICES ASSUME RunTypes, Counts, [Next]_vars PROVE Counts'
  OBVIOUS
<1> USE BoundsAssumption
<1>0. result.instructions \in Nat
  BY DEF RunTypes
<1>1. CASE SetTracer \/ SetBusTracer \/ \E limit \in Limits : SetHistoryLimit(limit)
  BY <1>1 DEF SetTracer, SetBusTracer, SetHistoryLimit, runs, Counts
<1>2. CASE \E options \in Options : StartRun(options)
  <2>1. result'.instructions = 0 /\ UNCHANGED <<phase, events>> /\ phase = "idle"
    BY <1>2 DEF StartRun, NoResult
  <2> QED
    BY <2>1 DEF Counts
<1>3. CASE ReachLimit
  <2>1. result'.instructions = result.instructions /\ UNCHANGED <<phase, events>>
    BY <1>3 DEF ReachLimit, RunTypes
  <2> QED
    BY <2>1 DEF Counts
<1>4. CASE EndStep
  <2>1. /\ phase = "return" /\ phase' = "idle" /\ UNCHANGED events
        /\ result'.instructions \in {result.instructions, result.instructions + 1}
    BY <1>4 DEF EndStep, runs
  <2> QED
    BY <1>0, <2>1 DEF Counts, Beyond
<1>5. CASE BeginStep
  <2>1. /\ phase = "idle" /\ phase' = "begun" /\ UNCHANGED events
        /\ result'.instructions \in {result.instructions, 0}
    BY <1>5 DEF BeginStep, Enter, NoResult
  <2> QED
    BY <1>0, <2>1 DEF Counts, Beyond
<1>6. CASE FetchOpcode
  <2>1. /\ phase \in {"begun", "fetch"} /\ phase' = "execute" /\ UNCHANGED result
        /\ events < MaxEvents /\ events' = events + 1
    BY <1>6 DEF FetchOpcode, Access, Event, runs
  <2> QED
    BY <1>0, <2>1 DEF Counts, Beyond
<1>7. CASE \E access \in Accesses : AccessMemory(access)
  <2>1. /\ phase \in {"execute", "fault", "waking", "stacking"} /\ UNCHANGED <<phase, result>>
        /\ events < MaxEvents /\ events' = events + 1
    BY <1>7 DEF AccessMemory, Access, Event, runs
  <2> QED
    BY <1>0, <2>1 DEF Counts, Beyond
<1>8. CASE FetchFault \/ Wake
  <2>1. /\ phase \in {"begun", "fetch"} /\ phase' \in {"fault", "waking"}
        /\ events < MaxEvents /\ UNCHANGED <<events, result>>
    BY <1>8 DEF FetchFault, Wake, Enter, runs
  <2> QED
    BY <1>0, <2>1 DEF Counts, Beyond
<1>9. CASE EndFault \/ InterruptException \/ InterruptDispatched
  <2>1. /\ UNCHANGED result /\ events' = events + 1
        /\ <<phase, phase'>> \in {<<"fault", "return">>, <<"waking", "woken">>,
             <<"stacking", "accepted">>, <<"woken", "fetch">>, <<"accepted", "trace">>}
    BY <1>9 DEF EndFault, InterruptException, InterruptDispatched, Enter, runs, Event,
                DispatchException, DispatchInterrupt
  <2> QED
    BY <1>0, <2>1 DEF Counts, Beyond
<1>10. CASE StayStopped
  <2>1. /\ phase = "begun" /\ phase' = "return" /\ UNCHANGED <<result, events>>
        /\ result.instructions < MaxSteps
    BY <1>10 DEF StayStopped, Enter, runs
  <2> QED
    BY <1>0, <2>1 DEF Counts, Beyond
<1>11. CASE EndExecute \/ AcceptInterrupt \/ NoInterrupt \/ SendTrace
  <2>1. /\ UNCHANGED result
        /\ \/ phase = "execute" /\ phase' = "check" /\ events' \in {events, events + 1}
           \/ phase = "trace" /\ phase' = "return" /\ events' \in {events, events + 1}
           \/ phase = "check" /\ phase' \in {"stacking", "trace"} /\ UNCHANGED events
    BY <1>11 DEF EndExecute, AcceptInterrupt, NoInterrupt, SendTrace, Enter, runs, Event,
                 DispatchException
  <2> QED
    BY <1>0, <2>1 DEF Counts, Beyond
<1>12. CASE ExecuteBreakpoint \/ AccessAborts
  <2>1. phase' = "idle" /\ UNCHANGED <<result, events>> /\ Beyond(phase) <= 4
    BY <1>12 DEF ExecuteBreakpoint, AccessAborts, AbortStep, Beyond
  <2>2. Beyond(phase) \in Nat /\ Beyond(phase') = 4
    BY <1>12, <2>1 DEF ExecuteBreakpoint, AccessAborts, Beyond
  <2> QED
    BY <1>0, <2>1, <2>2 DEF Counts
<1>13. CASE Reset
  <2>1. phase = "idle" /\ UNCHANGED phase /\ result'.instructions = 0 /\ events' = 0
    BY <1>13 DEF Reset, NoResult
  <2> QED
    BY <2>1 DEF Counts, Beyond
<1>14. CASE UNCHANGED vars
  BY <1>14 DEF vars, runs, Counts
<1> QED
  BY <1>1, <1>2, <1>3, <1>4, <1>5, <1>6, <1>7, <1>8, <1>9, <1>10, <1>11, <1>12, <1>13, <1>14
  DEF Next

(* The ring holds numbers of events, and without a ring the next place is  *)
(* the first.                                                              *)
Entries == 0 .. (MaxEvents + 4)

RingTypes == Ring(Entries) /\ (history = <<>> => historyNext = 0)

LEMMA EventsAreEntries ==
  ASSUME RunTypes, Counts
  PROVE  events \in Entries
<1>1. MaxEvents \in Nat
  BY BoundsAssumption
<1>2. Beyond(phase) \in 0 .. 4
  BY DEF RunTypes, Phases, Beyond
<1> QED
  BY <1>1, <1>2 DEF Counts, Entries

LEMMA StepKeepsRingTypes == RingTypes /\ events' \in Entries /\ [Next]_vars => RingTypes'
<1> SUFFICES ASSUME RingTypes, events' \in Entries, [Next]_vars PROVE RingTypes'
  OBVIOUS
<1>1. ASSUME UNCHANGED ring PROVE RingTypes'
  BY <1>1 DEF ring, RingTypes, Ring
<1>2. ASSUME H!AppendHistory(events') PROVE RingTypes'
  <2>1. Ring(Entries)
    BY DEF RingTypes
  <2>2. Ring(Entries)' /\ (H!On' <=> H!On)
    BY <1>2, <2>1, AppendKeepsRing
  <2>3. ~H!On => UNCHANGED historyNext
    BY <1>2 DEF H!AppendHistory, H!vars
  <2> QED
    BY <2>2, <2>3 DEF RingTypes, H!On
<1>3. ASSUME NEW limit \in Limits, H!SetHistoryLimit(limit) PROVE RingTypes'
  <2>1. limit \in Nat /\ 0 \in Entries /\ Ring(Entries)
    BY LimitsAssumption, BoundsAssumption DEF RingTypes, Entries
  <2>2. Ring(Entries)'
    BY <1>3, <2>1, ResizeKeepsRing
  <2>3. CASE limit = 0
    BY <1>3, <2>2, <2>3 DEF H!SetHistoryLimit, RingTypes
  <2>4. CASE limit # 0
    <3>1. \E f : history' = [i \in 1 .. limit |-> f[i]]
      <4> DEFINE kept == IF historyCount <= limit THEN historyCount ELSE limit
                 f == [i \in 1 .. limit |-> IF i <= kept THEN H!Recent[(historyCount - kept) + i]
                                            ELSE H!Blank]
      <4>1. history' = f
        BY <1>3, <2>4 DEF H!SetHistoryLimit
      <4>2. f = [i \in 1 .. limit |-> f[i]]
        OBVIOUS
      <4> HIDE DEF f
      <4> QED
        BY <4>1, <4>2
    <3>2. 1 \in DOMAIN history'
      BY <2>1, <2>4, <3>1
    <3>3. history' # <<>>
      BY <3>2
    <3> QED
      BY <2>2, <3>3 DEF RingTypes
  <2> QED
    BY <2>3, <2>4
<1>4. CASE SetTracer \/ SetBusTracer
  BY <1>1, <1>4 DEF SetTracer, SetBusTracer
<1>5. CASE \E limit \in Limits : SetHistoryLimit(limit)
  BY <1>3, <1>5 DEF SetHistoryLimit
<1>6. CASE \/ \E options \in Options : StartRun(options)
           \/ ReachLimit \/ BeginStep \/ FetchFault \/ StayStopped \/ Wake
           \/ AcceptInterrupt \/ NoInterrupt \/ EndStep \/ ExecuteBreakpoint \/ AccessAborts
  BY <1>1, <1>6
  DEF StartRun, ReachLimit, BeginStep, FetchFault, StayStopped, Wake, AcceptInterrupt,
      NoInterrupt, EndStep, ExecuteBreakpoint, AccessAborts, AbortStep, EndRun, ring
<1>7. CASE FetchOpcode \/ \E access \in Accesses : AccessMemory(access)
  <2>1. UNCHANGED ring \/ H!AppendHistory(events')
    BY <1>7 DEF FetchOpcode, AccessMemory, Access, Event
  <2> QED
    BY <1>1, <1>2, <2>1
<1>8. CASE EndFault \/ EndExecute \/ InterruptException \/ InterruptDispatched \/ SendTrace
  <2>1. UNCHANGED ring \/ H!AppendHistory(events')
    BY <1>8 DEF EndFault, EndExecute, InterruptException, InterruptDispatched, SendTrace,
                DispatchException, DispatchInterrupt, Event
  <2> QED
    BY <1>1, <1>2, <2>1
<1>9. CASE Reset
  BY <1>9 DEF Reset, H!Clear, RingTypes, Ring, H!On
<1>10. CASE UNCHANGED vars
  BY <1>1, <1>10 DEF vars
<1> QED
  BY <1>4, <1>5, <1>6, <1>7, <1>8, <1>9, <1>10 DEF Next

TypesInv == RunTypes /\ RecordTypes /\ Counts /\ RingTypes

LEMMA StepKeepsTypes == TypesInv /\ [Next]_vars => TypesInv'
<1> SUFFICES ASSUME TypesInv, [Next]_vars PROVE TypesInv'
  OBVIOUS
<1>1. RunTypes' /\ RecordTypes' /\ Counts'
  BY StepKeepsRunTypes, StepKeepsRecordTypes, StepKeepsCounts DEF TypesInv
<1>2. events' \in Entries
  <2>1. RunTypes /\ Counts => events \in Entries
    BY EventsAreEntries
  <2>2. (RunTypes /\ Counts => events \in Entries)'
    BY <2>1, EventsAreEntries, PTL
  <2> QED
    BY <1>1, <2>2
<1> QED
  BY <1>1, <1>2, StepKeepsRingTypes DEF TypesInv

LEMMA InitTypes == Init => TypesInv
<1> SUFFICES ASSUME Init PROVE TypesInv
  OBVIOUS
<1>1. RunTypes
  BY NoRunType DEF Init, RunTypes, Phases, NoResult
<1>2. RecordTypes
  <2>1. <<>> \in Seq(Accesses) /\ <<>> \in Seq(1 .. MaxSteps) /\ 0 \in 0 .. MaxSteps
    BY BoundsAssumption
  <2> QED
    BY <2>1 DEF Init, RecordTypes
<1>3. Counts
  BY BoundsAssumption DEF Init, Counts, Beyond, NoResult
<1>4. RingTypes
  BY DEF Init, H!Init, RingTypes, Ring
<1> QED
  BY <1>1, <1>2, <1>3, <1>4 DEF TypesInv

LEMMA TypesOK ==
  ASSUME Inv, RecordsOK, TypesInv
  PROVE  TypeOK
<1>1. {trap, busTrap, collectStepBus, traceInstructions, traceBus, stepInterrupt} \subseteq BOOLEAN
  <2>1. trap \in BOOLEAN /\ busTrap \in BOOLEAN /\ stepInterrupt \in BOOLEAN
    BY DEF TypesInv, RunTypes, RecordsOK
  <2>2. traceInstructions \in BOOLEAN /\ traceBus \in BOOLEAN /\ collectStepBus \in BOOLEAN
    BY DEF Inv, FlagsFollowUse
  <2> QED
    BY <2>1, <2>2
<1>2. H!WellFormed(1 .. (MaxEvents + 4))
  <2>1. (1 .. (MaxEvents + 4)) \cup {0} = Entries
    BY BoundsAssumption DEF Entries
  <2> QED
    BY <2>1 DEF TypesInv, RingTypes, Ring, H!WellFormed, H!Blank, H!On
<1>3. result.instructions \in 0 .. (MaxSteps + MaxEvents) /\ events \in 0 .. (MaxEvents + 4)
  BY EventsAreEntries, BoundsAssumption DEF TypesInv, Counts, RunTypes, Entries
<1> QED
  BY <1>1, <1>2, <1>3 DEF TypesInv, RunTypes, RecordTypes, TypeOK

(* Every variable has its type, the ring is well formed and the bounds on  *)
(* steps and events hold, for every set of options and limits.             *)
THEOREM TypeCorrect == Spec => []TypeOK
BY TypesOK, InitInv, StepKeepsInv, InitRecords, StepKeepsRecords, InitTypes, StepKeepsTypes, PTL
DEF Spec

-----------------------------------------------------------------------------
(* The ring implements the history.                                        *)

LEMMA Wrap ==
  ASSUME NEW size \in Nat \ {0}, NEW n \in 0 .. (size + size - 1)
  PROVE  (n < size => n % size = n) /\ (~(n < size) => n % size = n - size)
<1> DEFINE q == n \div size
           r == n % size
<1>1. q \in Nat /\ r \in 0 .. (size - 1) /\ n = size * q + r
  OBVIOUS
<1> HIDE DEF q, r
<1>2. q = 0 \/ q = 1
  <2>1. ASSUME q >= 2 PROVE size * q >= size + size
    BY <1>1, <2>1
  <2> QED
    BY <1>1, <2>1
<1>3. size * 0 = 0 /\ size * 1 = size
  OBVIOUS
<1>4. (n < size => r = n) /\ (~(n < size) => r = n - size)
  BY <1>1, <1>2, <1>3
<1> QED
  BY <1>4 DEF r

(* The place, counted from 1, of the i-th of the count latest entries of a *)
(* ring that is written at next.                                           *)
Place(next, count, size, i) ==
  IF next + i > count THEN next + i - count ELSE next + size + i - count

LEMMA PlaceInRing ==
  ASSUME NEW size \in Nat \ {0}, NEW next \in 0 .. (size - 1), NEW count \in 0 .. size,
         NEW i \in 1 .. count
  PROVE  Place(next, count, size, i) \in 1 .. size
BY DEF Place

(* The entries that History returns, without the remainders.               *)
RecentPlaces ==
  [i \in 1 .. historyCount |-> history[Place(historyNext, historyCount, Len(history), i)]]

LEMMA RecentIsPlaces == Ring(Nat) => H!Recent = RecentPlaces
<1> SUFFICES ASSUME Ring(Nat) PROVE H!Recent = RecentPlaces
  OBVIOUS
<1> DEFINE size == Len(history)
           start == IF historyNext < historyCount
                    THEN (historyNext + size) - historyCount ELSE historyNext - historyCount
<1>1. size \in Nat /\ historyCount \in 0 .. size /\ historyNext \in Nat
      /\ (historyCount # 0 => size # 0 /\ historyNext < size)
  BY DEF Ring
<1>2. ASSUME NEW i \in 1 .. historyCount
      PROVE  ((start + i - 1) % size) + 1 = Place(historyNext, historyCount, size, i)
  <2>1. size \in Nat \ {0} /\ start \in 0 .. (size - 1)
    BY <1>1
  <2>2. start + i - 1 \in 0 .. (size + size - 1)
    <3> HIDE DEF size, start
    <3> QED
      BY <1>1, <2>1
  <2>3. /\ start + i - 1 < size => (start + i - 1) % size = start + i - 1
        /\ ~(start + i - 1 < size) => (start + i - 1) % size = (start + i - 1) - size
    <3> DEFINE n == start + i - 1
    <3>1. n \in 0 .. (size + size - 1)
      BY <2>2
    <3> HIDE DEF size, n
    <3>2. (n < size => n % size = n) /\ (~(n < size) => n % size = n - size)
      BY <2>1, <3>1, Wrap, Zenon
    <3> QED
      BY <3>2, Zenon DEF n
  <2> QED
    <3> HIDE DEF size
    <3> QED
      BY <1>1, <2>3 DEF Place
<1> QED
  BY <1>2, Zenon DEF H!Recent, RecentPlaces

(* The latest entries, as a function.                                      *)
LastOf(seq, k) == [i \in 1 .. k |-> seq[Len(seq) - k + i]]

LEMMA LatestIs ==
  ASSUME NEW seq \in Seq(Nat), NEW n \in Nat,
         NEW kept, kept = (IF Len(seq) <= n THEN Len(seq) ELSE n)
  PROVE  RecentHistory!Latest(n, seq) = LastOf(seq, kept)
<1>1. CASE Len(seq) <= n
  <2>1. kept = Len(seq) /\ seq = [i \in 1 .. Len(seq) |-> seq[i]]
    BY <1>1
  <2>2. \A i \in 1 .. kept : Len(seq) - kept + i = i
    BY <2>1
  <2> QED
    BY <1>1, <2>1, <2>2 DEF RecentHistory!Latest, LastOf
<1>2. CASE ~(Len(seq) <= n)
  <2> DEFINE m == Len(seq) - n + 1
  <2>1. kept = n /\ m \in 1 .. (Len(seq) + 1) /\ Len(seq) - m + 1 = n
    BY <1>2
  <2>2. SubSeq(seq, m, Len(seq)) = [i \in 1 .. (Len(seq) - m + 1) |-> seq[m + i - 1]]
    OBVIOUS
  <2>3. \A i \in 1 .. kept : m + i - 1 = Len(seq) - kept + i
    <3>1. Len(seq) \in Nat /\ m = Len(seq) - n + 1
      OBVIOUS
    <3> HIDE DEF m
    <3>2. SUFFICES ASSUME NEW i \in 1 .. kept PROVE m + i - 1 = Len(seq) - kept + i
      OBVIOUS
    <3> QED
      BY <1>2, <2>1, <3>1
  <2>4. RecentHistory!Latest(n, seq) = SubSeq(seq, m, Len(seq))
    BY <1>2 DEF RecentHistory!Latest
  <2> HIDE DEF m
  <2> QED
    BY <2>1, <2>2, <2>3, <2>4 DEF LastOf
<1> QED
  BY <1>1, <1>2

LEMMA RecentIsSequence ==
  ASSUME Ring(Nat)
  PROVE  /\ RecentPlaces \in Seq(Nat) /\ Len(RecentPlaces) = historyCount
         /\ \A i \in 1 .. historyCount :
              RecentPlaces[i] = history[Place(historyNext, historyCount, Len(history), i)]
<1>1. /\ Len(history) \in Nat /\ historyCount \in 0 .. Len(history) /\ historyNext \in Nat
      /\ (historyCount # 0 => Len(history) # 0 /\ historyNext < Len(history))
      /\ \A k \in 1 .. Len(history) : history[k] \in Nat
  BY ElementOfSeq DEF Ring
<1>2. ASSUME NEW i \in 1 .. historyCount
      PROVE  history[Place(historyNext, historyCount, Len(history), i)] \in Nat
  <2>1. Len(history) \in Nat \ {0} /\ historyNext \in 0 .. (Len(history) - 1)
    BY <1>1
  <2>2. Place(historyNext, historyCount, Len(history), i) \in 1 .. Len(history)
    BY <1>1, <2>1, PlaceInRing
  <2> QED
    BY <1>1, <2>2
<1>3. RecentPlaces \in [1 .. historyCount -> Nat]
  BY <1>2 DEF RecentPlaces
<1> QED
  BY <1>1, <1>3 DEF RecentPlaces

(* An event, recorded if there is a ring, happens to the history.          *)
LEMMA AppendHappens ==
  ASSUME Ring(Nat), Ring(Nat)', events \in Nat, events' = events + 1, H!AppendHistory(events')
  PROVE  RecentHistory!Happen
<1> DEFINE size == Len(history)
           longer == Append(RecentPlaces, events')
           k == historyCount + (IF historyCount < size THEN 1 ELSE 0)
<1>1. H!Recent = RecentPlaces /\ H!Recent' = RecentPlaces'
  <2>1. (Ring(Nat) => H!Recent = RecentPlaces)'
    BY RecentIsPlaces, PTL
  <2> QED
    BY <2>1, RecentIsPlaces
<1>2. /\ RecentPlaces \in Seq(Nat) /\ Len(RecentPlaces) = historyCount
      /\ \A i \in 1 .. historyCount :
           RecentPlaces[i] = history[Place(historyNext, historyCount, size, i)]
  BY RecentIsSequence
<1>3. /\ longer \in Seq(Nat) /\ Len(longer) = historyCount + 1 /\ longer[historyCount + 1] = events'
      /\ \A j \in 1 .. historyCount : longer[j] = RecentPlaces[j]
  BY <1>2
<1>4. size \in Nat /\ historyCount \in 0 .. size
  BY DEF Ring
<1>5. RecentHistory!Latest(size, longer) = LastOf(longer, k)
  <2>1. k = IF Len(longer) <= size THEN Len(longer) ELSE size
    BY <1>3, <1>4
  <2> HIDE DEF size, longer, k
  <2> QED
    BY <1>3, <1>4, <2>1, LatestIs
<1>6. Len(history') = size /\ historyCount' = k
      /\ \A i \in 1 .. k :
           history'[Place(historyNext', historyCount', Len(history'), i)] = longer[Len(longer) - k + i]
  <2>1. CASE history = <<>>
    <3>1. size = 0 /\ historyCount = 0 /\ UNCHANGED <<history, historyCount>>
      BY <1>4, <2>1 DEF H!AppendHistory, H!On, H!vars
    <3>2. k = 0
      BY <3>1
    <3> QED
      BY <3>1, <3>2
  <2>2. CASE history # <<>>
    <3>1. size \in Nat \ {0} /\ historyNext \in 0 .. (size - 1) /\ history \in Seq(Nat)
      BY <2>2 DEF Ring
    <3>2. /\ history' = [history EXCEPT ![historyNext + 1] = events']
          /\ historyNext' = (historyNext + 1) % size /\ historyCount' = k
      BY <2>2 DEF H!AppendHistory, H!On
    <3>3. historyNext' = IF historyNext + 1 < size THEN historyNext + 1 ELSE 0
      <4>1. historyNext + 1 \in 0 .. (size + size - 1)
        BY <3>1
      <4>2. /\ historyNext + 1 < size => (historyNext + 1) % size = historyNext + 1
            /\ ~(historyNext + 1 < size) => (historyNext + 1) % size = (historyNext + 1) - size
        <5> DEFINE n == historyNext + 1
        <5>1. n \in 0 .. (size + size - 1)
          BY <4>1
        <5> HIDE DEF size, n
        <5>2. (n < size => n % size = n) /\ (~(n < size) => n % size = n - size)
          BY <3>1, <5>1, Wrap, Zenon
        <5> QED
          BY <5>2, Zenon DEF n
      <4> QED
        BY <3>1, <3>2, <4>2
    <3>4. historyNext + 1 \in 1 .. size
      BY <3>1
    <3>5. /\ Len(history') = size /\ history'[historyNext + 1] = events'
          /\ \A p \in 1 .. size : p # historyNext + 1 => history'[p] = history[p]
      BY <3>1, <3>2, <3>4
    <3>6. ASSUME NEW i \in 1 .. k
          PROVE  history'[Place(historyNext', k, size, i)] = longer[Len(longer) - k + i]
      <4> DEFINE j == (historyCount + 1) - k + i
      <4> HIDE DEF size, k
      <4>1. k = historyCount + (IF historyCount < size THEN 1 ELSE 0)
        BY DEF k
      <4>2. j = (historyCount + 1) - k + i
        OBVIOUS
      <4> HIDE DEF j
      (* None of the entries that are kept moves.                        *)
      <4>3. /\ j = historyCount + 1 => Place(historyNext', k, size, i) = historyNext + 1
            /\ j # historyCount + 1 =>
                 /\ j \in 1 .. historyCount
                 /\ Place(historyNext', k, size, i) = Place(historyNext, historyCount, size, j)
                 /\ Place(historyNext, historyCount, size, j) # historyNext + 1
        <5>1. size \in Nat \ {0} /\ historyNext \in 0 .. (size - 1) /\ historyCount \in 0 .. size
          BY <1>4, <3>1
        <5> QED
          BY <3>3, <4>1, <4>2, <5>1 DEF Place
      <4>4. Len(longer) - k + i = j
        BY <1>3, <4>2
      <4> HIDE DEF longer
      <4>5. CASE j = historyCount + 1
        BY <1>3, <3>5, <4>3, <4>4, <4>5
      <4>6. CASE j # historyCount + 1
        <5>1. Place(historyNext, historyCount, size, j) \in 1 .. size
          BY <1>4, <3>1, <4>3, <4>6, PlaceInRing
        <5> QED
          BY <1>2, <1>3, <3>5, <4>3, <4>4, <4>6, <5>1, ZenonT(60)
      <4> QED
        BY <4>5, <4>6
    <3> QED
      BY <3>2, <3>5, <3>6
  <2> QED
    BY <2>1, <2>2
<1>7. RecentPlaces' = [i \in 1 .. k |-> longer[Len(longer) - k + i]]
  <2> HIDE DEF k, longer, size
  <2> QED
    BY <1>6 DEF RecentPlaces
<1> QED
  BY <1>1, <1>5, <1>6, <1>7 DEF RecentHistory!Happen, LastOf

(* A new ring holds the latest entries of the old one.                     *)
LEMMA ResizeResizes ==
  ASSUME Ring(Nat), Ring(Nat)', NEW limit \in Nat, H!SetHistoryLimit(limit), UNCHANGED events
  PROVE  RecentHistory!Resize(limit)
<1> DEFINE kept == IF historyCount <= limit THEN historyCount ELSE limit
<1>1. H!Recent = RecentPlaces /\ H!Recent' = RecentPlaces'
  <2>1. (Ring(Nat) => H!Recent = RecentPlaces)'
    BY RecentIsPlaces, PTL
  <2> QED
    BY <2>1, RecentIsPlaces
<1>2. /\ RecentPlaces \in Seq(Nat) /\ Len(RecentPlaces) = historyCount /\ historyCount \in Nat
      /\ kept \in 0 .. historyCount /\ kept <= limit
  BY RecentIsSequence DEF Ring
<1>3. RecentHistory!Latest(limit, RecentPlaces) = LastOf(RecentPlaces, kept)
  <2>1. kept = IF Len(RecentPlaces) <= limit THEN Len(RecentPlaces) ELSE limit
    BY <1>2
  <2> HIDE DEF kept
  <2> QED
    BY <1>2, <2>1, LatestIs
<1>4. Len(history') = limit /\ historyCount' = kept
      /\ \A i \in 1 .. kept :
           history'[Place(historyNext', kept, limit, i)] = RecentPlaces[historyCount - kept + i]
  <2>1. CASE limit = 0
    BY <1>2, <2>1 DEF H!SetHistoryLimit
  <2>2. CASE limit # 0
    <3>1. /\ history' = [i \in 1 .. limit |->
                           IF i <= kept THEN RecentPlaces[(historyCount - kept) + i] ELSE 0]
          /\ historyNext' = kept % limit /\ historyCount' = kept
      BY <1>1, <2>2 DEF H!SetHistoryLimit, H!Blank
    <3>2. Len(history') = limit
      <4>1. history' \in Seq(Nat)
        BY DEF Ring
      <4>2. DOMAIN history' = 1 .. limit /\ DOMAIN history' = 1 .. Len(history')
        BY <3>1, <4>1
      <4> QED
        BY <4>1, <4>2
    <3> HIDE DEF kept
    <3>3. historyNext' = IF kept = limit THEN 0 ELSE kept
      <4>1. limit \in Nat \ {0} /\ kept \in 0 .. (limit + limit - 1)
        BY <1>2, <2>2
      <4>2. (kept < limit => kept % limit = kept) /\ (~(kept < limit) => kept % limit = kept - limit)
        BY <4>1, Wrap, Zenon
      <4>3. historyNext' = kept % limit
        BY <3>1
      <4>4. CASE kept < limit
        BY <4>2, <4>3, <4>4
      <4>5. CASE ~(kept < limit)
        <5>1. kept = limit /\ kept - limit = 0
          BY <1>2, <4>5
        <5> QED
          BY <4>2, <4>3, <4>5, <5>1
      <4> QED
        BY <4>4, <4>5
    <3>4. ASSUME NEW i \in 1 .. kept
          PROVE  history'[Place(historyNext', kept, limit, i)]
                   = RecentPlaces[historyCount - kept + i]
      <4>1. Place(historyNext', kept, limit, i) = i
        BY <1>2, <3>3 DEF Place
      <4>2. i \in 1 .. limit /\ i <= kept
        BY <1>2
      <4> QED
        BY <3>1, <4>1, <4>2
    <3> QED
      BY <3>1, <3>2, <3>4
  <2> QED
    BY <2>1, <2>2
<1>5. RecentPlaces' = LastOf(RecentPlaces, kept)
  <2> HIDE DEF kept
  <2>1. RecentPlaces' =
          [i \in 1 .. kept |-> history'[Place(historyNext', kept, limit, i)]]
    BY <1>4 DEF RecentPlaces
  <2>2. LastOf(RecentPlaces, kept) = [i \in 1 .. kept |-> RecentPlaces[historyCount - kept + i]]
    BY <1>2 DEF LastOf
  <2> QED
    BY <1>4, <2>1, <2>2
<1> QED
  BY <1>1, <1>3, <1>4, <1>5 DEF RecentHistory!Resize

(* Resetting the CPU clears the history.                                   *)
LEMMA ResetClears ==
  ASSUME Reset
  PROVE  RecentHistory!Clear
<1>1. historyCount' = 0 /\ UNCHANGED history /\ events' = 0
  BY DEF Reset, H!Clear
<1>2. H!Recent' = <<>>
  BY <1>1 DEF H!Recent
<1> QED
  BY <1>1, <1>2 DEF RecentHistory!Clear

(* An event that no flag asks for happens without a ring.                  *)
LEMMA AccessHappens ==
  ASSUME Inv, NEW access, Access(access)
  PROVE  events' = events + 1 /\ H!AppendHistory(events')
<1>1. CASE Records(access)
  BY <1>1 DEF Access, Event
<1>2. CASE ~Records(access)
  <2>1. ~H!On
    BY <1>2 DEF Records, Inv, FlagsFollowUse
  <2> QED
    BY <1>2, <2>1 DEF Access, H!AppendHistory, ring, H!vars
<1> QED
  BY <1>1, <1>2

LEMMA RefinementStep == Inv /\ Inv' /\ [Next]_vars => [RecentHistory!Next]_(RecentHistory!vars)
<1> SUFFICES ASSUME Inv, Inv', [Next]_vars
             PROVE  RecentHistory!Next \/ UNCHANGED RecentHistory!vars
  OBVIOUS
<1>1. ASSUME UNCHANGED <<ring, events>> PROVE UNCHANGED RecentHistory!vars
  BY <1>1 DEF ring, RecentHistory!vars, H!Recent
<1>2. ASSUME events' = events + 1, H!AppendHistory(events') PROVE RecentHistory!Next
  BY <1>2, AppendHappens DEF RecentHistory!Next, Inv, RingOK
<1>3. ASSUME UNCHANGED <<ring, events>> \/ Event
      PROVE  RecentHistory!Next \/ UNCHANGED RecentHistory!vars
  BY <1>1, <1>2, <1>3 DEF Event
<1>4. CASE SetTracer \/ SetBusTracer
  BY <1>1, <1>4 DEF SetTracer, SetBusTracer
<1>5. CASE \E limit \in Limits : SetHistoryLimit(limit)
  <2>1. PICK limit \in Limits : H!SetHistoryLimit(limit) /\ UNCHANGED events
    BY <1>5 DEF SetHistoryLimit
  <2>2. RecentHistory!Resize(limit)
    BY <2>1, ResizeResizes, LimitsAssumption DEF Inv, RingOK
  <2> QED
    BY <2>2 DEF RecentHistory!Next
<1>6. CASE \/ \E options \in Options : StartRun(options)
           \/ ReachLimit \/ BeginStep \/ FetchFault \/ StayStopped \/ Wake
           \/ AcceptInterrupt \/ NoInterrupt \/ EndStep \/ ExecuteBreakpoint \/ AccessAborts
  BY <1>1, <1>6
  DEF StartRun, ReachLimit, BeginStep, FetchFault, StayStopped, Wake, AcceptInterrupt,
      NoInterrupt, EndStep, ExecuteBreakpoint, AccessAborts, AbortStep, EndRun, ring
<1>7. CASE FetchOpcode \/ \E access \in Accesses : AccessMemory(access)
  <2>1. \E access : Access(access)
    BY <1>7 DEF FetchOpcode, AccessMemory
  <2> QED
    BY <1>2, <2>1, AccessHappens
<1>8. CASE EndFault \/ EndExecute \/ InterruptException \/ InterruptDispatched \/ SendTrace
  BY <1>3, <1>8
  DEF EndFault, EndExecute, InterruptException, InterruptDispatched, SendTrace,
      DispatchException, DispatchInterrupt
<1>9. CASE Reset
  BY <1>9, ResetClears DEF RecentHistory!Next
<1>10. CASE UNCHANGED vars
  BY <1>1, <1>10 DEF vars
<1> QED
  BY <1>4, <1>5, <1>6, <1>7, <1>8, <1>9, <1>10 DEF Next

LEMMA InitRefinement == Init => RecentHistory!Init
<1> SUFFICES ASSUME Init PROVE RecentHistory!Init
  OBVIOUS
<1>1. history = <<>> /\ historyCount = 0 /\ events = 0
  BY DEF Init, H!Init
<1>2. H!Recent = <<>>
  BY <1>1 DEF H!Recent
<1> QED
  BY <1>1, <1>2 DEF RecentHistory!Init

(* The ring and its two counters implement a history of the latest events, *)
(* of every kind, for every limit and wherever the ring wraps.             *)
THEOREM Refinement == Spec => ImplementsRecentEvents
BY InitRefinement, RefinementStep, InitInv, StepKeepsInv, PTL
DEF Spec, ImplementsRecentEvents, RecentHistory!Spec
=============================================================================
