------------------------------- MODULE History -------------------------------
(***************************************************************************)
(* The rolling history of cpu.go: a ring of a fixed length, the position   *)
(* written next and the number of entries that are valid.                  *)
(***************************************************************************)
EXTENDS Naturals, Sequences

VARIABLES
  history,      \* the ring, <<>> when there is none
  historyNext,  \* the place written next, counted from 0
  historyCount  \* how many places hold an entry

vars == <<history, historyNext, historyCount>>

Blank == 0  \* an entry never written

On == history # <<>>

(* The entries in order, as History returns them.                          *)
Recent ==
  LET size == Len(history)
      start == IF historyNext < historyCount
               THEN (historyNext + size) - historyCount ELSE historyNext - historyCount
  IN  [i \in 1 .. historyCount |-> history[((start + i - 1) % size) + 1]]

Init == history = <<>> /\ historyNext = 0 /\ historyCount = 0

AppendHistory(entry) ==
  IF ~On THEN UNCHANGED vars
  ELSE /\ history' = [history EXCEPT ![historyNext + 1] = entry]
       /\ historyNext' = (historyNext + 1) % Len(history)
       /\ historyCount' = historyCount + (IF historyCount < Len(history) THEN 1 ELSE 0)

\* A mutant of SetHistoryLimit: of too many entries the oldest are kept.
SetHistoryLimitOldest(limit) ==
  LET kept == IF historyCount <= limit THEN historyCount ELSE limit
  IN  IF limit = 0 THEN history' = <<>> /\ historyNext' = 0 /\ historyCount' = 0
      ELSE /\ history' = [i \in 1 .. limit |-> IF i <= kept THEN Recent[i] ELSE Blank]
           /\ historyNext' = kept % limit
           /\ historyCount' = kept

\* A mutant of SetHistoryLimit: a full ring is written on behind its end.
SetHistoryLimitBehind(limit) ==
  LET kept == IF historyCount <= limit THEN historyCount ELSE limit
  IN  IF limit = 0 THEN history' = <<>> /\ historyNext' = 0 /\ historyCount' = 0
      ELSE /\ history' = [i \in 1 .. limit |->
                            IF i <= kept THEN Recent[(historyCount - kept) + i] ELSE Blank]
           /\ historyNext' = kept
           /\ historyCount' = kept

(* A new ring takes the latest entries of the old one.                     *)
SetHistoryLimit(limit) ==
  LET kept == IF historyCount <= limit THEN historyCount ELSE limit
  IN  IF limit = 0 THEN history' = <<>> /\ historyNext' = 0 /\ historyCount' = 0
      ELSE /\ history' = [i \in 1 .. limit |->
                            IF i <= kept THEN Recent[(historyCount - kept) + i] ELSE Blank]
           /\ historyNext' = kept % limit
           /\ historyCount' = kept

(* Reset of the CPU: the entries stay in the ring and are no longer valid. *)
Clear == historyNext' = 0 /\ historyCount' = 0 /\ UNCHANGED history

WellFormed(Entries) ==
  /\ history \in Seq(Entries \cup {Blank})
  /\ historyCount \in 0 .. Len(history)
  /\ historyNext \in Nat
  /\ IF On THEN historyNext < Len(history) ELSE historyNext = 0
=============================================================================
