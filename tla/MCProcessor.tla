---------------------------- MODULE MCProcessor ----------------------------
(***************************************************************************)
(* Small instances of the processor for TLC.  The address space has 64     *)
(* bytes: boot and user code from 2, a handler at 16, the supervisor stack *)
(* in 32 to 50 (room for three short frames, or one bus error frame and a  *)
(* short one), a user stack in 56 and 58; everything else is unmapped.     *)
(***************************************************************************)
EXTENDS Processor

CONSTANT nil

Op(name) == [op |-> name, arg |-> 0, word |-> 0]
OpArg(name, arg) == [op |-> name, arg |-> arg, word |-> 0]
OpWord(name, word) == [op |-> name, arg |-> 0, word |-> word]

UserSR == 0
SupervisorSR == 8192

MCCode == {2, 4, 6, 8, 16, 18}
MCRam == {a \in 34 .. 58 : a % 2 = 0 /\ a \notin {52, 54}}
MCVectorTable == [v \in 0 .. 255 |-> CASE v = 4 -> 0 [] v = 15 -> 18 [] OTHER -> 16]
MCLevels == {2, 5}
MCNoVectors == {}

\* Handlers return, after dropping fault information, or do unrelated work.
MCHandler == {Op("nop"), Op("rte"), OpArg("addA7", 8)}

\* Boot code sets up the user stack and enters user mode, or waits in STOP.
MCBoot == {OpArg("moveToUsp", 60), OpWord("moveToSr", UserSR), OpArg("jump", 2),
           OpWord("stop", SupervisorSR), Op("reset")}
MCUser == {Op("illegal"), OpArg("store", 57), Op("rte")}

\* Handlers that trap themselves: frames of all kinds on top of each other.
MCTrapping == MCHandler \cup {Op("trap")}

\* User code without any discipline, over supervisor code that moves its stack
\* to where there is room, where there is none and to an odd address.
MCSupervisor == {Op("moveA7FromUsp"), OpArg("moveA7", 43),
                 OpArg("moveToUsp", 52), OpWord("moveToSr", UserSR)}
MCMischief ==
  {OpArg("jump", 3), OpArg("jsr", 4), Op("rts"), Op("rtr"), OpArg("moveA7", 45), Op("trap"),
   Op("lineA"), Op("stop"), Op("moveA7FromUsp"), OpArg("moveToUsp", 44),
   OpWord("moveToSr", SupervisorSR), Op("rte"), Op("reset")}
MCFirmware == {Op("nop"), Op("rte")}
MCOneStack == {a \in 36 .. 50 : a % 2 = 0}
MCLevel5 == {5}
=============================================================================
