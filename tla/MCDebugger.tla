------------------------------ MODULE MCDebugger ------------------------------
(* A small instance of the debugger for TLC.                               *)
EXTENDS Debugger

MCPCs == {0, 1}
MCLimits == {0, 1, 2}

(* One condition alone, and conditions that one step can meet together.    *)
MCOptions == {
  [NoOptions EXCEPT !.watched = {"read", "write"}, !.exception = TRUE, !.max = 2],
  [NoOptions EXCEPT !.illegal = TRUE, !.exception = TRUE, !.inside = {1}],
  [NoOptions EXCEPT !.predicate = {"interrupt"}, !.at = {1}],
  [NoOptions EXCEPT !.predicate = {"access"}, !.within = {0}, !.max = 1]}
=============================================================================
