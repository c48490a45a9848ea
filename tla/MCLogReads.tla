----------------------------- MODULE MCLogReads -----------------------------
(***************************************************************************)
(* LogReads for TLC: one app writes errors, whose lines are longer, the    *)
(* other writes INFO, and the operator has three filters: nothing chosen,  *)
(* the errors of a closed window, and a search of one app.                 *)
(***************************************************************************)
EXTENDS LogReads

MCLevel == {"INFO", "ERROR"}
MCWrites == <<{"ERROR"}, {"INFO"}>>
MCLineBytes == [l \in MCLevel |-> IF l = "ERROR" THEN 3 ELSE 2]

\* Nothing is chosen.
Cleared ==
  [apps |-> {}, levels |-> {}, span |-> MaxTime, until |-> Forever, search |-> FALSE]

MCFilters ==
  {Cleared,
   [Cleared EXCEPT !.levels = {"ERROR"}, !.span = 1, !.until = 4],
   [Cleared EXCEPT !.apps = {1}, !.search = TRUE]}
=============================================================================
