----------------------------- MODULE MCLogIngest -----------------------------
(***************************************************************************)
(* Instances of LogIngest for TLC: a JSON log, where every line is an      *)
(* entry, and a Logback log, where an entry's trace follows it.            *)
(***************************************************************************)
EXTENDS LogIngest

JsonHeaders == 1..NumLines
JsonWanted == 1..NumLines
TraceHeaders == {1, 3} \cap 1..NumLines
TraceWanted == TraceHeaders
=============================================================================
