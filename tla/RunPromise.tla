----------------------------- MODULE RunPromise -----------------------------
(***************************************************************************)
(* What the Agitator promises to the operator who starts and cancels runs, *)
(* without tasks, requests, deque or index: a run takes a free slot, its   *)
(* account of requests only grows while it runs, and it ends once.         *)
(***************************************************************************)
EXTENDS Integers, FiniteSets

CONSTANTS Run, Scenario, None, MaxConcurrent, Count

VARIABLES
  outcome,    \* "none", "running", or how the run ended
  scenario,   \* the scenario it drives
  accounted,  \* requests with a known result
  asked       \* the operator, or the shutdown, asked it to stop

vars == <<outcome, scenario, accounted, asked>>

Live == {r \in Run : outcome[r] = "running"}

Init ==
  /\ outcome = [r \in Run |-> "none"]
  /\ scenario = [r \in Run |-> None]
  /\ accounted = [r \in Run |-> 0]
  /\ asked = [r \in Run |-> FALSE]

\* Before it starts a run may be given and may lose its scenario.
Prepare(r, s) ==
  /\ outcome[r] = "none"
  /\ scenario' = [scenario EXCEPT ![r] = s]
  /\ UNCHANGED <<outcome, accounted, asked>>

Start(r) ==
  /\ outcome[r] = "none"
  /\ scenario[r] # None
  /\ Cardinality(Live) < MaxConcurrent
  /\ \A q \in Live : scenario[q] # scenario[r]
  /\ outcome' = [outcome EXCEPT ![r] = "running"]
  /\ UNCHANGED <<scenario, accounted, asked>>

Account(r) ==
  /\ outcome[r] = "running"
  /\ accounted[r] < Count
  /\ accounted' = [accounted EXCEPT ![r] = @ + 1]
  /\ UNCHANGED <<outcome, scenario, asked>>

Ask(R) ==
  /\ R \subseteq Live
  /\ asked' = [r \in Run |-> asked[r] \/ r \in R]
  /\ UNCHANGED <<outcome, scenario, accounted>>

\* A run that was asked to stop ends as cancelled; one that was not ends as
\* succeeded, with every request accounted for, or as failed.
End(r) ==
  /\ outcome[r] = "running"
  /\ \/ /\ asked[r]
        /\ outcome' = [outcome EXCEPT ![r] = "cancelled"]
        /\ UNCHANGED accounted
     \/ /\ ~asked[r]
        /\ outcome' = [outcome EXCEPT ![r] = "failed"]
        /\ UNCHANGED accounted
     \/ /\ ~asked[r]
        /\ outcome' = [outcome EXCEPT ![r] = "succeeded"]
        /\ accounted' = [accounted EXCEPT ![r] = Count]
  /\ UNCHANGED <<scenario, asked>>

Next ==
  \/ \E r \in Run :
       \/ \E s \in Scenario \cup {None} : Prepare(r, s)
       \/ Start(r) \/ Account(r) \/ End(r)
  \/ \E R \in SUBSET Run : Ask(R)

Spec == Init /\ [][Next]_vars
=============================================================================
