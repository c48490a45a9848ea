--------------------------- MODULE MCAgitatorRuns ---------------------------
(***************************************************************************)
(* Instances of AgitatorRuns for TLC: a handful of run ids, claim-burst    *)
(* (the one scenario with a lookup) and a chaos scenario.                  *)
(***************************************************************************)
EXTENDS AgitatorRuns, TLC

MCScenario == {"claim-burst", "sda-degraded"}
MCLookup == {"claim-burst"}
MCChaos == {"sda-degraded"}
RunSymmetry == Permutations(Run)
=============================================================================
