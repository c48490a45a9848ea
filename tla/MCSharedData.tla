---------------------------- MODULE MCSharedData ----------------------------
(***************************************************************************)
(* Instances of SharedData for TLC.                                        *)
(***************************************************************************)
EXTENDS SharedData, TLC

DataSymmetry == Permutations(Customer) \cup Permutations(Request)
=============================================================================
