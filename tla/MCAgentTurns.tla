---------------------------- MODULE MCAgentTurns ----------------------------
(***************************************************************************)
(* An instance of AgentTurns for TLC: one log entry, an error.             *)
(***************************************************************************)
EXTENDS AgentTurns, TLC

CONSTANT e1

MCEntries == {e1}
MCLevel == e1 :> "ERROR"
=============================================================================
