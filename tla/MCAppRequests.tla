---------------------------- MODULE MCAppRequests ----------------------------
(***************************************************************************)
(* AppRequests for TLC: two requests, one that a test tags and one without *)
(* a tag, a customer and an agent, and two ways to configure the keys.     *)
(***************************************************************************)
EXTENDS AppRequests

CONSTANTS r1, r2, carol, adam

MCRequests == {r1, r2}
MCOrigin == [r \in MCRequests |-> IF r = r1 THEN "test" ELSE "absent"]
MCCustomers == {carol}
MCAgents == {adam}
MCDirectives == [r \in MCRequests |->
  IF r = r1 THEN {"slow", "error500"} ELSE {"none"}]
MCKeySchemes == {[fnol |-> "k1", cp |-> "k2", ap |-> "k3"],
                 [fnol |-> "k1", cp |-> "k1", ap |-> "k3"]}
=============================================================================
