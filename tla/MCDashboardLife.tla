--------------------------- MODULE MCDashboardLife ---------------------------
(***************************************************************************)
(* DashboardLife for TLC: its constants are numbers and switches.          *)
(***************************************************************************)
EXTENDS DashboardLife
=============================================================================
