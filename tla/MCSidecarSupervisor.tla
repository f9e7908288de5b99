------------------------- MODULE MCSidecarSupervisor -------------------------
(* SidecarSupervisor for TLC, with two faults (MCConnections has the         *)
(* budgets of a fault with an exit, a suspend or a restart by the user).     *)
EXTENDS SidecarSupervisor

MCBudgets == {[faults |-> 2, restarts |-> 0, suspends |-> 0, exits |-> 0]}
=============================================================================
