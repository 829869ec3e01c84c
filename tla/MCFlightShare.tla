---------------------------- MODULE MCFlightShare ----------------------------
(* Bounds of the run that shows the race of a removal; MCMoreServices has the other one. *)
EXTENDS FlightShare

RemovalBudget == [request |-> 3, view |-> 0, restart |-> 0]
=============================================================================
