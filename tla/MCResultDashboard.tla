------------------------- MODULE MCResultDashboard -------------------------
(* A small instance of ResultDashboard for TLC.                            *)
EXTENDS ResultDashboard

DashboardFairSpec == DashboardSpec /\ DashboardFairness
=============================================================================
