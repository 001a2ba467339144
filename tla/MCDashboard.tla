---------------------------- MODULE MCDashboard ----------------------------
(* The needle state machine and a tab of the dashboard; the configuration  *)
(* gives the values.                                                       *)
EXTENDS Dashboard

============================================================================
