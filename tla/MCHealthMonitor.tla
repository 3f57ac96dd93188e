--------------------------- MODULE MCHealthMonitor ---------------------------
(* Instances of HealthMonitor for TLC; a unit of time is about a minute. *)
EXTENDS HealthMonitor

FewStatuses == {"HEALTHY", "FAILED"}
OnOrOff == BOOLEAN
=============================================================================
