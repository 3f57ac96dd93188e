------------------------ MODULE MCProductionNetwork ----
(* ProductionNetwork and ProductionSdn on the two nodes of the configuration. *)
EXTENDS ProductionNetwork
=============================================================================
