---------------------------- MODULE IncidentTrack ----------------------------
(***************************************************************************)
(* The promise of a health track to its readers: incidents are numbered    *)
(* without gaps, one is open at a time, the number that closes is the one  *)
(* that was open, they open on failed and close on healthy samples, and    *)
(* nothing is ever taken back.  HealthMonitor implements it; DiscordAlerts *)
(* relies on it.                                                           *)
(***************************************************************************)
EXTENDS Incidents

VARIABLE incidents

IInit == incidents = NoIncidents

INext == incidents' \in Successors(incidents)

ISpec == IInit /\ [][INext]_incidents

=============================================================================
