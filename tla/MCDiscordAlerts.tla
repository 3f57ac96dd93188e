--------------------------- MODULE MCDiscordAlerts ---------------------------
(* Instances of DiscordAlerts for TLC. *)
EXTENDS DiscordAlerts, TLC

CONSTANTS W1, W2, Gpu, Capacity, Freshness

TwoWorkers == {W1, W2}
WorkerSymmetry == Permutations(TwoWorkers)
NoKeys == {}
OneService == {Gpu}
TwoPlain == {Capacity, Freshness}
Seen == {"HEALTHY", "FAILED", "LOADING"}
=============================================================================
