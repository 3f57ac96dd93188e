---------------------- MODULE MCObservationPipeline ----------------------
(* Instances of ObservationPipeline for TLC. *)
EXTENDS ObservationPipeline

OneEpoch == {1}
TwoEpochs == {1, 2}
ThreeMinutes == 0..2
FourMinutes == 0..3
TwoTimes == {1, 2}
BothOutcomes == {"OBSERVED", "SOURCE_FAILED"}
OneOutcome == {"OBSERVED"}
OneTime == {1}

SourceFaults == {"KILLED", "WRITE_FAILED", "PRODUCER_RESET", "PRODUCER_STATE_LOST", "PRODUCER_RESTORED"}
ReporterFaults == {"KILLED", "PRODUCER_RESET", "REPORTER_STATE_LOST"}
Kills == {"KILLED", "WRITE_FAILED"}
NoFaults == {}
=============================================================================
