------------------------------ MODULE Incidents ------------------------------
(***************************************************************************)
(* The numbered incidents of a health track, as its readers know them, and *)
(* what one sample may do to them (observe() in lib/llm_health.py).        *)
(***************************************************************************)
EXTENDS Naturals

\* sequence: incidents so far; incident: the open one or 0; closed: the one closed
\* last or 0; latest: the status of the last sample that counted.
NoIncidents == [sequence |-> 0, incident |-> 0, closed |-> 0, latest |-> "NONE"]

SampleStatuses == {"HEALTHY", "FAILED", "LOADING", "OBSERVER_ERROR"}

\* An incident opens on a failed sample, under the next number.
Opens(t) ==
    IF t.incident # 0 THEN {}
    ELSE {[sequence |-> t.sequence + 1, incident |-> t.sequence + 1, closed |-> t.closed,
           latest |-> "FAILED"]}

\* It closes on a healthy one.
Closes(t) ==
    IF t.incident = 0 THEN {}
    ELSE {[sequence |-> t.sequence, incident |-> 0, closed |-> t.incident, latest |-> "HEALTHY"]}

\* Any other sample leaves the numbers alone.
Continues(t, statuses) == {[t EXCEPT !.latest = s] : s \in statuses}

Successors(t) == Opens(t) \cup Closes(t) \cup Continues(t, SampleStatuses)

=============================================================================
