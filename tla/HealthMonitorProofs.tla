------------------------- MODULE HealthMonitorProofs -------------------------
(***************************************************************************)
(* The health monitor keeps the promise of IncidentTrack and mails no      *)
(* event twice, for every limit, window, set of statuses and clock.        *)
(***************************************************************************)
EXTENDS HealthMonitor, FiniteSetTheorems, TLAPS

-----------------------------------------------------------------------------
(* The record types the steps need.                                        *)

TrackType == [sampleAt : Int, latest : Promised!SampleStatuses \cup {"NONE"}, failures : Int,
              healthySince : Int, healthySamples : Int, incident : Nat, sequence : Nat,
              closed : Nat, closedAt : Int]
ReportType == [status : Statuses \cup {"MISSING", "INVALID"}, at : Int]
MailType == [status : DeliveryStates, incident : Nat, attempts : Int, retryAfter : Int]
RunType == [active : BOOLEAN, todo : SUBSET Events, sending : SUBSET Events]

Shapes ==
    /\ now \in Int /\ last \in Int
    /\ report \in ReportType /\ track \in TrackType
    /\ mail \in [Events -> MailType] /\ run \in RunType

\* The numbers of a track: the open incident is the newest, the closed one older.
Numbers(t) ==
    /\ t.incident \in {0, t.sequence} /\ t.closed <= t.sequence
    /\ t.incident # 0 => t.closed < t.incident

\* One sample of observe(), as IncidentTrack sees it.
Step(t, u) ==
    /\ u \in TrackType
    /\ Seen(u) \in Promised!Successors(Seen(t)) \/ Seen(u) = Seen(t)

LEMMA NeverType == Never \in Int
BY DEF Never

LEMMA RestartedKeeps ==
    ASSUME NEW t \in TrackType
    PROVE  Restarted(t) \in TrackType /\ Seen(Restarted(t)) = Seen(t)
<1>1. Restarted(t) \in TrackType
  <2> DEFINE a == [t EXCEPT !.failures = 0]
             b == [a EXCEPT !.healthySince = Never]
             c == [b EXCEPT !.healthySamples = 0]
  <2>1. a \in TrackType BY DEF TrackType
  <2>2. b \in TrackType BY <2>1, NeverType DEF TrackType
  <2>3. c \in TrackType BY <2>2 DEF TrackType
  <2>4. c = Restarted(t) BY DEF TrackType, Restarted
  <2> QED BY <2>3, <2>4
<1>2. Seen(Restarted(t)) = Seen(t)
  BY DEF Restarted, TrackType, Seen
<1> QED BY <1>1, <1>2

LEMMA ObserveSteps ==
    ASSUME NEW t \in TrackType, NEW s \in Promised!SampleStatuses, NEW at \in Int,
           NEW count \in Int, NEW fresh \in Int
    PROVE  Step(t, Observe(t, s, at, count, fresh))
<1> DEFINE b == [t EXCEPT !.sampleAt = at, !.latest = s]
           u == IF Interrupted(t, s, at, fresh) THEN Restarted(b) ELSE b
<1>1. b \in TrackType /\ Seen(b) = [Seen(t) EXCEPT !.latest = s]
  <2>1. b \in TrackType
    BY DEF TrackType
  <2>2. Seen(b) = [Seen(t) EXCEPT !.latest = s]
    BY DEF TrackType, Seen
  <2> QED BY <2>1, <2>2
<1>2. u \in TrackType /\ Seen(u) = [Seen(t) EXCEPT !.latest = s]
  BY <1>1, RestartedKeeps
<1>3. Seen(u) \in Promised!Successors(Seen(t))
  BY <1>2 DEF Promised!Successors, Promised!Continues
<1>4. u.incident = t.incident /\ u.sequence = t.sequence /\ u.closed = t.closed /\ u.latest = s
  BY <1>2 DEF Seen, TrackType
<1> HIDE DEF u
<1>5. CASE ~(t.sampleAt # Never /\ at <= t.sampleAt) /\ s = "FAILED"
  <2>1. FailedSample(u, count) \in TrackType
    <3> DEFINE rA == [u EXCEPT !.healthySince = Never]
               rB == [rA EXCEPT !.healthySamples = 0]
               rC == [rB EXCEPT !.failures = u.failures + 1]
               rD == [rC EXCEPT !.sequence = u.sequence + 1]
               rE == [rD EXCEPT !.incident = u.sequence + 1]
    <3> HIDE DEF rA, rB, rC, rD, rE
    <3>0. u.failures + 1 \in Int /\ u.sequence + 1 \in Nat BY <1>2 DEF TrackType
    <3>1. rA \in TrackType BY <1>2, NeverType DEF TrackType, rA
    <3>2. rB \in TrackType BY <3>1 DEF TrackType, rB
    <3>3. rC \in TrackType BY <3>2, <3>0 DEF TrackType, rC
    <3>4. rD \in TrackType BY <3>3, <3>0 DEF TrackType, rD
    <3>5. rE \in TrackType BY <3>4, <3>0 DEF TrackType, rE
    <3>6. FailedSample(u, count) \in {rC, rE}
      BY <1>2 DEF FailedSample, TrackType, rA, rB, rC, rD, rE
    <3> QED BY <3>3, <3>5, <3>6
  <2>2. \/ Seen(FailedSample(u, count)) = Seen(u)
        \/ /\ t.incident = 0
           /\ Seen(FailedSample(u, count)) =
                [sequence |-> t.sequence + 1, incident |-> t.sequence + 1, closed |-> t.closed,
                 latest |-> "FAILED"]
    BY <1>2, <1>4, <1>5 DEF FailedSample, TrackType, Seen
  <2>3. Observe(t, s, at, count, fresh) = FailedSample(u, count)
    BY <1>5 DEF Observe, u
  <2>4. Seen(FailedSample(u, count)) \in Promised!Successors(Seen(t))
    BY <2>2, <1>3 DEF Promised!Successors, Promised!Opens, Seen
  <2> QED BY <2>1, <2>3, <2>4 DEF Step
<1>6. CASE ~(t.sampleAt # Never /\ at <= t.sampleAt) /\ s = "HEALTHY"
  <2>1. HealthySample(u, at) \in TrackType
    <3> DEFINE rA == [u EXCEPT !.failures = 0]
               since == IF u.healthySince = Never THEN at ELSE u.healthySince
               rB == [rA EXCEPT !.healthySince = since]
               rC == [rB EXCEPT !.healthySamples = u.healthySamples + 1]
               rD == [rC EXCEPT !.closed = u.incident]
               rE == [rD EXCEPT !.incident = 0]
               rF == [rE EXCEPT !.closedAt = at]
               rG == [rF EXCEPT !.healthySince = Never]
    <3> HIDE DEF rA, rB, rC, rD, rE, rF, rG
    <3>0. u.healthySamples + 1 \in Int /\ u.incident \in Nat BY <1>2 DEF TrackType
    <3>1. rA \in TrackType BY <1>2 DEF TrackType, rA
    <3>2. since \in Int BY <1>2 DEF TrackType
    <3>3. rB \in TrackType BY <3>1, <3>2 DEF TrackType, rB
    <3>4. rC \in TrackType BY <3>3, <3>0 DEF TrackType, rC
    <3>5. rD \in TrackType BY <3>4, <3>0 DEF TrackType, rD
    <3>6. rE \in TrackType BY <3>5 DEF TrackType, rE
    <3>7. rF \in TrackType BY <3>6 DEF TrackType, rF
    <3>8. rG \in TrackType BY <3>7, NeverType DEF TrackType, rG
    <3>9. HealthySample(u, at) \in {rA, rC, rG}
      BY <1>2 DEF HealthySample, TrackType, rA, rB, rC, rD, rE, rF, rG
    <3> QED BY <3>1, <3>4, <3>8, <3>9
  <2>2. \/ Seen(HealthySample(u, at)) = Seen(u)
        \/ /\ t.incident # 0
           /\ Seen(HealthySample(u, at)) =
                [sequence |-> t.sequence, incident |-> 0, closed |-> t.incident,
                 latest |-> "HEALTHY"]
    BY <1>2, <1>4, <1>6 DEF HealthySample, TrackType, Seen
  <2>3. Observe(t, s, at, count, fresh) = HealthySample(u, at)
    BY <1>6 DEF Observe, u
  <2>4. Seen(HealthySample(u, at)) \in Promised!Successors(Seen(t))
    BY <2>2, <1>3 DEF Promised!Successors, Promised!Closes, Seen
  <2> QED BY <2>1, <2>3, <2>4 DEF Step
<1>7. CASE ~(t.sampleAt # Never /\ at <= t.sampleAt) /\ s \notin {"FAILED", "HEALTHY"}
  BY <1>7, <1>2, <1>3 DEF Observe, u, Step
<1>8. CASE t.sampleAt # Never /\ at <= t.sampleAt
  BY <1>8 DEF Observe, Step
<1> QED BY <1>5, <1>6, <1>7, <1>8

LEMMA EvidenceType ==
    ASSUME Shapes PROVE Status \in Promised!SampleStatuses /\ SampleAt \in Int
BY HealthAssumption
   DEF Shapes, ReportType, Status, SampleAt, Evidence, ObserverStatus, Usable,
       Promised!SampleStatuses

LEMMA CollectedSteps ==
    ASSUME Shapes PROVE Step(track, Collected)
<1>1. Step(track, Observed)
  BY EvidenceType, ObserveSteps, HealthAssumption DEF Observed, Shapes
<1> QED BY <1>1, RestartedKeeps DEF Collected, Step

-----------------------------------------------------------------------------
LEMMA MailboxType ==
    ASSUME Shapes, NEW enabled \in BOOLEAN
    PROVE  Mailbox(enabled) \in [Events -> MailType]
<1> DEFINE e == EventOf(track, Collected)
<1>1. Withdrawn(e) \in [Events -> MailType]
  <2>1. \A d \in MailType : Supersede(d) \in MailType
    BY DEF Supersede, MailType, DeliveryStates
  <2> QED BY <2>1 DEF Withdrawn, Shapes
<1>2. Collected \in TrackType
  BY CollectedSteps DEF Step
<1>3. \A n \in Nat : Reserved(n) \in MailType
  BY DEF Reserved, MailType, DeliveryStates
<1>4. ASSUME NEW d \in [Events -> MailType]
      PROVE  Due(Collected, e, d) \in [Events -> MailType]
  BY <1>2, <1>3 DEF Due, TrackType, Events
<1> QED BY <1>1, <1>4 DEF Mailbox

LEMMA ShapesInit == HInit => Shapes
BY HealthAssumption DEF HInit, Shapes, NoReport, EmptyTrack, NoDelivery, NoRun, ReportType,
   TrackType, MailType, RunType, DeliveryStates, Never

LEMMA ShapesNext == Shapes /\ [HNext]_hVars => Shapes'
<1> SUFFICES ASSUME Shapes, [HNext]_hVars PROVE Shapes'
  OBVIOUS
<1> USE DEF Shapes
<1>1. CASE Tick BY <1>1 DEF Tick, stateVars
<1>2. CASE ReportLost
  BY <1>2 DEF ReportLost, stateVars, ReportType
<1>3. CASE ParentChanges BY <1>3 DEF ParentChanges, stateVars
<1>4. ASSUME NEW s \in Statuses, NEW skew \in 0..FutureSkew, Probe(s, skew) PROVE Shapes'
  BY <1>4, HealthAssumption DEF Probe, stateVars, ReportType
<1>5. ASSUME NEW enabled \in Notifications, Collect(enabled) PROVE Shapes'
  <2>1. enabled \in BOOLEAN BY HealthAssumption
  <2>2. track' \in TrackType /\ mail' \in [Events -> MailType]
    BY <1>5, <2>1, CollectedSteps, MailboxType DEF Collect, Step
  <2>3. run' \in RunType
    BY <1>5 DEF Collect, RunType
  <2> QED BY <1>5, <2>2, <2>3 DEF Collect
<1>6. ASSUME NEW v \in Events, MailAttempt(v) PROVE Shapes'
  <2>1. mail' \in [Events -> MailType]
    <3> DEFINE a == [mail[v] EXCEPT !.attempts = mail[v].attempts + 1]
               b == [a EXCEPT !.status = "ATTEMPTED"]
    <3>1. a \in MailType BY DEF MailType
    <3>2. b \in MailType BY <3>1 DEF MailType, DeliveryStates
    <3>3. mail' = [mail EXCEPT ![v] = b] BY <1>6 DEF MailAttempt, MailType
    <3> QED BY <3>2, <3>3
  <2>2. run' \in RunType
    BY <1>6 DEF MailAttempt, RunType
  <2> QED BY <1>6, <2>1, <2>2 DEF MailAttempt
<1>7. ASSUME NEW v \in Events, MailSent(v) PROVE Shapes'
  BY <1>7 DEF MailSent, MailType, RunType, DeliveryStates
<1>8. ASSUME NEW v \in Events, MailRefused(v) PROVE Shapes'
  <2>1. NotSent(mail[v]) \in MailType
    <3> DEFINE s == IF mail[v].attempts >= MaxAttempts THEN "EXHAUSTED" ELSE "NOT_SENT"
               n == last + IF mail[v].attempts = 1 THEN RetryFirst ELSE RetryNext
               a == [mail[v] EXCEPT !.status = s]
               b == [a EXCEPT !.retryAfter = n]
    <3>1. s \in DeliveryStates BY DEF DeliveryStates
    <3>2. n \in Int BY HealthAssumption
    <3> HIDE DEF s, n
    <3>3. a \in MailType BY <3>1 DEF MailType
    <3>4. b \in MailType BY <3>2, <3>3 DEF MailType
    <3>5. NotSent(mail[v]) = b BY DEF NotSent, MailType, s, n
    <3> QED BY <3>4, <3>5
  <2>2. mail' \in [Events -> MailType] /\ run' \in RunType
    BY <1>8, <2>1 DEF MailRefused, RunType
  <2> QED BY <1>8, <2>2 DEF MailRefused
<1>9. ASSUME NEW v \in Events, MailUncertain(v) PROVE Shapes'
  BY <1>9 DEF MailUncertain, MailType, RunType, DeliveryStates
<1>10. CASE Publish BY <1>10 DEF Publish, NoRun, RunType, stateVars
<1>11. CASE Crash BY <1>11 DEF Crash, NoRun, RunType, stateVars
<1>12. CASE UNCHANGED hVars BY <1>12 DEF hVars, stateVars
<1> QED BY <1>1, <1>2, <1>3, <1>4, <1>5, <1>6, <1>7, <1>8, <1>9, <1>10, <1>11, <1>12
        DEF HNext, MailNext

\* The records of the monitor keep their shapes: state.json, the report and the
\* deliveries hold values of the kinds the next run reads.
THEOREM ShapesHold == HSpec => []Shapes
BY ShapesInit, ShapesNext, PTL DEF HSpec

-----------------------------------------------------------------------------
\* A step of the monitor is a step of the promise or does not concern it.
LEMMA TrackSteps ==
    ASSUME Shapes, [HNext]_hVars
    PROVE  [Promised!INext]_(Seen(track))
<1>1. ASSUME NEW enabled \in Notifications, Collect(enabled)
      PROVE  [Promised!INext]_(Seen(track))
  <2>1. track' = Collected BY <1>1 DEF Collect
  <2> QED BY <2>1, CollectedSteps DEF Step, Promised!INext
<1>2. ASSUME NEW s \in Statuses, NEW skew \in 0..FutureSkew, Probe(s, skew)
      PROVE  UNCHANGED track
  BY <1>2 DEF Probe, stateVars
<1>3. ASSUME MailNext PROVE UNCHANGED track
  BY <1>3 DEF MailNext, MailAttempt, MailSent, MailRefused, MailUncertain
<1>4. ASSUME Tick \/ ReportLost \/ ParentChanges \/ Publish \/ Crash \/ UNCHANGED hVars
      PROVE  UNCHANGED track
  BY <1>4 DEF Tick, ReportLost, ParentChanges, Publish, Crash, hVars, stateVars
<1>5. UNCHANGED track => [Promised!INext]_(Seen(track))
  OBVIOUS
<1> QED BY <1>1, <1>2, <1>3, <1>4, <1>5 DEF HNext

\* The track implements IncidentTrack: numbers without gaps, one incident open at a
\* time, opened by a failed and closed by a healthy sample.
THEOREM HealthImplementsIncidents == HSpec => IncidentsAreNumbered
<1>1. HInit => Promised!IInit
  BY DEF HInit, EmptyTrack, Seen, Promised!IInit, Promised!NoIncidents
<1>2. Shapes /\ [HNext]_hVars => [Promised!INext]_(Seen(track))
  BY TrackSteps
<1> QED BY <1>1, <1>2, ShapesHold, PTL DEF HSpec, IncidentsAreNumbered, Promised!ISpec

-----------------------------------------------------------------------------
(* No event is mailed twice.                                               *)

\* Nothing that may still be sent was sent before: the invariant that makes
\* OneMailPerEvent inductive, with the order in which the numbers grow.
MayGoOut(v) == Unsent(mail[v]) \/ v \in run.sending

Delivered ==
    /\ Numbers(track)
    /\ mail["FAILED"].incident <= track.sequence
    /\ mail["RECOVERED"].incident <= track.closed
    /\ run.active \/ run.sending = {}
    /\ \A v \in run.sending : run.sending = {v} /\ mail[v].status = "ATTEMPTED"
    /\ \A a \in accepted : /\ a.event \in Events /\ a.incident \in Nat /\ a.copy = 1
                           /\ a.incident <= mail[a.event].incident
                           /\ MayGoOut(a.event) => a.incident # mail[a.event].incident

LEMMA NumbersStep ==
    ASSUME NEW t \in TrackType, NEW u, Step(t, u), Numbers(t)
    PROVE  /\ Numbers(u) /\ t.sequence <= u.sequence /\ t.closed <= u.closed
           /\ (t.incident # 0 /\ u.incident = 0) => u.closed = t.incident
<1>1. u \in TrackType BY DEF Step
<1>2. CASE u.sequence = t.sequence /\ u.incident = t.incident /\ u.closed = t.closed
  BY <1>1, <1>2 DEF Numbers, TrackType
<1>3. CASE Seen(u) \in Promised!Opens(Seen(t))
  <2>1. /\ t.incident = 0 /\ u.sequence = t.sequence + 1 /\ u.incident = t.sequence + 1
        /\ u.closed = t.closed
    BY <1>3 DEF Promised!Opens, Seen
  <2> QED BY <1>1, <2>1 DEF Numbers, TrackType
<1>4. CASE Seen(u) \in Promised!Closes(Seen(t))
  <2>1. /\ t.incident # 0 /\ u.sequence = t.sequence /\ u.incident = 0
        /\ u.closed = t.incident
    BY <1>4 DEF Promised!Closes, Seen
  <2> QED BY <1>1, <2>1 DEF Numbers, TrackType
<1>5. CASE Seen(u) \in Promised!Continues(Seen(t), Promised!SampleStatuses)
  <2>1. u.sequence = t.sequence /\ u.incident = t.incident /\ u.closed = t.closed
    BY <1>5 DEF Promised!Continues, Seen
  <2> QED BY <1>2, <2>1
<1>6. CASE Seen(u) = Seen(t)
  <2>1. u.sequence = t.sequence /\ u.incident = t.incident /\ u.closed = t.closed
    BY <1>6 DEF Seen
  <2> QED BY <1>2, <2>1
<1> QED BY <1>3, <1>4, <1>5, <1>6 DEF Step, Promised!Successors

\* Withdrawing a mail leaves its incident, and what was resolved stays resolved.
LEMMA WithdrawnKeeps ==
    ASSUME Shapes, NEW e, NEW v \in Events
    PROVE  /\ Withdrawn(e) \in [Events -> MailType]
           /\ Withdrawn(e)[v].incident = mail[v].incident
           /\ Unsent(Withdrawn(e)[v]) => Unsent(mail[v])
<1>1. ASSUME NEW d \in MailType
      PROVE  /\ Supersede(d) \in MailType /\ Supersede(d).incident = d.incident
             /\ Unsent(Supersede(d)) => Unsent(d)
  BY DEF Supersede, Unsent, MailType, DeliveryStates
<1> QED BY <1>1 DEF Withdrawn, Shapes

\* What a collection leaves in the mailbox: as before, or a new mail about an
\* incident later than any the mail was about.
LEMMA MailboxKeeps ==
    ASSUME Shapes, Delivered, NEW enabled \in BOOLEAN, NEW v \in Events
    PROVE  LET d == Mailbox(enabled)[v]
           IN  /\ \/ d.incident = mail[v].incident /\ (Unsent(d) => Unsent(mail[v]))
                  \/ mail[v].incident < d.incident
               /\ v = "FAILED" => d.incident <= Collected.sequence
               /\ v = "RECOVERED" => d.incident <= Collected.closed
<1> DEFINE u == Collected
           e == EventOf(track, u)
           d == Mailbox(enabled)[v]
           w == Withdrawn(e)
<1>1. /\ u \in TrackType /\ Numbers(u) /\ track.sequence <= u.sequence
      /\ track.closed <= u.closed
      /\ (track.incident # 0 /\ u.incident = 0) => u.closed = track.incident
  BY CollectedSteps, NumbersStep DEF Shapes, Delivered, Step
<1>2. /\ w \in [Events -> MailType] /\ w[v].incident = mail[v].incident
      /\ Unsent(w[v]) => Unsent(mail[v])
  BY WithdrawnKeeps
<1>3. /\ mail[v].incident \in Nat
      /\ v = "FAILED" => mail[v].incident <= u.sequence
      /\ v = "RECOVERED" => mail[v].incident <= u.closed
  BY <1>1 DEF Delivered, Shapes, MailType, TrackType
<1> HIDE DEF u, e
<1>4. CASE d = w[v]
  BY <1>4, <1>2, <1>3 DEF u
<1>5. CASE v = "RECOVERED" /\ e = "RECOVERED" /\ d = Reserved(u.closed)
  <2>1. track.incident # 0 /\ u.incident = 0 /\ track.closed < track.incident
    BY <1>5 DEF e, EventOf, Delivered, Numbers, u
  <2>2. mail[v].incident < u.closed
    BY <2>1, <1>1, <1>3, <1>5 DEF Delivered, Shapes, TrackType, u
  <2> QED BY <2>2, <1>1, <1>5 DEF Reserved, TrackType, u
<1>6. CASE v = "FAILED" /\ u.incident # 0 /\ w[v].incident # u.incident
           /\ d = Reserved(u.incident)
  <2>1. u.incident = u.sequence
    BY <1>1, <1>6 DEF Numbers, u
  <2>2. mail[v].incident < u.incident
    BY <2>1, <1>1, <1>2, <1>3, <1>6 DEF TrackType, u
  <2> QED BY <2>1, <2>2, <1>1, <1>6 DEF Reserved, TrackType, u
<1>7. \/ d = w[v]
      \/ v = "RECOVERED" /\ e = "RECOVERED" /\ d = Reserved(u.closed)
      \/ /\ v = "FAILED" /\ u.incident # 0 /\ w[v].incident # u.incident
         /\ d = Reserved(u.incident)
  BY <1>2 DEF Mailbox, Due, Events, u, e
<1> QED BY <1>4, <1>5, <1>6, <1>7 DEF u

LEMMA DeliveredInit == HInit => Delivered
<1> SUFFICES ASSUME HInit PROVE Delivered
  OBVIOUS
<1>1. Numbers(track)
  BY DEF HInit, EmptyTrack, Numbers
<1>2. mail["FAILED"].incident = 0 /\ mail["RECOVERED"].incident = 0
  BY DEF HInit, NoDelivery, Events
<1>3. accepted = {} /\ run.sending = {} /\ track.sequence = 0 /\ track.closed = 0
  BY DEF HInit, NoRun, EmptyTrack
<1> QED BY <1>1, <1>2, <1>3 DEF Delivered

LEMMA DeliveredCollect ==
    ASSUME Shapes, Delivered, NEW enabled \in BOOLEAN, Collect(enabled)
    PROVE  Delivered'
<1>1. track' = Collected /\ mail' = Mailbox(enabled) /\ accepted' = accepted
      /\ run'.active = TRUE /\ run'.sending = {} /\ run.sending = {}
  BY DEF Collect, Delivered, Shapes, RunType
<1>2. Numbers(track')
  BY <1>1, CollectedSteps, NumbersStep DEF Shapes, Delivered
<1>3. mail'["FAILED"].incident <= track'.sequence /\ mail'["RECOVERED"].incident <= track'.closed
  BY <1>1, MailboxKeeps DEF Events
<1>4. mail' \in [Events -> MailType]
  BY <1>1, MailboxType
<1>5. ASSUME NEW a \in accepted
      PROVE  /\ a.event \in Events /\ a.incident \in Nat /\ a.copy = 1
             /\ a.incident <= mail'[a.event].incident
             /\ MayGoOut(a.event)' => a.incident # mail'[a.event].incident
  <2>1. /\ a.event \in Events /\ a.incident \in Nat /\ a.copy = 1
        /\ a.incident <= mail[a.event].incident
        /\ Unsent(mail[a.event]) => a.incident # mail[a.event].incident
    BY <1>5 DEF Delivered, MayGoOut
  <2>2. \/ /\ mail'[a.event].incident = mail[a.event].incident
           /\ Unsent(mail'[a.event]) => Unsent(mail[a.event])
        \/ mail[a.event].incident < mail'[a.event].incident
    BY <2>1, <1>1, MailboxKeeps
  <2>3. mail[a.event].incident \in Nat /\ mail'[a.event].incident \in Nat
    BY <2>1, <1>4 DEF Shapes, MailType
  <2>4. MayGoOut(a.event)' => Unsent(mail'[a.event])
    BY <1>1 DEF MayGoOut, Unsent
  <2>5. a.incident <= mail'[a.event].incident
    BY <2>1, <2>2, <2>3
  <2>6. CASE /\ mail'[a.event].incident = mail[a.event].incident
             /\ Unsent(mail'[a.event]) => Unsent(mail[a.event])
    BY <2>1, <2>4, <2>5, <2>6
  <2>7. CASE mail[a.event].incident < mail'[a.event].incident
    <3>1. a.incident # mail'[a.event].incident BY <2>1, <2>3, <2>7
    <3> QED BY <2>1, <2>5, <3>1
  <2> QED BY <2>2, <2>6, <2>7
<1> QED BY <1>1, <1>2, <1>3, <1>5 DEF Delivered

\* A step that leaves the track, the incidents of the mails and what was accepted, and
\* makes no mail ready to go out that was not.
LEMMA DeliveredKept ==
    ASSUME Delivered, UNCHANGED <<track, accepted>>,
           \A v \in Events : mail'[v].incident = mail[v].incident,
           \A v \in Events : MayGoOut(v)' => MayGoOut(v),
           run'.active \/ run'.sending = {},
           \A v \in run'.sending : run'.sending = {v} /\ mail'[v].status = "ATTEMPTED"
    PROVE  Delivered'
<1>1. Numbers(track')
  BY DEF Delivered
<1>2. mail'["FAILED"].incident <= track'.sequence /\ mail'["RECOVERED"].incident <= track'.closed
  BY DEF Delivered, Events
<1>3. \A a \in accepted' : /\ a.event \in Events /\ a.incident \in Nat /\ a.copy = 1
                           /\ a.incident <= mail'[a.event].incident
                           /\ MayGoOut(a.event)' => a.incident # mail'[a.event].incident
  BY DEF Delivered
<1> QED BY <1>1, <1>2, <1>3 DEF Delivered

\* A mail that may go out for the first time is counted as copy 1.
LEMMA FirstCopy ==
    ASSUME Delivered, NEW v \in Events, MayGoOut(v)
    PROVE  Accepted(v) = accepted \cup {[event |-> v, incident |-> mail[v].incident, copy |-> 1]}
<1>1. {a \in accepted : a.event = v /\ a.incident = mail[v].incident} = {}
  BY DEF Delivered
<1> QED BY <1>1, FS_EmptySet DEF Accepted

\* The server takes the mail under way, and nothing that goes out stays under way.
LEMMA DeliveredAccepted ==
    ASSUME Shapes, Delivered, NEW v \in run.sending, UNCHANGED track,
           accepted' = Accepted(v), run'.sending = {},
           \A w \in Events : mail'[w].incident = mail[w].incident,
           \A w \in Events : Unsent(mail'[w]) => Unsent(mail[w]),
           ~Unsent(mail'[v])
    PROVE  Delivered'
<1>0. v \in Events
  BY DEF Shapes, RunType
<1>1. MayGoOut(v)
  BY DEF MayGoOut
<1> DEFINE new == [event |-> v, incident |-> mail[v].incident, copy |-> 1]
<1>2. accepted' = accepted \cup {new}
  BY <1>0, <1>1, FirstCopy
<1>3. \A w \in Events : MayGoOut(w)' => Unsent(mail[w]) /\ w # v
  BY DEF MayGoOut, Unsent
<1>4. mail[v].incident \in Nat
  BY <1>0 DEF Shapes, MailType
<1>5. ASSUME NEW a \in accepted
      PROVE  /\ a.event \in Events /\ a.incident \in Nat /\ a.copy = 1
             /\ a.incident <= mail'[a.event].incident
             /\ MayGoOut(a.event)' => a.incident # mail'[a.event].incident
  BY <1>3, <1>5 DEF Delivered, MayGoOut
<1>6. /\ new.event \in Events /\ new.incident \in Nat /\ new.copy = 1
      /\ new.incident <= mail'[new.event].incident
      /\ MayGoOut(new.event)' => new.incident # mail'[new.event].incident
  BY <1>0, <1>3, <1>4
<1>7. Numbers(track')
  BY DEF Delivered
<1>8. mail'["FAILED"].incident <= track'.sequence /\ mail'["RECOVERED"].incident <= track'.closed
  BY DEF Delivered, Events
<1> DEFINE Fine(a) == /\ a.event \in Events /\ a.incident \in Nat /\ a.copy = 1
                      /\ a.incident <= mail'[a.event].incident
                      /\ MayGoOut(a.event)' => a.incident # mail'[a.event].incident
<1>9. \A a \in accepted : Fine(a)
  BY <1>5
<1>10. Fine(new)
  BY <1>6
<1> HIDE DEF new, Fine
<1>11. \A a \in accepted' : Fine(a)
  BY <1>2, <1>9, <1>10
<1> USE DEF Fine
<1> QED BY <1>7, <1>8, <1>11 DEF Delivered

\* Every step but a collection leaves the track and makes no mail ready to go out;
\* what the server takes is the mail under way, which is then resolved.
MailStep ==
    /\ UNCHANGED track
    /\ \A v \in Events : mail'[v].incident = mail[v].incident
    /\ \A v \in Events : MayGoOut(v)' => MayGoOut(v)
    /\ run'.active \/ run'.sending = {}
    /\ \A v \in run'.sending : run'.sending = {v} /\ mail'[v].status = "ATTEMPTED"
    /\ \/ accepted' = accepted
       \/ \E v \in run.sending : /\ accepted' = Accepted(v) /\ run'.sending = {}
                                 /\ \A w \in Events : Unsent(mail'[w]) => Unsent(mail[w])
                                 /\ ~Unsent(mail'[v])

LEMMA OtherSteps ==
    ASSUME Shapes, Delivered, [HNext]_hVars
    PROVE  MailStep \/ \E enabled \in Notifications : Collect(enabled)
<1>1. /\ run.active \/ run.sending = {}
      /\ \A v \in run.sending : run.sending = {v} /\ mail[v].status = "ATTEMPTED"
  BY DEF Delivered
<1>2. ASSUME UNCHANGED <<track, mail, run, accepted>> PROVE MailStep
  BY <1>1, <1>2 DEF MailStep, MayGoOut, Unsent
<1>3. ASSUME NEW s \in Statuses, NEW skew \in 0..FutureSkew, Probe(s, skew) PROVE MailStep
  BY <1>2, <1>3 DEF Probe, stateVars
<1>4. CASE Tick \/ ReportLost \/ ParentChanges \/ UNCHANGED hVars
  BY <1>2, <1>4 DEF Tick, ReportLost, ParentChanges, hVars, stateVars
<1>5. ASSUME NEW v \in Events, MailAttempt(v) PROVE MailStep
  <2>1. /\ \A w \in Events : mail'[w].incident = mail[w].incident
        /\ mail'[v].status = "ATTEMPTED" /\ \A w \in Events \ {v} : mail'[w] = mail[w]
        /\ run'.sending = {v} /\ run'.active = run.active
    BY <1>5 DEF MailAttempt, Shapes, MailType, RunType
  <2>2. Unsent(mail[v]) /\ run.active
    BY <1>5 DEF MailAttempt, IsDue
  <2>3. \A w \in Events : MayGoOut(w)' => MayGoOut(w)
    BY <2>1, <2>2 DEF MayGoOut, Unsent
  <2>4. UNCHANGED <<track, accepted>>
    BY <1>5 DEF MailAttempt
  <2> QED BY <2>1, <2>2, <2>3, <2>4 DEF MailStep
<1>6. ASSUME NEW v \in Events, MailSent(v) PROVE MailStep
  <2>1. /\ \A w \in Events : mail'[w].incident = mail[w].incident
        /\ mail'[v].status = "SENT" /\ \A w \in Events \ {v} : mail'[w] = mail[w]
        /\ run'.sending = {}
    BY <1>6 DEF MailSent, Shapes, MailType, RunType
  <2>2. v \in run.sending /\ UNCHANGED track /\ accepted' = Accepted(v)
    BY <1>6 DEF MailSent
  <2>3. /\ \A w \in Events : Unsent(mail'[w]) => Unsent(mail[w])
        /\ ~Unsent(mail'[v])
    BY <2>1 DEF Unsent
  <2>4. \A w \in Events : MayGoOut(w)' => MayGoOut(w)
    BY <2>1, <2>3 DEF MayGoOut, Unsent
  <2> QED BY <2>1, <2>2, <2>3, <2>4 DEF MailStep
<1>7. ASSUME NEW v \in Events, MailRefused(v) PROVE MailStep
  <2>1. /\ \A w \in Events : mail'[w].incident = mail[w].incident
        /\ \A w \in Events \ {v} : mail'[w] = mail[w]
        /\ run'.sending = {}
    BY <1>7 DEF MailRefused, NotSent, Shapes, MailType, RunType
  <2>2. v \in run.sending /\ UNCHANGED <<track, accepted>>
    BY <1>7 DEF MailRefused
  <2>3. \A w \in Events : MayGoOut(w)' => MayGoOut(w)
    BY <2>1, <2>2 DEF MayGoOut, Unsent
  <2> QED BY <2>1, <2>2, <2>3 DEF MailStep
<1>8. ASSUME NEW v \in Events, MailUncertain(v) PROVE MailStep
  <2>1. /\ \A w \in Events : mail'[w].incident = mail[w].incident
        /\ mail'[v].status = "UNCERTAIN" /\ \A w \in Events \ {v} : mail'[w] = mail[w]
        /\ run'.sending = {}
    BY <1>8 DEF MailUncertain, Shapes, MailType, RunType
  <2>2. v \in run.sending /\ UNCHANGED track /\ accepted' \in {accepted, Accepted(v)}
    BY <1>8 DEF MailUncertain
  <2>3. /\ \A w \in Events : Unsent(mail'[w]) => Unsent(mail[w])
        /\ ~Unsent(mail'[v])
    BY <2>1 DEF Unsent
  <2>4. \A w \in Events : MayGoOut(w)' => MayGoOut(w)
    BY <2>1, <2>3 DEF MayGoOut, Unsent
  <2> QED BY <2>1, <2>2, <2>3, <2>4 DEF MailStep
<1>9. CASE Publish
  <2>1. UNCHANGED <<track, mail, accepted>> /\ run'.sending = {}
    BY <1>9 DEF Publish, stateVars, NoRun
  <2>2. \A w \in Events : MayGoOut(w)' => MayGoOut(w)
    BY <2>1 DEF MayGoOut, Unsent
  <2> QED BY <2>1, <2>2 DEF MailStep
<1>10. CASE Crash
  <2>1. UNCHANGED <<track, mail>> /\ run'.sending = {}
    BY <1>10 DEF Crash, stateVars, NoRun
  <2>2. accepted' = accepted \/ \E v \in run.sending : accepted' = Accepted(v)
    BY <1>10 DEF Crash
  <2>3. \A w \in Events : MayGoOut(w)' => MayGoOut(w)
    BY <2>1 DEF MayGoOut, Unsent
  <2>4. \A v \in run.sending : ~Unsent(mail'[v])
    BY <1>1, <2>1 DEF Unsent
  <2> QED BY <2>1, <2>2, <2>3, <2>4 DEF MailStep
<1> QED BY <1>3, <1>4, <1>5, <1>6, <1>7, <1>8, <1>9, <1>10 DEF HNext, MailNext

LEMMA DeliveredNext == Shapes /\ Delivered /\ [HNext]_hVars => Delivered'
<1> SUFFICES ASSUME Shapes, Delivered, [HNext]_hVars PROVE Delivered'
  OBVIOUS
<1>1. CASE MailStep
  <2>1. CASE accepted' = accepted
    BY <1>1, <2>1, DeliveredKept DEF MailStep
  <2>2. CASE accepted' # accepted
    BY <1>1, <2>2, DeliveredAccepted DEF MailStep
  <2> QED BY <2>1, <2>2
<1>2. ASSUME NEW enabled \in Notifications, Collect(enabled) PROVE Delivered'
  BY <1>2, HealthAssumption, DeliveredCollect
<1> QED BY <1>1, <1>2, OtherSteps

\* A failure or a recovery is mailed at most once, for every schedule of refusals,
\* retries, unknown outcomes and kills around SMTP.
THEOREM NoMailTwice == HSpec => []OneMailPerEvent
<1>1. Delivered => OneMailPerEvent
  BY DEF Delivered, OneMailPerEvent
<1> QED BY <1>1, DeliveredInit, DeliveredNext, ShapesHold, PTL DEF HSpec

-----------------------------------------------------------------------------
(* No mail is outdated when it goes out.                                   *)

\* What a mail about event v says of incident n holds of track t.
Holds(t, v, n) == IF v = "FAILED" THEN t.incident = n
                 ELSE t.incident = 0 /\ t.closed = n /\ t.latest = "HEALTHY"

\* Whatever may still go out is true, and about an incident.
Truthful == \A v \in Events : MayGoOut(v) => mail[v].incident # 0 /\ Holds(track, v, mail[v].incident)

LEMMA ObservedLatest ==
    ASSUME Shapes PROVE Collected.latest \in {track.latest, Status}
<1>1. ASSUME NEW t \in TrackType, NEW s, NEW at, NEW c, NEW f
      PROVE  Observe(t, s, at, c, f).latest \in {t.latest, s}
  <2> DEFINE b == [t EXCEPT !.sampleAt = at, !.latest = s]
             u == IF Interrupted(t, s, at, f) THEN Restarted(b) ELSE b
  <2>1. b.latest = s /\ DOMAIN b = DOMAIN t
    BY DEF TrackType
  <2>2. u.latest = s /\ DOMAIN u = DOMAIN t
    BY <2>1 DEF Restarted, TrackType
  <2>3. FailedSample(u, c).latest = s
    BY <2>2 DEF FailedSample, TrackType
  <2>4. HealthySample(u, at).latest = s
    BY <2>2 DEF HealthySample, TrackType
  <2>5. Observe(t, s, at, c, f) \in {t, u, FailedSample(u, c), HealthySample(u, at)}
    BY DEF Observe
  <2> QED BY <2>2, <2>3, <2>4, <2>5
<1>2. Observed.latest \in {track.latest, Status}
  BY <1>1 DEF Observed, Shapes
<1>3. Observed \in TrackType
  BY EvidenceType, ObserveSteps, HealthAssumption DEF Observed, Shapes, Step
<1> QED BY <1>2, <1>3 DEF Collected, Restarted, TrackType

\* What one sample does to the three fields a mail speaks of.
LEMMA StepCases ==
    ASSUME NEW t \in TrackType, NEW u, Step(t, u)
    PROVE  \/ /\ t.incident = 0 /\ u.incident = t.sequence + 1 /\ u.latest = "FAILED"
           \/ t.incident # 0 /\ u.incident = 0 /\ u.closed = t.incident /\ u.latest = "HEALTHY"
           \/ u.incident = t.incident /\ u.closed = t.closed
<1>1. CASE Seen(u) \in Promised!Opens(Seen(t))
  BY <1>1 DEF Promised!Opens, Seen
<1>2. CASE Seen(u) \in Promised!Closes(Seen(t))
  BY <1>2 DEF Promised!Closes, Seen
<1>3. CASE Seen(u) \in Promised!Continues(Seen(t), Promised!SampleStatuses)
  BY <1>3 DEF Promised!Continues, Seen
<1>4. CASE Seen(u) = Seen(t)
  BY <1>4 DEF Seen
<1> QED BY <1>1, <1>2, <1>3, <1>4 DEF Step, Promised!Successors

LEMMA TruthfulCollect ==
    ASSUME Shapes, Delivered, Truthful, NEW enabled \in BOOLEAN, Collect(enabled)
    PROVE  Truthful'
<1> DEFINE u == Collected
           e == EventOf(track, u)
           w == Withdrawn(e)
<1>0. /\ track' = u /\ mail' = Mailbox(enabled) /\ run'.sending = {} /\ run.sending = {}
      /\ Step(track, u) /\ u \in TrackType /\ track \in TrackType
  BY CollectedSteps DEF Collect, Delivered, Shapes, RunType, Step
<1>1. \/ /\ track.incident = 0 /\ u.incident = track.sequence + 1 /\ u.latest = "FAILED"
      \/ /\ track.incident # 0 /\ u.incident = 0 /\ u.closed = track.incident
         /\ u.latest = "HEALTHY"
      \/ u.incident = track.incident /\ u.closed = track.closed
  BY <1>0, StepCases
<1>2. ASSUME NEW v \in Events, Unsent(w[v])
      PROVE  w[v].incident # 0 /\ Holds(u, v, w[v].incident)
  <2>1. /\ w[v].incident = mail[v].incident /\ Unsent(mail[v])
    BY <1>2, WithdrawnKeeps
  <2>2. mail[v].incident # 0 /\ Holds(track, v, mail[v].incident)
    BY <2>1 DEF Truthful, MayGoOut
  <2>3. ~Unsent(Supersede(mail[v]))
    BY DEF Shapes, Supersede, Unsent, MailType
  <2>4. CASE v = "FAILED"
    <3>1. e # "RECOVERED"
      BY <1>2, <2>3, <2>4 DEF Withdrawn
    <3>2. u.incident = track.incident
      BY <1>1, <2>2, <2>4, <3>1 DEF Holds, EventOf
    <3> QED BY <2>1, <2>2, <2>4, <3>2 DEF Holds
  <2>5. CASE v = "RECOVERED"
    <3>1. Status = "HEALTHY"
      BY <1>2, <2>3, <2>5 DEF Withdrawn
    <3>2. u.latest = "HEALTHY"
      BY <2>2, <2>5, <3>1, ObservedLatest DEF Holds
    <3>3. u.incident = track.incident /\ u.closed = track.closed
      BY <1>1, <2>2, <2>5, <3>2 DEF Holds
    <3> QED BY <2>1, <2>2, <2>5, <3>2, <3>3 DEF Holds
  <2> QED BY <2>4, <2>5 DEF Events
<1>3. w \in [Events -> MailType]
  BY WithdrawnKeeps DEF Events
<1>4. ASSUME NEW v \in Events
      PROVE  \/ mail'[v] = w[v]
             \/ v = "RECOVERED" /\ e = "RECOVERED" /\ mail'[v] = Reserved(u.closed)
             \/ v = "FAILED" /\ u.incident # 0 /\ mail'[v] = Reserved(u.incident)
  BY <1>0, <1>3 DEF Mailbox, Due, Events
<1>5. ASSUME NEW v \in Events, MayGoOut(v)'
      PROVE  mail'[v].incident # 0 /\ Holds(track', v, mail'[v].incident)
  <2>1. Unsent(mail'[v])
    BY <1>0, <1>5 DEF MayGoOut, Unsent
  <2>2. CASE mail'[v] = w[v]
    BY <1>0, <1>2, <2>1, <2>2
  <2>3. CASE v = "RECOVERED" /\ e = "RECOVERED" /\ mail'[v] = Reserved(u.closed)
    <3>1. track.incident # 0 /\ u.incident = 0
      BY <2>3 DEF EventOf
    <3>2. u.closed # 0 /\ Holds(u, v, u.closed)
      BY <1>1, <2>3, <3>1 DEF Holds
    <3> QED BY <1>0, <2>3, <3>2 DEF Reserved
  <2>4. CASE v = "FAILED" /\ u.incident # 0 /\ mail'[v] = Reserved(u.incident)
    BY <1>0, <2>4 DEF Reserved, Holds
  <2> QED BY <1>4, <2>2, <2>3, <2>4
<1> QED BY <1>5 DEF Truthful

LEMMA TruthfulKept ==
    ASSUME Truthful, UNCHANGED track,
           \A v \in Events : mail'[v].incident = mail[v].incident,
           \A v \in Events : MayGoOut(v)' => MayGoOut(v)
    PROVE  Truthful'
BY DEF Truthful, Holds

LEMMA TruthfulNext == Shapes /\ Delivered /\ Truthful /\ [HNext]_hVars => Truthful'
<1> SUFFICES ASSUME Shapes, Delivered, Truthful, [HNext]_hVars PROVE Truthful'
  OBVIOUS
<1>1. CASE MailStep
  BY <1>1, TruthfulKept DEF MailStep
<1>2. ASSUME NEW enabled \in Notifications, Collect(enabled) PROVE Truthful'
  BY <1>2, HealthAssumption, TruthfulCollect
<1> QED BY <1>1, <1>2, OtherSteps

LEMMA TruthfulInit == HInit => Truthful
BY DEF HInit, Truthful, MayGoOut, Unsent, NoRun, NoDelivery, Events

\* A mail that goes out is still true: a failure mail names the open incident, a
\* recovery mail the one closed last, with nothing open and the last sample healthy.
THEOREM MailsAreCurrent == HSpec => MailIsCurrent
<1> DEFINE Fresh(m) == IF m.event = "FAILED" THEN track.incident = m.incident
              ELSE track.incident = 0 /\ track.closed = m.incident /\ track.latest = "HEALTHY"
<1>1. Shapes /\ Delivered /\ Truthful /\ [HNext]_hVars
        => [\A m \in accepted' \ accepted : Fresh(m)]_hVars
  <2> SUFFICES ASSUME Shapes, Delivered, Truthful, [HNext]_hVars, NEW m \in accepted' \ accepted
               PROVE  Fresh(m)
    OBVIOUS
  <2>1. CASE MailStep
    <3>1. PICK v \in run.sending : accepted' = Accepted(v)
      BY <2>1 DEF MailStep
    <3>2. v \in Events /\ MayGoOut(v)
      BY DEF Shapes, RunType, MayGoOut
    <3>3. m = [event |-> v, incident |-> mail[v].incident, copy |-> 1]
      BY <3>1, <3>2, FirstCopy
    <3> QED BY <3>2, <3>3 DEF Truthful, Holds
  <2>2. ASSUME NEW enabled \in Notifications, Collect(enabled) PROVE FALSE
    BY <2>2 DEF Collect
  <2> QED BY <2>1, <2>2, OtherSteps
<1> QED BY <1>1, DeliveredInit, DeliveredNext, TruthfulInit, TruthfulNext, ShapesHold, PTL
        DEF HSpec, MailIsCurrent

-----------------------------------------------------------------------------
(* Types, and the number of attempts.                                      *)

\* The clock of a collection is never ahead, and a mail that may be tried again has
\* attempts left.
Bounded ==
    /\ kind \in Tracks /\ now \in Times /\ last \in 0..now /\ parentLost \in BOOLEAN
    /\ \A v \in Events : /\ mail[v].attempts \in 0..MaxAttempts
                         /\ Unsent(mail[v]) => mail[v].attempts < MaxAttempts

LEMMA MailboxBounded ==
    ASSUME Shapes, Bounded, NEW enabled \in BOOLEAN, NEW v \in Events
    PROVE  /\ Mailbox(enabled)[v].attempts \in 0..MaxAttempts
           /\ Unsent(Mailbox(enabled)[v]) => Mailbox(enabled)[v].attempts < MaxAttempts
<1> DEFINE e == EventOf(track, Collected)
           w == Withdrawn(e)
           Fine(d) == d.attempts \in 0..MaxAttempts /\ (Unsent(d) => d.attempts < MaxAttempts)
<1>1. w \in [Events -> MailType]
  BY WithdrawnKeeps DEF Events
<1>2. ASSUME NEW d \in MailType, Fine(d) PROVE Fine(Supersede(d))
  BY <1>2 DEF Supersede, Unsent, MailType
<1>3. Fine(w[v])
  BY <1>2 DEF Withdrawn, Bounded, Shapes
<1>4. \A n : Fine(Reserved(n))
  BY DEF Reserved, MaxAttempts
<1>5. Mailbox(enabled)[v] \in {w[v]} \cup {Reserved(n) : n \in {Collected.closed, Collected.incident}}
  BY <1>1 DEF Mailbox, Due, Events
<1> HIDE DEF Fine, w
<1>6. Fine(Mailbox(enabled)[v])
  BY <1>3, <1>4, <1>5
<1> QED BY <1>6 DEF Fine

LEMMA BoundedNext == Shapes /\ Bounded /\ [HNext]_hVars => Bounded'
<1> SUFFICES ASSUME Shapes, Bounded, [HNext]_hVars PROVE Bounded'
  OBVIOUS
<1> DEFINE Fine(d) == d.attempts \in 0..MaxAttempts /\ (Unsent(d) => d.attempts < MaxAttempts)
<1>0. /\ MaxTime \in Nat /\ \A v \in Events : mail[v] \in MailType /\ Fine(mail[v])
      /\ kind \in Tracks /\ now \in Times /\ last \in 0..now /\ parentLost \in BOOLEAN
  BY HealthAssumption DEF Shapes, Bounded
<1>a. ASSUME kind' \in Tracks, now' \in Times, last' \in 0..now', parentLost' \in BOOLEAN,
             \A v \in Events : Fine(mail'[v])
      PROVE  Bounded'
  BY <1>a DEF Bounded, Unsent
<1>b. ASSUME UNCHANGED <<kind, now, last, parentLost>>, NEW v \in Events, Fine(mail'[v]),
             \A w \in Events \ {v} : mail'[w] = mail[w]
      PROVE  Bounded'
  <2>1. \A w \in Events : Fine(mail'[w]) BY <1>0, <1>b
  <2> QED BY <1>0, <1>a, <1>b, <2>1
<1>c. ASSUME UNCHANGED <<kind, last, mail>>, now' \in Times, now' >= now, parentLost' \in BOOLEAN
      PROVE  Bounded'
  <2>1. last' \in 0..now' BY <1>0, <1>c DEF Times
  <2> QED BY <1>0, <1>a, <1>c, <2>1
<1>1. CASE Tick
  <2>1. now' = now + 1 /\ now' \in Times BY <1>0, <1>1 DEF Tick, Times
  <2> QED BY <1>0, <1>1, <1>c, <2>1 DEF Tick, Times, stateVars
<1>2. CASE ReportLost \/ ParentChanges \/ Publish \/ Crash \/ UNCHANGED hVars
  <2>1. parentLost' \in BOOLEAN
    BY <1>0, <1>2 DEF ReportLost, ParentChanges, Publish, Crash, hVars
  <2>2. UNCHANGED <<kind, now, last, mail>>
    BY <1>2 DEF ReportLost, ParentChanges, Publish, Crash, hVars, stateVars
  <2>3. now' >= now BY <1>0, <2>2 DEF Times
  <2> QED BY <1>0, <1>c, <2>1, <2>2, <2>3
<1>3. ASSUME NEW s \in Statuses, NEW skew \in 0..FutureSkew, Probe(s, skew) PROVE Bounded'
  BY <1>0, <1>3, <1>c DEF Probe, stateVars, Times
<1>4. ASSUME NEW enabled \in Notifications, Collect(enabled) PROVE Bounded'
  <2>1. \A v \in Events : Fine(mail'[v])
    BY <1>4, MailboxBounded, HealthAssumption DEF Collect
  <2>2. UNCHANGED <<kind, now, parentLost>> /\ last' = now
    BY <1>4 DEF Collect
  <2>3. last' \in 0..now' BY <1>0, <2>2 DEF Times
  <2> QED BY <1>0, <1>a, <2>1, <2>2, <2>3
<1>5. ASSUME NEW v \in Events, MailAttempt(v) PROVE Bounded'
  <2>1. /\ mail'[v].attempts = mail[v].attempts + 1 /\ mail'[v].status = "ATTEMPTED"
        /\ \A w \in Events \ {v} : mail'[w] = mail[w]
    BY <1>5 DEF MailAttempt, Shapes, MailType
  <2>2. mail[v].attempts < MaxAttempts /\ mail[v].attempts \in 0..MaxAttempts
    BY <1>0, <1>5 DEF MailAttempt, IsDue
  <2>3. mail'[v].attempts \in 0..MaxAttempts
    BY <2>1, <2>2 DEF MaxAttempts
  <2>4. Fine(mail'[v])
    BY <2>1, <2>3 DEF Unsent
  <2> QED BY <1>5, <1>b, <2>1, <2>4 DEF MailAttempt
<1>6. ASSUME NEW v \in Events, MailSent(v) \/ MailUncertain(v) PROVE Bounded'
  <2>1. /\ mail'[v].attempts = mail[v].attempts /\ mail'[v].status \in {"SENT", "UNCERTAIN"}
        /\ \A w \in Events \ {v} : mail'[w] = mail[w]
    BY <1>6 DEF MailSent, MailUncertain, Shapes, MailType
  <2>2. Fine(mail'[v])
    BY <1>0, <2>1 DEF Unsent
  <2> QED BY <1>6, <1>b, <2>1, <2>2 DEF MailSent, MailUncertain
<1>7. ASSUME NEW v \in Events, MailRefused(v) PROVE Bounded'
  <2>1. /\ mail'[v].attempts = mail[v].attempts
        /\ mail'[v].status = IF mail[v].attempts >= MaxAttempts THEN "EXHAUSTED" ELSE "NOT_SENT"
        /\ \A w \in Events \ {v} : mail'[w] = mail[w]
    BY <1>7 DEF MailRefused, NotSent, Shapes, MailType
  <2>2. Fine(mail'[v])
    BY <1>0, <2>1 DEF Unsent, MaxAttempts
  <2> QED BY <1>7, <1>b, <2>1, <2>2 DEF MailRefused
<1> QED BY <1>1, <1>2, <1>3, <1>4, <1>5, <1>6, <1>7 DEF HNext, MailNext

LEMMA BoundedInit == HInit => Bounded
<1> SUFFICES ASSUME HInit PROVE Bounded
  OBVIOUS
<1>1. kind \in Tracks /\ now \in Times /\ last \in 0..now /\ parentLost \in BOOLEAN
  <2>1. 0 \in Times /\ 0 \in 0..0 BY HealthAssumption DEF Times
  <2> QED BY <2>1 DEF HInit
<1>2. ASSUME NEW v \in Events
      PROVE  mail[v].attempts \in 0..MaxAttempts /\ ~Unsent(mail[v])
  BY DEF HInit, NoDelivery, Unsent, MaxAttempts
<1> QED BY <1>1, <1>2 DEF Bounded

LEMMA BoundedHolds == HSpec => []Bounded
BY BoundedInit, BoundedNext, ShapesHold, PTL DEF HSpec

\* State.json stays well formed: the open incident is the newest number, a closed one
\* is not newer, and no mail is attempted more than MaxAttempts times, whatever is
\* refused, suppressed, superseded or killed.
THEOREM HealthTypes == HSpec => []HTypeOK
<1>1. Shapes /\ Delivered /\ Bounded => HTypeOK
  <2> SUFFICES ASSUME Shapes, Delivered, Bounded PROVE HTypeOK
    OBVIOUS
  <2>1. /\ kind \in Tracks /\ now \in Times /\ last \in Times /\ parentLost \in BOOLEAN
    BY HealthAssumption DEF Bounded, Times
  <2>2. report.status \in Statuses \cup {"MISSING", "INVALID"}
    BY DEF Shapes, ReportType
  <2>3. track.incident \in {0, track.sequence} /\ track.closed \in 0..track.sequence
    BY DEF Shapes, Delivered, Numbers, TrackType
  <2>4. \A v \in Events : /\ mail[v].status \in DeliveryStates
                          /\ mail[v].attempts \in 0..MaxAttempts
    BY DEF Shapes, Bounded, MailType
  <2>5. run.sending \subseteq Events /\ run.todo \subseteq Events
    BY DEF Shapes, RunType
  <2> QED BY <2>1, <2>2, <2>3, <2>4, <2>5 DEF HTypeOK
<1> QED BY <1>1, DeliveredInit, DeliveredNext, ShapesHold, BoundedHolds, PTL DEF HSpec

-----------------------------------------------------------------------------
(* A recovery is stable.                                                   *)

\* The evidence against the service is never newer than the last sample, nor than
\* the beginning of an open stable window.
WindowSinceBad ==
    /\ lastBad \in Int /\ track.sampleAt >= Never /\ lastBad <= track.sampleAt
    /\ track.healthySince # Never => lastBad <= track.healthySince

\* A report whose time stamp is already consumed speaks against no open window: the
\* last sample was of this report, or of a collection that found none and closed it.
WindowOfReport ==
    /\ report.at >= Never
    /\ report.status \in Statuses => report.at >= 0
    /\ kind = "observer" => track.sampleAt <= last
    /\ kind = "source" =>
         /\ track.sampleAt > report.at => track.healthySince = Never
         /\ (report.status \in Statuses \ {"HEALTHY"} /\ report.at <= track.sampleAt)
               => track.healthySince = Never

\* What observe() does to the window, and when it closes an incident.
LEMMA ObserveWindow ==
    ASSUME NEW t \in TrackType, NEW s \in Promised!SampleStatuses, NEW at \in Int,
           NEW count \in Int, NEW fresh \in Int, ~(t.sampleAt # Never /\ at <= t.sampleAt)
    PROVE  LET u == Observe(t, s, at, count, fresh)
           IN  /\ u.sampleAt = at
               /\ s # "HEALTHY" => u.healthySince = Never
               /\ u.healthySince \in {Never, at, t.healthySince}
               /\ (t.incident # 0 /\ u.incident = 0) =>
                     /\ s = "HEALTHY" /\ u.closedAt = at
                     /\ \/ at - at >= RecoverySeconds
                        \/ /\ t.healthySince # Never
                           /\ at - t.healthySince >= RecoverySeconds
<1> DEFINE b == [t EXCEPT !.sampleAt = at, !.latest = s]
           u == IF Interrupted(t, s, at, fresh) THEN Restarted(b) ELSE b
<1>1. b \in TrackType /\ b.sampleAt = at /\ b.incident = t.incident
      /\ b.healthySince = t.healthySince
  BY DEF TrackType
<1>2. u \in TrackType
  BY <1>1, RestartedKeeps
<1>3. /\ u.sampleAt = at /\ u.incident = t.incident
      /\ u.healthySince \in {Never, t.healthySince}
      /\ s \notin {"HEALTHY", "FAILED"} => u.healthySince = Never
  BY <1>1 DEF Restarted, Interrupted, TrackType
<1> HIDE DEF u
<1>4. CASE s = "FAILED"
  <2>1. Observe(t, s, at, count, fresh) = FailedSample(u, count)
    BY <1>4 DEF Observe, u
  <2> DEFINE f == FailedSample(u, count)
  <2>2. /\ f.sampleAt = u.sampleAt /\ f.healthySince = Never
        /\ f.incident = u.incident \/ f.incident = u.sequence + 1
    BY <1>2 DEF FailedSample, TrackType
  <2>3. u.sequence \in Nat BY <1>2 DEF TrackType
  <2> HIDE DEF f
  <2>4. f.incident = 0 => t.incident = 0
    BY <1>3, <2>2, <2>3
  <2> QED BY <1>3, <1>4, <2>1, <2>2, <2>4 DEF f
<1>5. CASE s = "HEALTHY"
  <2>1. Observe(t, s, at, count, fresh) = HealthySample(u, at)
    BY <1>5 DEF Observe, u
  <2> DEFINE h == HealthySample(u, at)
             since == IF u.healthySince = Never THEN at ELSE u.healthySince
  <2>2. /\ h.sampleAt = u.sampleAt
        /\ h.healthySince \in {Never, since, u.healthySince}
        /\ (u.incident # 0 /\ h.incident = 0) =>
              h.closedAt = at /\ at - since >= RecoverySeconds
    BY <1>2 DEF HealthySample, TrackType
  <2> HIDE DEF h
  <2> QED BY <1>3, <1>5, <2>1, <2>2 DEF h
<1>6. CASE s \notin {"FAILED", "HEALTHY"}
  <2>1. Observe(t, s, at, count, fresh) = u
    BY <1>6 DEF Observe, u
  <2> QED BY <1>3, <1>6, <2>1
<1> QED BY <1>4, <1>5, <1>6

LEMMA RestartedWindow ==
    ASSUME NEW t \in TrackType
    PROVE  /\ Restarted(t).sampleAt = t.sampleAt /\ Restarted(t).healthySince = Never
           /\ Restarted(t).incident = t.incident /\ Restarted(t).closedAt = t.closedAt
BY DEF Restarted, TrackType

\* What the evidence is when it is of the report, and when it is not.
LEMMA EvidenceCases ==
    ASSUME Shapes, Bounded, kind = "source"
    PROVE  \/ Status = report.status /\ SampleAt = report.at /\ report.status \in Statuses
           \/ Status = "OBSERVER_ERROR" /\ SampleAt = now
BY DEF Status, SampleAt, Evidence, Usable, Tracks

\* A collection keeps both, and closes an incident only at the end of its window.
LEMMA WindowCollect ==
    ASSUME Shapes, Bounded, WindowSinceBad, WindowOfReport, NEW enabled \in Notifications,
           Collect(enabled)
    PROVE  /\ WindowSinceBad' /\ WindowOfReport'
           /\ (track.incident # 0 /\ track'.incident = 0)
                 => track'.closedAt - lastBad >= RecoverySeconds
<1> DEFINE u == Collected
           bad == Status # "HEALTHY"
           consumed == track.sampleAt # Never /\ SampleAt <= track.sampleAt
<1>0. /\ track' = u /\ UNCHANGED <<kind, report, now>> /\ last' = now /\ last < now
      /\ lastBad' = IF bad THEN SampleAt ELSE lastBad
  BY DEF Collect
<1>1. /\ Status \in Promised!SampleStatuses /\ SampleAt \in Int /\ track \in TrackType
      /\ u \in TrackType /\ Observed \in TrackType
  BY EvidenceType, CollectedSteps, ObserveSteps, HealthAssumption DEF Shapes, Step, Observed
<1>2. /\ track.sampleAt \in Int /\ track.healthySince \in Int /\ report.at \in Int
      /\ now \in Int /\ last \in Int /\ 0 <= last /\ now >= 1 /\ RecoverySeconds \in Int
      /\ kind \in Tracks
  BY <1>0, <1>1, HealthAssumption DEF TrackType, Shapes, ReportType, Bounded, Times
<1>3. /\ lastBad \in Int /\ track.sampleAt >= Never /\ lastBad <= track.sampleAt
      /\ track.healthySince # Never => lastBad <= track.healthySince
  BY DEF WindowSinceBad
<1>4. SampleAt >= 0
  <2>1. CASE kind = "source"
    BY <2>1, <1>2, EvidenceCases DEF WindowOfReport
  <2>2. CASE kind = "observer"
    BY <2>2, <1>2 DEF SampleAt
  <2> QED BY <1>2, <2>1, <2>2 DEF Tracks
<1>5. consumed => kind = "source"
  <2>1. CASE kind = "observer"
    <3>1. SampleAt = now /\ track.sampleAt <= last
      BY <2>1 DEF SampleAt, WindowOfReport
    <3> QED BY <1>0, <1>2, <3>1
  <2> QED BY <2>1, <1>2 DEF Tracks
<1>6. consumed => /\ u.sampleAt = track.sampleAt /\ u.incident = track.incident
                  /\ u.healthySince \in {Never, track.healthySince}
                  /\ Status = "OBSERVER_ERROR" => u.healthySince = Never
  <2> SUFFICES ASSUME consumed
               PROVE  /\ u.sampleAt = track.sampleAt /\ u.incident = track.incident
                      /\ u.healthySince \in {Never, track.healthySince}
                      /\ Status = "OBSERVER_ERROR" => u.healthySince = Never
    OBVIOUS
  <2>1. Observed = track
    BY DEF Observed, Observe
  <2> QED BY <1>1, <2>1, RestartedWindow DEF Collected
<1>7. ~consumed => /\ u.sampleAt = SampleAt
                   /\ bad => u.healthySince = Never
                   /\ u.healthySince \in {Never, SampleAt, track.healthySince}
                   /\ (track.incident # 0 /\ u.incident = 0) =>
                         /\ ~bad /\ u.closedAt = SampleAt
                         /\ \/ SampleAt - SampleAt >= RecoverySeconds
                            \/ /\ track.healthySince # Never
                               /\ SampleAt - track.healthySince >= RecoverySeconds
  <2> SUFFICES ASSUME ~consumed
               PROVE  /\ u.sampleAt = SampleAt
                      /\ bad => u.healthySince = Never
                      /\ u.healthySince \in {Never, SampleAt, track.healthySince}
                      /\ (track.incident # 0 /\ u.incident = 0) =>
                         /\ ~bad /\ u.closedAt = SampleAt
                         /\ \/ SampleAt - SampleAt >= RecoverySeconds
                            \/ /\ track.healthySince # Never
                               /\ SampleAt - track.healthySince >= RecoverySeconds
    OBVIOUS
  <2> DEFINE Good(o) == /\ o.sampleAt = SampleAt
                        /\ bad => o.healthySince = Never
                        /\ o.healthySince \in {Never, SampleAt, track.healthySince}
                        /\ (track.incident # 0 /\ o.incident = 0) =>
                           /\ ~bad /\ o.closedAt = SampleAt
                           /\ \/ SampleAt - SampleAt >= RecoverySeconds
                              \/ /\ track.healthySince # Never
                                 /\ SampleAt - track.healthySince >= RecoverySeconds
  <2>0. FailureCount \in Int /\ Freshness \in Int /\ ObserverFailures \in Int
        /\ ObserverFreshness \in Int
    BY HealthAssumption
  <2>1. ASSUME kind = "source" PROVE Good(Observed)
    <3>1. Observed = Observe(track, Status, SampleAt, FailureCount, Freshness)
      BY <2>1 DEF Observed
    <3> QED BY <1>1, <2>0, <3>1, ObserveWindow
  <2>2. ASSUME kind # "source" PROVE Good(Observed)
    <3>1. Observed = Observe(track, Status, SampleAt, ObserverFailures, ObserverFreshness)
      BY <2>2 DEF Observed
    <3> QED BY <1>1, <2>0, <3>1, ObserveWindow
  <2>3. Good(Observed)
    BY <2>1, <2>2
  <2>4. bad => Good(Restarted(Observed))
    BY <1>1, <2>3, RestartedWindow
  <2> HIDE DEF Good
  <2>5. Good(u)
    BY <2>3, <2>4 DEF Collected
  <2> QED BY <2>5 DEF Good
<1> HIDE DEF u
<1>8. bad => u.healthySince = Never
  <2> SUFFICES ASSUME bad, consumed PROVE u.healthySince = Never
    BY <1>7
  <2>1. CASE Status = "OBSERVER_ERROR"
    BY <2>1, <1>6
  <2>2. CASE Status # "OBSERVER_ERROR"
    <3>1. Status = report.status /\ SampleAt = report.at /\ report.status \in Statuses
      BY <1>5, <2>2, EvidenceCases
    <3>2. track.healthySince = Never
      BY <1>5, <3>1 DEF WindowOfReport
    <3> QED BY <1>6, <3>2
  <2> QED BY <2>1, <2>2
<1>9. /\ u.sampleAt \in Int /\ u.sampleAt >= SampleAt /\ u.sampleAt >= track.sampleAt
      /\ ~consumed => SampleAt > track.sampleAt
  BY <1>1, <1>2, <1>3, <1>4, <1>6, <1>7 DEF Never
<1>10. WindowSinceBad'
  <2>1. lastBad' \in Int /\ lastBad' <= u.sampleAt /\ u.sampleAt >= Never
    BY <1>0, <1>1, <1>2, <1>3, <1>9 DEF Never
  <2>2. u.healthySince # Never => lastBad' <= u.healthySince
    <3> SUFFICES ASSUME u.healthySince # Never PROVE lastBad' <= u.healthySince
      OBVIOUS
    <3>1. lastBad' = lastBad BY <1>0, <1>8
    <3>2. CASE u.healthySince = track.healthySince
      BY <1>3, <3>1, <3>2
    <3>3. CASE u.healthySince = SampleAt /\ ~consumed
      BY <1>1, <1>2, <1>3, <1>9, <3>1, <3>3
    <3> QED BY <1>6, <1>7, <3>2, <3>3
  <2> QED BY <1>0, <2>1, <2>2 DEF WindowSinceBad
<1>11. WindowOfReport'
  <2>1. kind = "observer" => u.sampleAt <= now
    BY <1>2, <1>5, <1>7 DEF SampleAt
  <2>2. kind = "source" /\ u.healthySince # Never => u.sampleAt <= report.at /\ Status = "HEALTHY"
    <3> SUFFICES ASSUME kind = "source", u.healthySince # Never
                 PROVE  u.sampleAt <= report.at /\ Status = "HEALTHY"
      OBVIOUS
    <3>1. Status = "HEALTHY" BY <1>8
    <3>2. Status = report.status /\ SampleAt = report.at
      BY <3>1, EvidenceCases
    <3>3. CASE consumed
      <4>1. track.healthySince # Never /\ u.sampleAt = track.sampleAt BY <1>6, <3>3
      <4>2. ~(track.sampleAt > report.at) BY <4>1 DEF WindowOfReport
      <4> QED BY <1>2, <3>1, <4>1, <4>2
    <3>4. CASE ~consumed
      BY <1>2, <1>7, <3>1, <3>2, <3>4
    <3> QED BY <3>3, <3>4
  <2>3. kind = "source" /\ u.healthySince # Never => report.status = "HEALTHY"
    BY <2>2, EvidenceCases
  <2>4. kind = "source" => (u.sampleAt > report.at => u.healthySince = Never)
    BY <1>2, <1>9, <2>2
  <2> QED BY <1>0, <2>1, <2>3, <2>4 DEF WindowOfReport
<1>12. ASSUME track.incident # 0, u.incident = 0
       PROVE  u.closedAt - lastBad >= RecoverySeconds
  <2>1. ~consumed BY <1>6, <1>12
  <2>2. /\ u.closedAt = SampleAt
        /\ \/ SampleAt - SampleAt >= RecoverySeconds
           \/ track.healthySince # Never /\ SampleAt - track.healthySince >= RecoverySeconds
    BY <1>7, <1>12, <2>1
  <2>3. SampleAt > lastBad
    BY <1>1, <1>2, <1>3, <1>9, <2>1
  <2> QED BY <1>1, <1>2, <1>3, <2>2, <2>3
<1> QED BY <1>0, <1>10, <1>11, <1>12

LEMMA WindowNext ==
    Shapes /\ Bounded /\ WindowSinceBad /\ WindowOfReport /\ [HNext]_hVars
      => /\ WindowSinceBad' /\ WindowOfReport'
         /\ (track.incident # 0 /\ track'.incident = 0)
               => track'.closedAt - lastBad >= RecoverySeconds
<1> SUFFICES ASSUME Shapes, Bounded, WindowSinceBad, WindowOfReport, [HNext]_hVars
             PROVE  /\ WindowSinceBad' /\ WindowOfReport'
                    /\ (track.incident # 0 /\ track'.incident = 0)
                          => track'.closedAt - lastBad >= RecoverySeconds
  OBVIOUS
<1>0. ASSUME UNCHANGED <<track, lastBad, kind, report, last>>
      PROVE  WindowSinceBad' /\ WindowOfReport' /\ UNCHANGED track
  BY <1>0 DEF WindowSinceBad, WindowOfReport
<1>1. CASE Tick \/ ParentChanges \/ Publish \/ Crash \/ UNCHANGED hVars
  BY <1>0, <1>1 DEF Tick, ParentChanges, Publish, Crash, hVars, stateVars
<1>2. CASE MailNext
  BY <1>0, <1>2 DEF MailNext, MailAttempt, MailSent, MailRefused, MailUncertain
<1>3. CASE ReportLost
  <2>1. /\ UNCHANGED <<track, lastBad, kind, last>> /\ report'.at = report.at
        /\ report'.status \in {"MISSING", "INVALID"}
    BY <1>3 DEF ReportLost, stateVars, Shapes, ReportType
  <2>2. {"MISSING", "INVALID"} \cap Statuses = {}
    BY HealthAssumption
  <2>3. WindowSinceBad' /\ WindowOfReport'
    BY <2>1, <2>2 DEF WindowSinceBad, WindowOfReport
  <2> QED BY <2>1, <2>3
<1>4. ASSUME NEW s \in Statuses, NEW skew \in 0..FutureSkew, Probe(s, skew)
      PROVE  WindowSinceBad' /\ WindowOfReport' /\ UNCHANGED track
  <2>1. /\ UNCHANGED <<track, lastBad, kind, last>> /\ report'.at = now + skew
        /\ report'.at > report.at
    BY <1>4 DEF Probe, stateVars
  <2>2. /\ report.at \in Int /\ now \in Nat /\ skew \in Nat /\ track.sampleAt \in Int
    BY HealthAssumption DEF Shapes, Bounded, Times, ReportType, TrackType
  <2>3. report'.at \in Int /\ report'.at >= 0 BY <2>1, <2>2
  <2>4. ASSUME kind = "source", track.sampleAt >= report'.at PROVE track.healthySince = Never
    <3>1. track.sampleAt > report.at BY <2>1, <2>2, <2>3, <2>4
    <3> QED BY <2>4, <3>1 DEF WindowOfReport
  <2>5. WindowSinceBad' BY <2>1 DEF WindowSinceBad
  <2>6. WindowOfReport'
    BY <2>1, <2>2, <2>3, <2>4 DEF WindowOfReport, Never
  <2> QED BY <2>1, <2>5, <2>6
<1>5. ASSUME NEW enabled \in Notifications, Collect(enabled)
      PROVE  /\ WindowSinceBad' /\ WindowOfReport'
             /\ (track.incident # 0 /\ track'.incident = 0)
                  => track'.closedAt - lastBad >= RecoverySeconds
  BY <1>5, WindowCollect
<1> QED BY <1>1, <1>2, <1>3, <1>4, <1>5 DEF HNext

\* An incident closes only RecoverySeconds after the last evidence against the
\* service, evidence whose time stamp had been consumed before included.
THEOREM RecoveriesAreStable == HSpec => RecoveryIsStable
<1> DEFINE Stable == (track.incident # 0 /\ track'.incident = 0)
                        => track'.closedAt - lastBad >= RecoverySeconds
<1>1. HInit => WindowSinceBad /\ WindowOfReport
  <2> SUFFICES ASSUME HInit PROVE WindowSinceBad /\ WindowOfReport
    OBVIOUS
  <2>1. /\ track.sampleAt = Never /\ track.healthySince = Never /\ lastBad = Never /\ last = 0
        /\ report.at = Never /\ report.status = "MISSING" /\ "MISSING" \notin Statuses
    BY HealthAssumption DEF HInit, EmptyTrack, NoReport
  <2> QED BY <2>1 DEF WindowSinceBad, WindowOfReport, Never
<1>2. Shapes /\ Bounded /\ WindowSinceBad /\ WindowOfReport /\ [HNext]_hVars
        => WindowSinceBad' /\ WindowOfReport' /\ [Stable]_hVars
  BY WindowNext
<1> QED BY <1>1, <1>2, ShapesHold, BoundedHolds, PTL DEF HSpec, RecoveryIsStable

=============================================================================
