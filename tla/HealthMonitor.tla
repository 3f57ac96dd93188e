---------------------------- MODULE HealthMonitor ----------------------------
(***************************************************************************)
(* One incident track of the service health monitor                        *)
(* (service-health-monitor.py over lib/llm_health.py): the probe's report  *)
(* file, the collector that turns reports into incidents, and the mails    *)
(* about them.                                                             *)
(*                                                                         *)
(* The collector folds the report of a source into two tracks, "source"    *)
(* (what the report says) and "observer" (whether there is a usable report *)
(* at all).  They share the evidence and nothing else, so the model        *)
(* follows one of them, either.  A run holds an exclusive lock: it updates *)
(* the track, saves state.json, sends the mails that are due, each saved   *)
(* as ATTEMPTED before and with its outcome after SMTP, and replaces       *)
(* summary.json last.  It may be killed between any two of these steps.    *)
(***************************************************************************)
EXTENDS Integers, FiniteSets

CONSTANTS
    MaxTime,            \* bound on the clock
    Statuses,           \* what a probe may report
    FailureCount,       \* failure_count of the source; the observer's is ObserverFailures
    Freshness,          \* freshness_seconds of the source
    ObserverFailures,   \* 3 in collect()
    ObserverFreshness,  \* 180 in collect()
    RecoverySamples,    \* 2 in observe()
    RecoverySeconds,    \* 3600 in observe()
    FutureSkew,         \* the 30 seconds a report may be ahead
    RetryFirst, RetryNext, \* 60 and 300 in deliver()
    Notifications       \* values notifications_enabled may take from run to run

MaxAttempts == 3

ASSUME HealthAssumption ==
    /\ MaxTime \in Nat /\ Freshness \in Nat /\ ObserverFreshness \in Nat
    /\ FailureCount \in Nat \ {0} /\ ObserverFailures \in Nat \ {0}
    /\ RecoverySamples \in Nat \ {0} /\ RecoverySeconds \in Nat /\ FutureSkew \in Nat
    /\ RetryFirst \in Nat /\ RetryNext \in Nat
    /\ Notifications \subseteq BOOLEAN
    /\ Statuses \subseteq {"HEALTHY", "FAILED", "LOADING", "OBSERVER_ERROR"}

Times == 0..MaxTime
Tracks == {"source", "observer"}
Events == {"FAILED", "RECOVERED"}
Never == -1

VARIABLES
    kind,       \* the track that is followed, "source" or "observer"
    now,        \* the hosts' clock
    report,     \* the probe's report file
    parentLost, \* the source's observer_parent is OBSERVER_ERROR
    last,       \* state.json: last_collection
    track,      \* state.json: the incident track
    mail,       \* state.json: its deliveries, per event
    summary,    \* summary.json
    run,        \* the collector's process: what it still has to do
    accepted,   \* history: the mails the SMTP server took
    lastBad     \* history: time stamp of the last evidence that was not HEALTHY

stateVars == <<last, track, mail>>
hVars == <<kind, now, report, parentLost, stateVars, summary, run, accepted, lastBad>>

NoReport == [status |-> "MISSING", at |-> Never]
NoSummary == [observedAt |-> Never, incident |-> 0]
NoRun == [active |-> FALSE, todo |-> {}, sending |-> {}]

EmptyTrack == [sampleAt |-> Never, latest |-> "NONE", failures |-> 0,
               healthySince |-> Never, healthySamples |-> 0,
               incident |-> 0, sequence |-> 0,
               closed |-> 0, closedAt |-> Never]

NoDelivery == [status |-> "NONE", incident |-> 0, attempts |-> 0, retryAfter |-> 0]

HInit ==
    /\ now = 0 /\ report = NoReport /\ parentLost = FALSE
    /\ kind \in Tracks /\ last = 0 /\ track = EmptyTrack
    /\ mail = [v \in Events |-> NoDelivery]
    /\ summary = NoSummary /\ run = NoRun
    /\ accepted = {} /\ lastBad = Never

-----------------------------------------------------------------------------
(* The surroundings: time, the probe and its parent.                       *)

\* A run reads its clock and every report once, in Collect, and the parent's evidence
\* with them.  What the surroundings do before the run has ended no step of it can
\* see, so it is put after the run.
Quiet == ~run.active

Tick ==
    /\ Quiet /\ now < MaxTime
    /\ now' = now + 1
    /\ UNCHANGED <<kind, report, parentLost, stateVars, summary, run, accepted, lastBad>>

\* A probe replaces its report; its host's clock may be ahead.
Probe(s, skew) ==
    /\ Quiet /\ now + skew > report.at
    /\ report' = [status |-> s, at |-> now + skew]
    /\ UNCHANGED <<kind, now, parentLost, stateVars, summary, run, accepted, lastBad>>

\* The report is gone or no longer valid; the parent's evidence comes or goes.
ReportLost ==
    /\ Quiet /\ report.status \in Statuses
    /\ \E s \in {"MISSING", "INVALID"} : report' = [report EXCEPT !.status = s]
    /\ UNCHANGED <<kind, now, parentLost, stateVars, summary, run, accepted, lastBad>>

ParentChanges ==
    /\ Quiet /\ kind = "observer"   \* the source track does not look at it
    /\ parentLost' = ~parentLost
    /\ UNCHANGED <<kind, now, report, stateVars, summary, run, accepted, lastBad>>

-----------------------------------------------------------------------------
(* observe() of llm_health.py, as a function of a track and a sample.      *)

\* Streaks and stable windows end with a gap or with evidence of neither kind.
Interrupted(t, status, at, freshness) ==
    \/ t.sampleAt # Never /\ at - t.sampleAt > freshness
    \/ status \notin {"HEALTHY", "FAILED"}

Restarted(t) == [t EXCEPT !.failures = 0, !.healthySince = Never, !.healthySamples = 0]

\* Mutant: a failure that lasts opens a new incident over the open one.
FailedSampleReopens(t, failureCount) ==
    LET u == [t EXCEPT !.healthySince = Never, !.healthySamples = 0, !.failures = @ + 1]
    IN  IF u.failures >= failureCount
          THEN [u EXCEPT !.sequence = @ + 1, !.incident = u.sequence + 1]
          ELSE u

FailedSample(t, failureCount) ==
    LET u == [t EXCEPT !.healthySince = Never, !.healthySamples = 0, !.failures = @ + 1]
    IN  IF u.incident = 0 /\ u.failures >= failureCount
          THEN [u EXCEPT !.sequence = @ + 1, !.incident = u.sequence + 1]
          ELSE u

HealthySample(t, at) ==
    LET u == [t EXCEPT !.failures = 0]
        since == IF u.healthySince = Never THEN at ELSE u.healthySince
        w == [u EXCEPT !.healthySince = since, !.healthySamples = @ + 1]
    IN  CASE u.incident = 0 -> u
          [] u.incident # 0 /\ w.healthySamples >= RecoverySamples
                            /\ at - since >= RecoverySeconds ->
               [w EXCEPT !.closed = u.incident, !.incident = 0, !.closedAt = at,
                         !.healthySince = Never]
          [] OTHER -> w

\* Only a sample newer than the last one counts.
Observe(t, status, at, failureCount, freshness) ==
    IF t.sampleAt # Never /\ at <= t.sampleAt THEN t
    ELSE LET s == [t EXCEPT !.sampleAt = at, !.latest = status]
             u == IF Interrupted(t, status, at, freshness) THEN Restarted(s) ELSE s
         IN  CASE status = "FAILED" -> FailedSample(u, failureCount)
               [] status = "HEALTHY" -> HealthySample(u, at)
               [] OTHER -> u

\* The event observe() returns.
EventOf(before, after) ==
    CASE before.incident = 0 /\ after.incident # 0 -> "FAILED"
      [] before.incident # 0 /\ after.incident = 0 -> "RECOVERED"
      [] OTHER -> "UNCHANGED"

-----------------------------------------------------------------------------
(* collect(): the evidence, the tracks, and the mails it makes due.        *)

\* sampled(): an unreadable, future or stale report is unknown evidence, stamped now.
Usable == /\ report.status \in Statuses
          /\ report.at <= now + FutureSkew /\ now - report.at <= Freshness

Evidence == IF Usable THEN report ELSE [status |-> "OBSERVER_ERROR", at |-> now]

\* A missing or stale report is put down to the parent while the parent is lost.
Suppressed ==
    /\ parentLost
    /\ \/ report.status = "MISSING"
       \/ report.status \in Statuses /\ now - report.at > Freshness

ObserverStatus == CASE Suppressed -> "OBSERVER_ERROR"
                    [] ~Suppressed /\ Evidence.status = "OBSERVER_ERROR" -> "FAILED"
                    [] OTHER -> "HEALTHY"

\* The status, time stamp and limits observe() is given for the track.
Status == IF kind = "source" THEN Evidence.status ELSE ObserverStatus
SampleAt == IF kind = "source" THEN Evidence.at ELSE now

Observed ==
    IF kind = "source" THEN Observe(track, Status, SampleAt, FailureCount, Freshness)
                       ELSE Observe(track, Status, SampleAt, ObserverFailures, ObserverFreshness)

\* Mutant: unknown evidence with a time stamp already seen leaves the window open.
CollectedUninterrupted == Observed

\* Unknown evidence interrupts the stable window even when its time stamp was seen.
Collected == IF Status = "OBSERVER_ERROR" THEN Restarted(Observed) ELSE Observed

Unsent(d) == d.status \in {"NEW", "NOT_SENT"}
Supersede(d) == IF Unsent(d) THEN [d EXCEPT !.status = "SUPERSEDED"] ELSE d
Reserved(incident) == [status |-> "NEW", incident |-> incident, attempts |-> 0, retryAfter |-> 0]

\* Mutant: renewed trouble does not withdraw a recovery mail that is still due.
WithdrawnNothing(event) ==
    [v \in Events |-> IF v = "FAILED" /\ event = "RECOVERED" THEN Supersede(mail[v]) ELSE mail[v]]

\* Renewed trouble withdraws a recovery mail, a recovery the failure mail.
Withdrawn(event) ==
    [v \in Events |->
        IF \/ v = "RECOVERED" /\ Status # "HEALTHY"
           \/ v = "FAILED" /\ event = "RECOVERED"
          THEN Supersede(mail[v]) ELSE mail[v]]

\* A transition reserves its mail; so does an incident that has none yet.
Due(t, event, d) ==
    IF kind = "observer" /\ Suppressed THEN d
    ELSE IF event = "RECOVERED" THEN [d EXCEPT !["RECOVERED"] = Reserved(t.closed)]
    ELSE IF t.incident # 0 /\ d["FAILED"].incident # t.incident
           THEN [d EXCEPT !["FAILED"] = Reserved(t.incident)]
    ELSE d

Mailbox(enabled) ==
    LET event == EventOf(track, Collected)
        d == Withdrawn(event)
    IN  IF enabled THEN Due(Collected, event, d) ELSE d

\* A run whose clock is behind last_collection ends without a change.  The code
\* lets a run through whose clock shows last_collection itself; two runs under the
\* lock do not read the same time.time(), so one collection per tick is enough.
Collect(enabled) ==
    /\ ~run.active /\ last < now
    /\ last' = now
    /\ track' = Collected
    /\ mail' = Mailbox(enabled)
    /\ run' = [active |-> TRUE, sending |-> {},
               todo |-> IF enabled /\ (kind = "source" \/ ~Suppressed) THEN Events ELSE {}]
    /\ lastBad' = IF Status = "HEALTHY" THEN lastBad ELSE SampleAt
    /\ UNCHANGED <<kind, now, report, parentLost, summary, accepted>>

-----------------------------------------------------------------------------
(* deliver(): one mail at a time, before summary.json is replaced.         *)

IsDue(d) == Unsent(d) /\ d.retryAfter <= last

\* The attempt is saved before SMTP is spoken.
MailAttempt(v) ==
    /\ run.active /\ run.sending = {} /\ v \in run.todo
    /\ IsDue(mail[v])
    /\ mail' = [mail EXCEPT ![v].attempts = @ + 1, ![v].status = "ATTEMPTED"]
    /\ run' = [run EXCEPT !.todo = @ \ {v}, !.sending = {v}]
    /\ UNCHANGED <<kind, now, report, parentLost, last, track, summary, accepted, lastBad>>

\* Mutant: a refusal is tried again without limit.
NotSentEndless(d) ==
    [d EXCEPT !.status = "NOT_SENT",
              !.retryAfter = last + IF d.attempts = 1 THEN RetryFirst ELSE RetryNext]

NotSent(d) ==
    [d EXCEPT !.status = IF d.attempts >= MaxAttempts THEN "EXHAUSTED" ELSE "NOT_SENT",
              !.retryAfter = last + IF d.attempts = 1 THEN RetryFirst ELSE RetryNext]

\* The mails accepted so far for an incident are numbered.
Accepted(v) ==
    LET copies == {a \in accepted : a.event = v /\ a.incident = mail[v].incident}
    IN  accepted \cup {[event |-> v, incident |-> mail[v].incident,
                       copy |-> Cardinality(copies) + 1]}

\* The server takes the message and says so; refuses it; or nobody knows.
MailSent(v) ==
    /\ v \in run.sending
    /\ accepted' = Accepted(v)
    /\ mail' = [mail EXCEPT ![v].status = "SENT"]
    /\ run' = [run EXCEPT !.sending = {}]
    /\ UNCHANGED <<kind, now, report, parentLost, last, track, summary, lastBad>>

MailRefused(v) ==
    /\ v \in run.sending
    /\ mail' = [mail EXCEPT ![v] = NotSent(@)]
    /\ run' = [run EXCEPT !.sending = {}]
    /\ UNCHANGED <<kind, now, report, parentLost, last, track, summary, accepted, lastBad>>

\* Mutant: an unknown outcome is tried again.
MailUncertainRetried(v) ==
    /\ v \in run.sending
    /\ accepted' \in {accepted, Accepted(v)}
    /\ mail' = [mail EXCEPT ![v] = NotSent(@)]
    /\ run' = [run EXCEPT !.sending = {}]
    /\ UNCHANGED <<kind, now, report, parentLost, last, track, summary, lastBad>>

MailUncertain(v) ==
    /\ v \in run.sending
    /\ accepted' \in {accepted, Accepted(v)}
    /\ mail' = [mail EXCEPT ![v].status = "UNCERTAIN"]
    /\ run' = [run EXCEPT !.sending = {}]
    /\ UNCHANGED <<kind, now, report, parentLost, last, track, summary, lastBad>>

\* summary.json is replaced when no mail is left to send.
Publish ==
    /\ run.active /\ run.sending = {}
    /\ \A v \in run.todo : ~IsDue(mail[v])
    /\ summary' = [observedAt |-> last, incident |-> track.incident] /\ run' = NoRun
    /\ UNCHANGED <<kind, now, report, parentLost, stateVars, accepted, lastBad>>

\* A kill, or an error of the mail set-up: a message under way may be accepted.
Crash ==
    /\ run.active
    /\ accepted' \in {accepted} \cup {Accepted(v) : v \in run.sending}
    /\ run' = NoRun
    /\ UNCHANGED <<kind, now, report, parentLost, stateVars, summary, lastBad>>

-----------------------------------------------------------------------------
MailNext == \E v \in Events : MailAttempt(v) \/ MailSent(v) \/ MailRefused(v) \/ MailUncertain(v)

HNext ==
    \/ Tick \/ ReportLost \/ ParentChanges
    \/ \E s \in Statuses, skew \in 0..FutureSkew : Probe(s, skew)
    \/ \E enabled \in Notifications : Collect(enabled)
    \/ MailNext \/ Publish \/ Crash

HSpec == HInit /\ [][HNext]_hVars

\* What readers of state.json see of the track.
Seen(t) == [sequence |-> t.sequence, incident |-> t.incident, closed |-> t.closed,
            latest |-> t.latest]

Promised == INSTANCE IncidentTrack WITH incidents <- Seen(track)

-----------------------------------------------------------------------------
DeliveryStates == {"NONE", "NEW", "ATTEMPTED", "SENT", "NOT_SENT", "EXHAUSTED", "UNCERTAIN",
                   "SUPERSEDED"}

\* Types; an incident number is the track's latest and a closed one is older or
\* equal, and no mail is attempted more than MaxAttempts times.
HTypeOK ==
    /\ kind \in Tracks /\ now \in Times /\ last \in Times /\ parentLost \in BOOLEAN
    /\ report.status \in Statuses \cup {"MISSING", "INVALID"}
    /\ track.incident \in {0, track.sequence} /\ track.closed \in 0..track.sequence
    /\ \A v \in Events : mail[v].status \in DeliveryStates /\ mail[v].attempts \in 0..MaxAttempts
    /\ run.sending \subseteq Events /\ run.todo \subseteq Events

\* A failure or a recovery is mailed at most once, whatever is refused, retried,
\* left uncertain or killed around SMTP.
OneMailPerEvent == \A a \in accepted : a.copy = 1

\* A mail that goes out is still true: a failure mail names the incident that is
\* open, a recovery mail the one closed last, with nothing open and the latest
\* sample healthy, however long it waited for a retry.
MailIsCurrent ==
    [][\A m \in accepted' \ accepted :
         IF m.event = "FAILED"
           THEN track.incident = m.incident
           ELSE track.incident = 0 /\ track.closed = m.incident /\ track.latest = "HEALTHY"]_hVars

\* "Stable recovery": an incident closes only RecoverySeconds after the last
\* evidence against it, evidence with an already consumed time stamp included.
RecoveryIsStable ==
    [][(track.incident # 0 /\ track'.incident = 0)
          => track'.closedAt - lastBad >= RecoverySeconds]_hVars

\* The readers' view of the track is one IncidentTrack allows: numbers without gaps,
\* one incident open at a time, opened by a failed sample and closed by a healthy
\* one, whatever is lost, late, killed or suppressed.
IncidentsAreNumbered == Promised!ISpec

=============================================================================
