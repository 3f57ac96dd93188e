---------------------------- MODULE DiscordAlerts ----------------------------
(***************************************************************************)
(* The Discord dispatcher (discord-ops-alerts.py) behind the health        *)
(* monitor.                                                                *)
(*                                                                         *)
(* A run reads its sources, then takes the dispatcher's lock, compares     *)
(* what it read with its cursors, appends messages to the outbox, saves    *)
(* state.json and sends up to MaxPerRun messages, each saved as ATTEMPTED  *)
(* before the request and with its outcome after it.  Runs may overlap up  *)
(* to the lock, so a run may act on files that an earlier holder has seen  *)
(* in a newer version; and a run may be killed between any two steps.      *)
(*                                                                         *)
(* A "service" key is a source and dimension fed from state.json and       *)
(* summary.json of the health monitor, which implements IncidentTrack; a   *)
(* "plain" key is one of the other source types.  Time is abstracted: what *)
(* waits for a retry may be due or not, what was read may be too old.      *)
(***************************************************************************)
EXTENDS Incidents, FiniteSets

CONSTANTS
    Workers,        \* runs that may overlap: the timer's and an operator's
    ServiceKeys,    \* <source>:condition or <source>:observer
    PlainKeys,      \* <source>:condition or <source>:freshness of the other types
    Statuses,       \* what the monitor may find
    MaxCollections, \* bound on the monitor's collections
    MaxSignals,     \* bound on the transitions of plain sources
    MaxEras,        \* bound on the losses of the monitor's state.json
    MaxPerRun,      \* 3 in dispatch()
    MaxAttempts,    \* MAX_ATTEMPTS
    MaxOutbox,      \* MAX_OUTBOX
    Kept,           \* the 100 confirmed deliveries run() keeps
    None

Keys == ServiceKeys \cup PlainKeys

ASSUME DiscordAssumption ==
    /\ ServiceKeys \cap PlainKeys = {} /\ IsFiniteSet(Keys)
    /\ Statuses \subseteq SampleStatuses /\ None \notin Workers
    /\ MaxPerRun \in Nat \ {0} /\ MaxAttempts \in Nat \ {0}
    /\ MaxOutbox \in Nat /\ Kept \in Nat
    /\ MaxCollections \in Nat /\ MaxSignals \in Nat /\ MaxEras \in Nat

VARIABLES
    track,      \* state.json of the monitor: the incidents of each service key
    era,        \* how often the monitor's state.json was lost: dates opened_at
    epoch,      \* the collections so far: last_collection
    files,      \* the monitor's files: "absent", "saved" (state.json only) or "whole"
    signal,     \* the condition of each plain source
    changes,    \* transitions of plain sources so far
    cursor,     \* state.json: observations
    outbox,     \* state.json: outbox
    limited,    \* state.json: webhook_retry_after is set
    lock,       \* holder of dispatcher.lock
    worker,     \* the runs
    requests    \* history: the requests Discord has, or may have, taken

sources == <<track, era, epoch, files, signal, changes>>
saved == <<cursor, outbox, limited>>
aVars == <<sources, saved, lock, worker, requests>>

NoReport == [status |-> "UNKNOWN", sequence |-> 0, incident |-> 0, closed |-> 0,
             era |-> 0, epoch |-> 0]
NoCursor == [NoReport EXCEPT !.status = "NONE"]
IdleWorker == [pc |-> "idle", seen |-> [k \in Keys |-> NoReport], eligible |-> {}, visited |-> {}]

AInit ==
    /\ track = [k \in ServiceKeys |-> NoIncidents] /\ era = 1 /\ epoch = 0 /\ files = "absent"
    /\ signal = [k \in PlainKeys |-> "NORMAL"] /\ changes = 0
    /\ cursor = [k \in Keys |-> [report |-> NoCursor, events |-> 0, alarm |-> 0, alarmEra |-> 0]]
    /\ outbox = {} /\ limited = FALSE /\ lock = None
    /\ worker = [w \in Workers |-> IdleWorker]
    /\ requests = {}

-----------------------------------------------------------------------------
(* The sources.                                                            *)

\* One run of the monitor saves state.json, and replaces summary.json later.
MonitorCollects ==
    /\ epoch < MaxCollections
    /\ \E u \in [ServiceKeys -> UNION {Successors(track[k]) : k \in ServiceKeys}] :
         /\ \A k \in ServiceKeys : u[k] \in Successors(track[k]) /\ u[k].latest \in Statuses
         /\ track' = u
    /\ epoch' = epoch + 1 /\ files' = "saved"
    /\ UNCHANGED <<era, signal, changes, saved, lock, worker, requests>>

MonitorPublishes ==
    /\ files = "saved" /\ files' = "whole"
    /\ UNCHANGED <<track, era, epoch, signal, changes, saved, lock, worker, requests>>

\* The monitor's state.json is lost: its numbers start again, at later times.
MonitorStateLost ==
    /\ era < MaxEras
    /\ files # "absent" /\ files' = "absent" /\ era' = era + 1
    /\ track' = [k \in ServiceKeys |-> NoIncidents]
    /\ UNCHANGED <<epoch, signal, changes, saved, lock, worker, requests>>

SignalChanges(k) ==
    /\ changes < MaxSignals /\ changes' = changes + 1
    /\ signal' = [signal EXCEPT ![k] = IF @ = "NORMAL" THEN "ALARM" ELSE "NORMAL"]
    /\ UNCHANGED <<track, era, epoch, files, saved, lock, worker, requests>>

-----------------------------------------------------------------------------
(* Reading: service_snapshot, collect_service_health, collect.             *)

\* An open incident is an alarm, none and a healthy sample normal; loading and
\* unknown evidence, or a failure that has not opened an incident, is neither.
Condition(t) ==
    CASE t.latest \in {"HEALTHY", "FAILED"} /\ t.incident # 0 -> "ALARM"
      [] t.latest = "HEALTHY" /\ t.incident = 0 -> "NORMAL"
      [] OTHER -> "UNKNOWN"

Report(k) == [status |-> Condition(track[k]), sequence |-> track[k].sequence,
              incident |-> track[k].incident, closed |-> track[k].closed,
              era |-> era, epoch |-> epoch]

\* The two files are unreadable, of different collections, or too old; a plain
\* source is unreadable or too old.  Else the report is what they say.
Read(w) ==
    /\ worker[w].pc = "idle"
    /\ \E usable \in SUBSET Keys :
         /\ usable \cap ServiceKeys = {} \/ files = "whole"
         /\ worker' = [worker EXCEPT ![w].pc = "read",
                ![w].seen = [k \in Keys |->
                    CASE k \in usable \cap ServiceKeys -> Report(k)
                      [] k \in usable \cap PlainKeys -> [NoReport EXCEPT !.status = signal[k]]
                      [] OTHER -> NoReport]]
    /\ UNCHANGED <<sources, saved, lock, requests>>

\* The lock is taken, the clock is behind last_run, a file is wrong, or the outbox
\* would be over its limit: the run ends before it saves anything.
Abandon(w) ==
    /\ worker[w].pc = "read"
    /\ worker' = [worker EXCEPT ![w] = IdleWorker]
    /\ UNCHANGED <<sources, saved, lock, requests>>

-----------------------------------------------------------------------------
(* enqueue_service_health() and enqueue().                                 *)

Opened(r) == IF r.sequence = 0 THEN 0 ELSE r.era
ClosedAt(r) == IF r.closed = 0 THEN 0 ELSE r.era

\* Mutant: a report of an older collection is compared by its numbers only.
RolledBackByNumber(old, r) ==
    /\ old.status # "NONE"
    /\ \/ r.sequence < old.sequence
       \/ r.sequence = old.sequence /\ Opened(r) # Opened(old)
       \/ r.closed = old.closed /\ ClosedAt(r) # ClosedAt(old)

\* Older than what the cursor has seen, or of another history of the monitor.
RolledBack(old, r) ==
    /\ old.status # "NONE"
    /\ \/ r.sequence < old.sequence \/ r.epoch < old.epoch
       \/ r.sequence = old.sequence /\ Opened(r) # Opened(old)
       \/ r.closed = old.closed /\ ClosedAt(r) # ClosedAt(old)

\* service_matches: the message is still what the report says.
Matches(i, r) ==
    \/ /\ i.event = "ALARM" /\ r.status = "ALARM"
       /\ i.incident = r.incident /\ i.era = Opened(r)
    \/ /\ i.event = "NORMAL" /\ r.status = "NORMAL" /\ r.incident = 0
       /\ i.incident = r.closed /\ i.era = ClosedAt(r)

\* The report has cursors and they are not behind the ones kept.
Current(k, r) == r.epoch # 0 /\ ~RolledBack(cursor[k].report, r)

\* A recovery that is no longer so, and an alarm whose incident is over.
Outdated(i, r) ==
    /\ i.delivery = "PENDING"
    /\ \/ i.event = "NORMAL" /\ ~Matches(i, r)
       \/ i.event = "ALARM" /\ i.incident <= r.closed /\ i.incident # r.incident

Superseded(items, seen) ==
    {IF i.key \in ServiceKeys /\ Current(i.key, seen[i.key]) /\ Outdated(i, seen[i.key])
       THEN [i EXCEPT !.delivery = "SUPERSEDED"] ELSE i : i \in items}

\* The cursor's record of the alarm that went out, while it is of an incident the
\* report still speaks of.
Receipt(k, r) == IF cursor[k].alarm \in {r.incident, r.closed} \ {0}
                   THEN [alarm |-> cursor[k].alarm, alarmEra |-> cursor[k].alarmEra]
                   ELSE [alarm |-> 0, alarmEra |-> 0]

\* The alarm of the incident that has closed went out, or may have.
AlarmWentOut(k, r, items) ==
    \/ Receipt(k, r) = [alarm |-> r.closed, alarmEra |-> Opened(r)] /\ r.closed # 0
    \/ \E i \in items : /\ i.key = k /\ i.event = "ALARM" /\ i.incident = r.closed
                        /\ i.delivery \in {"SENT", "UNCERTAIN", "ATTEMPTED"}

\* Mutant: a recovery is announced whether its alarm went out or not.
ServiceEventUnpaired(k, r, items) ==
    LET old == cursor[k].report
    IN  \/ r.status = "ALARM" /\ (old.status # "ALARM" \/ old.incident # r.incident)
        \/ r.status = "NORMAL" /\ old.status = "ALARM" /\ old.incident = r.closed

\* A new incident, or the end of the one the cursor holds.
ServiceEvent(k, r, items) ==
    LET old == cursor[k].report
    IN  \/ r.status = "ALARM" /\ (old.status # "ALARM" \/ old.incident # r.incident)
        \/ /\ r.status = "NORMAL" /\ old.status = "ALARM"
           /\ old.incident = r.closed /\ AlarmWentOut(k, r, items)

\* A plain source: any transition, except the first normal state.
PlainEvent(k, r) == /\ r.status # cursor[k].report.status
                    /\ ~(cursor[k].report.status = "NONE" /\ r.status = "NORMAL")

\* Whether the report moves the key's cursor.
Accepted(k, r) ==
    /\ r.status # "UNKNOWN"
    /\ IF k \in ServiceKeys THEN Current(k, r) ELSE r.status # cursor[k].report.status

Event(k, r, items) ==
    /\ Accepted(k, r)
    /\ IF k \in ServiceKeys THEN ServiceEvent(k, r, items) ELSE PlainEvent(k, r)

\* A plain cursor counts its transitions, a service cursor its messages.
Count(k, r, items) ==
    IF Event(k, r, items) \/ (k \in PlainKeys /\ Accepted(k, r)) THEN 1 ELSE 0

Moved(k, r, items) ==
    IF ~Accepted(k, r) THEN cursor[k]
    ELSE [report |-> r, events |-> cursor[k].events + Count(k, r, items),
          alarm |-> Receipt(k, r).alarm, alarmEra |-> Receipt(k, r).alarmEra]

Message(k, r) ==
    [key |-> k, number |-> cursor[k].events + 1, event |-> r.status,
     incident |-> IF r.status = "ALARM" THEN r.incident ELSE r.closed,
     era |-> IF k \in PlainKeys THEN 0 ELSE r.era,
     delivery |-> "PENDING", attempts |-> 0]

\* Mutant: an uncertain delivery counts as done.
ConfirmedLoosely == {i \in outbox : i.delivery \in {"SENT", "SUPERSEDED", "UNCERTAIN"}}

\* What run() keeps: everything unresolved, and a tail of what is confirmed.  Every run
\* puts the confirmed items after the unresolved ones, so the tail is the end of an
\* order that is neither that of the numbers nor that of the deliveries.
Confirmed == {i \in outbox : i.delivery \in {"SENT", "SUPERSEDED"}}
Tails == {tail \in SUBSET Confirmed :
            \/ tail = Confirmed /\ Cardinality(Confirmed) <= Kept
            \/ Cardinality(Confirmed) > Kept /\ Cardinality(tail) = Kept}

Id(i) == [key |-> i.key, number |-> i.number]

\* Mutant: a message of an earlier report is sent as well.
EligibleAlways(items, seen) == {Id(i) : i \in items}

\* What this run may send: a service message only while the report still bears it out.
Eligible(items, seen) ==
    {Id(i) : i \in {j \in items : \/ j.key \in PlainKeys
                                  \/ Accepted(j.key, seen[j.key]) /\ Matches(j, seen[j.key])}}

\* Mutant: the outbox may grow without limit.
RoomAlways(items) == TRUE

Room(items) == Cardinality(items) <= MaxOutbox

\* run() under the lock, up to the first save.
Begin(w) ==
    /\ worker[w].pc = "read" /\ lock = None
    /\ LET seen == worker[w].seen
       IN \E tail \in Tails :
            LET box == Superseded((outbox \ Confirmed) \cup tail, seen)
                due == {k \in Keys : Event(k, seen[k], box)}
                all == box \cup {Message(k, seen[k]) : k \in due}
            IN  /\ Room(all)
                /\ outbox' = all
                /\ cursor' = [k \in Keys |-> Moved(k, seen[k], box)]
                /\ worker' = [worker EXCEPT ![w].pc = "dispatch",
                                          ![w].eligible = Eligible(all, seen)]
    /\ lock' = w
    /\ UNCHANGED <<sources, limited, requests>>

-----------------------------------------------------------------------------
(* dispatch(): every change of an item is saved before the next step.      *)

InFlight == {i \in outbox : i.delivery = "ATTEMPTED"}
Resolved(i, delivery) == (outbox \ {i}) \cup {[i EXCEPT !.delivery = delivery]}

\* Mutant: the alarm that went out is not recorded with the cursor.
RememberNothing(i, delivery) == cursor

\* remember_service_delivery: the receipt outlives the item's place in the outbox.
Remember(i, delivery) ==
    IF /\ i.key \in ServiceKeys /\ i.event = "ALARM" /\ delivery \in {"SENT", "UNCERTAIN"}
       /\ cursor[i.key].report.incident = i.incident /\ Opened(cursor[i.key].report) = i.era
      THEN [cursor EXCEPT ![i.key].alarm = i.incident, ![i.key].alarmEra = i.era]
      ELSE cursor

\* An attempt that a killed run has left is never repeated.
MarkInterrupted(w, i) ==
    /\ worker[w].pc = "dispatch" /\ i \in InFlight
    /\ outbox' = Resolved(i, "UNCERTAIN") /\ cursor' = Remember(i, "UNCERTAIN")
    /\ UNCHANGED <<sources, limited, lock, worker, requests>>

\* Items are visited in the order they were appended; one that waits for its retry
\* is passed over.  The attempt is saved before the request.
Attempt(w, i) ==
    /\ worker[w].pc = "dispatch" /\ InFlight = {} /\ ~limited
    /\ i.delivery = "PENDING" /\ Id(i) \in worker[w].eligible
    /\ Cardinality(worker[w].visited) < MaxPerRun
    /\ \A v \in worker[w].visited : v.key = i.key => v.number < i.number
    /\ outbox' = (outbox \ {i}) \cup {[i EXCEPT !.delivery = "ATTEMPTED", !.attempts = @ + 1]}
    /\ worker' = [worker EXCEPT ![w].pc = "sending", ![w].visited = @ \cup {Id(i)}]
    /\ UNCHANGED <<sources, cursor, limited, lock, requests>>

\* The request of an item, counted among those of the same event.
Request(i, posted) ==
    LET q == [key |-> i.key, event |-> i.event, incident |-> i.incident, era |-> i.era,
              number |-> IF i.key \in PlainKeys THEN i.number ELSE 0]
        same == {r \in requests : r.of = q}
    IN  [of |-> q, posted |-> posted, copy |-> Cardinality(same) + 1]

\* A message id came back.
Sent(w, i) ==
    /\ worker[w].pc = "sending" /\ i \in InFlight
    /\ requests' = requests \cup {Request(i, TRUE)}
    /\ outbox' = Resolved(i, "SENT") /\ cursor' = Remember(i, "SENT")
    /\ worker' = [worker EXCEPT ![w].pc = "dispatch"]
    /\ UNCHANGED <<sources, limited, lock>>

\* No answer, a server error, or an answer without a message id.
Unclear(w, i) ==
    /\ worker[w].pc = "sending" /\ i \in InFlight
    /\ \E posted \in BOOLEAN : requests' = requests \cup {Request(i, posted)}
    /\ outbox' = Resolved(i, "UNCERTAIN") /\ cursor' = Remember(i, "UNCERTAIN")
    /\ worker' = [worker EXCEPT ![w].pc = "dispatch"]
    /\ UNCHANGED <<sources, limited, lock>>

\* 4xx: refused, to be tried again until the attempts are used up.
Refused(w, i) ==
    /\ worker[w].pc = "sending" /\ i \in InFlight
    /\ outbox' = Resolved(i, IF i.attempts < MaxAttempts THEN "PENDING" ELSE "FAILED")
    /\ worker' = [worker EXCEPT ![w].pc = "dispatch"]
    /\ UNCHANGED <<sources, cursor, limited, lock, requests>>

\* A redirect, or a rate limit without a usable delay.
Failed(w, i) ==
    /\ worker[w].pc = "sending" /\ i \in InFlight
    /\ outbox' = Resolved(i, "FAILED")
    /\ worker' = [worker EXCEPT ![w].pc = "dispatch"]
    /\ UNCHANGED <<sources, cursor, limited, lock, requests>>

\* 429: no attempt was made; the webhook as a whole has to wait, so the run ends.
RateLimited(w, i) ==
    /\ worker[w].pc = "sending" /\ i \in InFlight
    /\ outbox' = (outbox \ {i}) \cup {[i EXCEPT !.delivery = "PENDING", !.attempts = @ - 1]}
    /\ limited' = TRUE
    /\ worker' = [worker EXCEPT ![w] = IdleWorker] /\ lock' = None
    /\ UNCHANGED <<sources, cursor, requests>>

\* webhook_retry_after has passed when the next run looks.
LimitElapses ==
    /\ limited /\ lock = None /\ limited' = FALSE
    /\ UNCHANGED <<sources, cursor, outbox, lock, worker, requests>>

\* Nothing is left that this run may send now.
End(w) ==
    /\ worker[w].pc = "dispatch" /\ InFlight = {}
    /\ worker' = [worker EXCEPT ![w] = IdleWorker] /\ lock' = None
    /\ UNCHANGED <<sources, saved, requests>>

\* A kill, or a failure to save: a request under way may still be taken.
Crash(w) ==
    /\ worker[w].pc \in {"dispatch", "sending"}
    /\ IF worker[w].pc = "sending"
         THEN \E i \in InFlight, posted \in BOOLEAN : requests' = requests \cup {Request(i, posted)}
         ELSE requests' = requests
    /\ worker' = [worker EXCEPT ![w] = IdleWorker] /\ lock' = None
    /\ UNCHANGED <<sources, saved>>

-----------------------------------------------------------------------------
Answered(w, i) == Sent(w, i) \/ Unclear(w, i) \/ Refused(w, i) \/ Failed(w, i) \/ RateLimited(w, i)

ANext ==
    \/ MonitorCollects \/ MonitorPublishes \/ MonitorStateLost
    \/ \E k \in PlainKeys : SignalChanges(k)
    \/ \E w \in Workers : Read(w) \/ Abandon(w) \/ Begin(w) \/ End(w) \/ Crash(w)
    \/ \E w \in Workers, i \in outbox : MarkInterrupted(w, i) \/ Attempt(w, i) \/ Answered(w, i)
    \/ LimitElapses

ASpec == AInit /\ [][ANext]_aVars

-----------------------------------------------------------------------------
Deliveries == {"PENDING", "ATTEMPTED", "SENT", "UNCERTAIN", "FAILED", "SUPERSEDED"}

\* Types, with what validate_state() insists on when the next run loads state.json:
\* a bounded outbox and attempts within MaxAttempts.  A message that waits has an
\* attempt left, at most one is under way, and no two share a number.
ATypeOK ==
    /\ lock \in Workers \cup {None} /\ limited \in BOOLEAN
    /\ \A w \in Workers : worker[w].pc \in {"dispatch", "sending"} <=> lock = w
    /\ Cardinality(outbox) <= MaxOutbox /\ Cardinality(InFlight) <= 1
    /\ \A i \in outbox :
         /\ i.key \in Keys /\ i.delivery \in Deliveries /\ i.attempts \in 0..MaxAttempts
         /\ i.delivery = "PENDING" => i.attempts < MaxAttempts
         /\ i.number <= cursor[i.key].events
         /\ \A j \in outbox : Id(i) = Id(j) => i = j

\* "Polling gaps and restarts cannot repeat an incident": once a request for an
\* opening or a closing of an incident, or for a transition of a plain source, may
\* have been taken, no other is made for it.
OneMessagePerEvent == \A q \in requests : q.copy = 1

\* "Keep unresolved evidence": an uncertain or failed delivery stays on record as it
\* is, and a message that waits or is under way is never dropped, whatever run takes
\* the outbox over and however full it is.
EvidenceIsKept ==
    [][\A i \in outbox :
         /\ i.delivery \in {"UNCERTAIN", "FAILED"} => i \in outbox'
         /\ i.delivery \in {"PENDING", "ATTEMPTED"} => \E j \in outbox' : Id(j) = Id(i)]_aVars

\* A recovery is announced only of an incident whose alarm was, or may have been,
\* posted: an alarm that was refused or overtaken stays without a recovery.
RecoveryFollowsAlarm ==
    \A q \in requests : (q.of.key \in ServiceKeys /\ q.of.event = "NORMAL") =>
        \E a \in requests : a.of = [q.of EXCEPT !.event = "ALARM"]

\* A service message that goes out is what the run that sends it has itself read, and
\* what the newest report on record says, however long it waited for a retry.
MessageIsCurrent ==
    [][\A q \in requests' \ requests :
          q.of.key \in ServiceKeys => /\ Matches(q.of, worker[lock].seen[q.of.key])
                                      /\ Matches(q.of, cursor[q.of.key].report)]_aVars

\* When the cursor sees the incident closed whose alarm was posted, the recovery is
\* in the outbox, although the alarm itself may have left it.
RecoveryIsNotMissed ==
    [][\A k \in ServiceKeys :
         LET old == cursor[k].report
             new == cursor'[k].report
         IN  (/\ old.status = "ALARM" /\ new.status = "NORMAL" /\ new.closed = old.incident
              /\ \E q \in requests : /\ q.of.key = k /\ q.of.event = "ALARM" /\ q.posted
                                     /\ q.of.incident = old.incident /\ q.of.era = Opened(old))
             => \E i \in outbox' : /\ i.key = k /\ i.event = "NORMAL"
                                   /\ i.incident = new.closed]_aVars

=============================================================================
