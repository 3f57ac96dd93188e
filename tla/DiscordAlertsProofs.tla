------------------------- MODULE DiscordAlertsProofs -------------------------
(***************************************************************************)
(* The Discord dispatcher announces no event twice, no recovery without    *)
(* its alarm and nothing outdated, keeps its evidence and misses no        *)
(* recovery, for every number of overlapping runs, keys and retries, every *)
(* size of the outbox and every history of the monitor, kills included.    *)
(***************************************************************************)
EXTENDS DiscordAlerts, Integers, FiniteSetTheorems, TLAPS

-----------------------------------------------------------------------------
(* Types.                                                                  *)

Outcomes == {"ALARM", "NORMAL"}
TrackT == [sequence : Nat, incident : Nat, closed : Nat, latest : SampleStatuses \cup {"NONE"}]
ReportOf(S) == [status : S, sequence : Nat, incident : Nat, closed : Nat, era : Nat, epoch : Nat]
SeenT == ReportOf({"UNKNOWN"} \cup Outcomes)
HeldT == ReportOf({"NONE"} \cup Outcomes)
CursorT == [report : HeldT, events : Nat, alarm : Nat, alarmEra : Nat]
IdT == [key : Keys, number : Nat]
ItemT == [key : Keys, number : Nat, event : Outcomes, incident : Nat, era : Nat,
          delivery : Deliveries, attempts : Int]
WorkerT == [pc : {"idle", "read", "dispatch", "sending"}, seen : [Keys -> SeenT],
            eligible : SUBSET IdT, visited : SUBSET IdT]
OfT == [key : Keys, event : Outcomes, incident : Nat, era : Nat, number : Nat]

SourceTypes ==
    /\ track \in [ServiceKeys -> TrackT] /\ era \in Nat /\ epoch \in Nat
    /\ files \in {"absent", "saved", "whole"} /\ signal \in [PlainKeys -> Outcomes]

SavedTypes ==
    /\ cursor \in [Keys -> CursorT] /\ outbox \subseteq ItemT /\ limited \in BOOLEAN
    /\ lock \in Workers \cup {None} /\ worker \in [Workers -> WorkerT]
    /\ \A q \in requests : q.of \in OfT

-----------------------------------------------------------------------------
(* The lock and the outbox.                                                *)

Holding(w) == worker[w].pc \in {"dispatch", "sending"}
Sending == \E w \in Workers : worker[w].pc = "sending"

LockInv == \A w \in Workers : Holding(w) <=> lock = w

\* What is asked of one item.
ItemInv(i) ==
    /\ i.attempts \in 0..MaxAttempts
    /\ i.delivery = "PENDING" => i.attempts < MaxAttempts
    /\ i.delivery = "ATTEMPTED" => i.attempts > 0

\* A number is used once, and so is the event it stands for.
OutboxInv ==
    /\ IsFiniteSet(outbox) /\ Cardinality(outbox) <= MaxOutbox
    /\ \A i, j \in InFlight : i = j
    /\ \A i \in outbox : ItemInv(i) /\ i.number <= cursor[i.key].events
    /\ \A i, j \in outbox : Id(i) = Id(j) => i = j

-----------------------------------------------------------------------------
(* The reports: all of one history per era, and read in any order.         *)

\* The numbers of a track or a report: the open incident is the newest, and all
\* before it are closed.
Regular(t) == \/ t.incident = 0 /\ t.closed = t.sequence
              \/ t.incident # 0 /\ t.incident = t.sequence /\ t.closed + 1 = t.sequence

Upto(a, b) == a.sequence <= b.sequence /\ a.closed <= b.closed

\* The reports on a service key that some run, or the cursor, holds.
Known(k) == {cursor[k].report} \cup {worker[w].seen[k] : w \in Workers}

\* A report is of the present or of the past.
Past(k, a) ==
    IF a.epoch = 0 THEN a \in {NoReport, NoCursor}
    ELSE /\ Regular(a) /\ a.status # "NONE"
         /\ a.status = "ALARM" => a.incident # 0
         /\ a.status = "NORMAL" => a.incident = 0
         /\ a.era <= era /\ a.epoch <= epoch
         /\ (a.era < era /\ files # "absent") => a.epoch < epoch
         /\ a.era = era => /\ Upto(a, track[k])
                           /\ a.epoch = epoch => Upto(track[k], a)

\* Two reports are in the order of their eras and collections.
Ordered(a, b) ==
    (a.epoch # 0 /\ b.epoch # 0) =>
        /\ a.era < b.era => a.epoch < b.epoch
        /\ (a.era = b.era /\ a.epoch <= b.epoch) => Upto(a, b)

HistoryInv ==
    /\ files # "absent" => epoch # 0
    /\ \A k \in ServiceKeys :
         /\ Regular(track[k])
         /\ \A a \in Known(k) : Past(k, a)
         /\ \A a, b \in Known(k) : Ordered(a, b)

-----------------------------------------------------------------------------
(* The messages and the requests made for them.                            *)

\* The event a message is about, as Request() identifies it.
Of(i) == [key |-> i.key, event |-> i.event, incident |-> i.incident, era |-> i.era,
          number |-> IF i.key \in PlainKeys THEN i.number ELSE 0]

Held(k, a, e) == [key |-> k, event |-> "ALARM", incident |-> a, era |-> e, number |-> 0]
Requested(x) == \E q \in requests : q.of = x

\* Nothing is ahead of the cursor.
Behind(x) ==
    IF x.key \in PlainKeys THEN x.number <= cursor[x.key].events
    ELSE LET r == cursor[x.key].report
         IN  /\ x.incident # 0
             /\ x.event = "ALARM" => /\ x.incident <= r.sequence
                                     /\ x.incident = r.sequence => x.era = r.era
             /\ x.event = "NORMAL" => x.incident <= r.closed

BehindInv ==
    /\ \A i \in outbox : Behind(Of(i))
    /\ \A q \in requests : Behind(q.of)

\* The next request is the first of its event.
FirstInv ==
    /\ \A i, j \in outbox : Of(i) = Of(j) => i = j
    /\ \A q \in requests : q.copy = 1
    /\ \A i \in outbox : Requested(Of(i)) => /\ i.delivery # "PENDING"
                                             /\ i.delivery = "ATTEMPTED" => ~Sending

\* A recovery is in the outbox, and a receipt in the cursor, only after a request for
\* the alarm.
PairInv ==
    /\ \A i \in outbox :
         i.key \in ServiceKeys =>
            /\ i.event = "NORMAL" => Requested(Held(i.key, i.incident, i.era))
            /\ i.delivery \in {"SENT", "UNCERTAIN"} => Requested(Of(i))
            /\ (i.delivery = "ATTEMPTED" /\ ~Sending) => Requested(Of(i))
    /\ \A k \in ServiceKeys :
         cursor[k].alarm # 0 => Requested(Held(k, cursor[k].alarm, cursor[k].alarmEra))
    /\ RecoveryFollowsAlarm

\* What the holder of the lock may send is what it has read and the cursor says.
SendInv ==
    \A w \in Workers : lock = w =>
        /\ \A i \in outbox :
             (i.key \in ServiceKeys /\ Id(i) \in worker[w].eligible) =>
                /\ Matches(i, worker[w].seen[i.key])
                /\ cursor[i.key].report = worker[w].seen[i.key]
        /\ worker[w].pc = "sending" => \A i \in InFlight : Id(i) \in worker[w].eligible

\* The cursor, or an unresolved item, remembers the alarm requested for the incident
\* the cursor holds open.
MissInv ==
    \A q \in requests :
        LET c == cursor[q.of.key]
        IN  (/\ q.of.key \in ServiceKeys /\ q.of.event = "ALARM" /\ c.report.status = "ALARM"
             /\ q.of.incident = c.report.incident /\ q.of.era = Opened(c.report))
            => \/ c.alarm = q.of.incident /\ c.alarmEra = q.of.era
               \/ \E i \in outbox : Of(i) = q.of /\ i.delivery \in {"UNCERTAIN", "ATTEMPTED"}

-----------------------------------------------------------------------------
(* Types are kept.                                                         *)

LEMMA RecordTypes ==
    /\ NoReport \in SeenT /\ NoCursor \in HeldT /\ IdleWorker \in WorkerT
    /\ IdleWorker.pc = "idle" /\ IdleWorker.seen = [k \in Keys |-> NoReport]
    /\ \A k \in PlainKeys : signal[k] \in Outcomes => [NoReport EXCEPT !.status = signal[k]] \in SeenT
<1>1. NoReport \in SeenT /\ NoCursor \in HeldT
  BY DEF NoReport, NoCursor, SeenT, HeldT, ReportOf
<1>2. IdleWorker \in WorkerT /\ IdleWorker.pc = "idle" /\ IdleWorker.seen = [k \in Keys |-> NoReport]
  BY <1>1 DEF IdleWorker, WorkerT
<1>3. \A s \in Outcomes : [NoReport EXCEPT !.status = s] \in SeenT
  BY DEF NoReport, SeenT, ReportOf, Outcomes
<1> QED BY <1>1, <1>2, <1>3

LEMMA ReportType ==
    ASSUME SourceTypes, NEW k \in ServiceKeys
    PROVE  /\ Report(k) \in SeenT
           /\ Report(k).sequence = track[k].sequence /\ Report(k).incident = track[k].incident
           /\ Report(k).closed = track[k].closed /\ Report(k).era = era
           /\ Report(k).epoch = epoch /\ Report(k).status = Condition(track[k])
BY DEF SourceTypes, Report, SeenT, ReportOf, TrackT, Condition, Outcomes

LEMMA SuccessorType ==
    ASSUME NEW t \in TrackT, NEW u \in Successors(t)
    PROVE  u \in TrackT
<1>1. CASE u \in Opens(t) BY <1>1 DEF Opens, TrackT, SampleStatuses
<1>2. CASE u \in Closes(t) BY <1>2 DEF Closes, TrackT, SampleStatuses
<1>3. CASE u \in Continues(t, SampleStatuses) BY <1>3 DEF Continues, TrackT
<1> QED BY <1>1, <1>2, <1>3 DEF Successors

LEMMA IdAndOfType ==
    ASSUME NEW i \in ItemT
    PROVE  /\ Id(i) \in IdT /\ Of(i) \in OfT
           /\ Of(i).key = i.key /\ Of(i).event = i.event /\ Of(i).incident = i.incident
           /\ Of(i).era = i.era /\ Id(i).key = i.key /\ Id(i).number = i.number
BY DEF ItemT, Id, Of, IdT, OfT

LEMMA RequestOf ==
    ASSUME NEW i, NEW posted PROVE Request(i, posted).of = Of(i)
BY DEF Request, Of

LEMMA RememberCases ==
    ASSUME SavedTypes, NEW i \in ItemT, NEW d
    PROVE  /\ Remember(i, d) \in [Keys -> CursorT]
           /\ \A k \in Keys : /\ Remember(i, d)[k].report = cursor[k].report
                              /\ Remember(i, d)[k].events = cursor[k].events
                              /\ k # i.key => Remember(i, d)[k] = cursor[k]
           /\ \/ Remember(i, d)[i.key] = cursor[i.key]
              \/ /\ i.key \in ServiceKeys /\ i.event = "ALARM"
                 /\ Remember(i, d)[i.key].alarm = i.incident
                 /\ Remember(i, d)[i.key].alarmEra = i.era
                 /\ cursor[i.key].report.incident = i.incident
                 /\ Opened(cursor[i.key].report) = i.era
           /\ (/\ i.key \in ServiceKeys /\ i.event = "ALARM" /\ d \in {"SENT", "UNCERTAIN"}
               /\ cursor[i.key].report.incident = i.incident
               /\ Opened(cursor[i.key].report) = i.era)
                => /\ Remember(i, d)[i.key].alarm = i.incident
                   /\ Remember(i, d)[i.key].alarmEra = i.era
<1>1. i.key \in Keys /\ i.incident \in Nat /\ i.era \in Nat
  BY DEF ItemT
<1> DEFINE P == /\ i.key \in ServiceKeys /\ i.event = "ALARM" /\ d \in {"SENT", "UNCERTAIN"}
                /\ cursor[i.key].report.incident = i.incident
                /\ Opened(cursor[i.key].report) = i.era
<1>2. CASE ~P
  <2>1. Remember(i, d) = cursor BY <1>2 DEF Remember
  <2> QED BY <1>1, <1>2, <2>1 DEF SavedTypes
<1>3. CASE P
  <2> DEFINE a == [cursor[i.key] EXCEPT !.alarm = i.incident]
             b == [a EXCEPT !.alarmEra = i.era]
  <2>1. cursor[i.key] \in CursorT BY <1>1 DEF SavedTypes
  <2>2. a \in CursorT /\ a.report = cursor[i.key].report /\ a.events = cursor[i.key].events
        /\ a.alarm = i.incident
    BY <1>1, <2>1 DEF CursorT
  <2>3. b \in CursorT /\ b.report = cursor[i.key].report /\ b.events = cursor[i.key].events
        /\ b.alarm = i.incident /\ b.alarmEra = i.era
    BY <1>1, <2>2 DEF CursorT
  <2>4. Remember(i, d) = [cursor EXCEPT ![i.key] = b]
    BY <1>1, <1>3 DEF SavedTypes, Remember
  <2> HIDE DEF b
  <2> QED BY <1>1, <1>3, <2>3, <2>4 DEF SavedTypes
<1> QED BY <1>2, <1>3

\* What a run's step makes of its own record; the others' are as they were.
LEMMA WorkerUpdate ==
    ASSUME SavedTypes, NEW w \in Workers, NEW v \in WorkerT, worker' = [worker EXCEPT ![w] = v]
    PROVE  /\ worker' \in [Workers -> WorkerT] /\ worker'[w] = v
           /\ \A x \in Workers \ {w} : worker'[x] = worker[x]
BY DEF SavedTypes

\* A run has read its sources.
LEMMA ReadStep ==
    ASSUME SourceTypes, SavedTypes, NEW w \in Workers, Read(w)
    PROVE  /\ worker' \in [Workers -> WorkerT]
           /\ \A x \in Workers \ {w} : worker'[x] = worker[x]
           /\ worker[w].pc = "idle" /\ worker'[w].pc = "read"
           /\ UNCHANGED <<sources, saved, lock, requests>>
           /\ \A k \in ServiceKeys :
                 worker'[w].seen[k] = NoReport
                 \/ (worker'[w].seen[k] = Report(k) /\ files = "whole")
<1>1. PICK usable \in SUBSET Keys :
         /\ usable \cap ServiceKeys = {} \/ files = "whole"
         /\ worker' = [worker EXCEPT ![w].pc = "read",
                ![w].seen = [k \in Keys |->
                    CASE k \in usable \cap ServiceKeys -> Report(k)
                      [] k \in usable \cap PlainKeys -> [NoReport EXCEPT !.status = signal[k]]
                      [] OTHER -> NoReport]]
  BY DEF Read
<1> DEFINE seen == [k \in Keys |->
                    CASE k \in usable \cap ServiceKeys -> Report(k)
                      [] k \in usable \cap PlainKeys -> [NoReport EXCEPT !.status = signal[k]]
                      [] OTHER -> NoReport]
           u == [worker[w] EXCEPT !.pc = "read"]
           v == [u EXCEPT !.seen = seen]
<1>2. ASSUME NEW k \in Keys
      PROVE  /\ seen[k] \in SeenT
             /\ k \in ServiceKeys => seen[k] = NoReport \/ (seen[k] = Report(k) /\ files = "whole")
  <2>1. CASE k \in usable \cap ServiceKeys
    <3>1. seen[k] = Report(k) BY <2>1, DiscordAssumption
    <3> QED BY <1>1, <2>1, <3>1, ReportType
  <2>2. CASE k \in usable \cap PlainKeys
    <3>1. seen[k] = [NoReport EXCEPT !.status = signal[k]] BY <2>2, DiscordAssumption
    <3>2. signal[k] \in Outcomes BY <2>2 DEF SourceTypes
    <3> QED BY <2>2, <3>1, <3>2, RecordTypes, DiscordAssumption
  <2>3. CASE k \notin usable \cap ServiceKeys /\ k \notin usable \cap PlainKeys
    BY <2>3, RecordTypes
  <2> QED BY <2>1, <2>2, <2>3
<1>3. seen \in [Keys -> SeenT]
  BY <1>2
<1>4. worker' = [worker EXCEPT ![w] = v] /\ worker[w] \in WorkerT
  BY <1>1 DEF SavedTypes
<1> HIDE DEF seen
<1>5. u \in WorkerT /\ u.pc = "read"
  BY <1>4 DEF WorkerT
<1> HIDE DEF u
<1>6. v \in WorkerT /\ v.pc = "read" /\ v.seen = seen
  BY <1>3, <1>5 DEF WorkerT
<1> HIDE DEF v
<1>7. worker' \in [Workers -> WorkerT] /\ worker'[w] = v
      /\ \A x \in Workers \ {w} : worker'[x] = worker[x]
  BY <1>4, <1>6, WorkerUpdate
<1>8. worker[w].pc = "idle" /\ UNCHANGED <<sources, saved, lock, requests>>
  BY DEF Read
<1>9. \A k \in ServiceKeys : k \in Keys
  BY DEF Keys
<1>10. \A k \in ServiceKeys : worker'[w].seen[k] = NoReport
                               \/ (worker'[w].seen[k] = Report(k) /\ files = "whole")
  <2> SUFFICES ASSUME NEW k \in ServiceKeys
               PROVE  worker'[w].seen[k] = NoReport
                      \/ (worker'[w].seen[k] = Report(k) /\ files = "whole")
    OBVIOUS
  <2>1. worker'[w].seen[k] = seen[k] BY <1>6, <1>7
  <2>2. seen[k] = NoReport \/ (seen[k] = Report(k) /\ files = "whole") BY <1>2, <1>9
  <2> QED BY <2>1, <2>2
<1> QED BY <1>6, <1>7, <1>8, <1>10

\* A run ends, or gives up: nothing is left of it.
Ends(w) ==
    /\ worker' \in [Workers -> WorkerT] /\ worker'[w] = IdleWorker
    /\ \A x \in Workers \ {w} : worker'[x] = worker[x]

LEMMA EndStep ==
    ASSUME SavedTypes, NEW w \in Workers, worker' = [worker EXCEPT ![w] = IdleWorker]
    PROVE  Ends(w)
BY WorkerUpdate, RecordTypes DEF Ends

\* The run's program counter moves, and nothing else of the run.
Moves(w, pc) ==
    /\ worker' \in [Workers -> WorkerT] /\ worker'[w].pc = pc
    /\ worker'[w].seen = worker[w].seen /\ worker'[w].eligible = worker[w].eligible
    /\ \A x \in Workers \ {w} : worker'[x] = worker[x]

LEMMA MoveStep ==
    ASSUME SavedTypes, NEW w \in Workers, NEW pc \in {"dispatch", "sending"},
           NEW ids \in SUBSET IdT,
           worker' = [worker EXCEPT ![w].pc = pc]
           \/ worker' = [worker EXCEPT ![w].pc = pc, ![w].visited = ids]
    PROVE  Moves(w, pc)
<1> DEFINE u == [worker[w] EXCEPT !.pc = pc]
           v == [u EXCEPT !.visited = ids]
<1>1. worker[w] \in WorkerT
  BY DEF SavedTypes
<1>2. worker' = [worker EXCEPT ![w] = u] \/ worker' = [worker EXCEPT ![w] = v]
  BY DEF SavedTypes
<1>3. u \in WorkerT /\ u.pc = pc /\ u.seen = worker[w].seen /\ u.eligible = worker[w].eligible
  BY <1>1 DEF WorkerT
<1> HIDE DEF u
<1>4. v \in WorkerT /\ v.pc = pc /\ v.seen = worker[w].seen /\ v.eligible = worker[w].eligible
  BY <1>3 DEF WorkerT
<1> HIDE DEF v
<1> QED BY <1>2, <1>3, <1>4, WorkerUpdate DEF Moves

\* An item is replaced by itself with another delivery.
Replaces(i, j) ==
    /\ i \in outbox /\ j \in ItemT /\ outbox' = (outbox \ {i}) \cup {j}
    /\ Id(j) = Id(i) /\ Of(j) = Of(i) /\ j.key = i.key /\ j.event = i.event
    /\ j.incident = i.incident /\ j.era = i.era /\ j.number = i.number

\* The four things dispatch() may do to an item.
Starts(w, i, j) ==
    /\ Replaces(i, j) /\ Moves(w, "sending") /\ worker[w].pc = "dispatch"
    /\ InFlight = {} /\ i.delivery = "PENDING" /\ Id(i) \in worker[w].eligible
    /\ j.delivery = "ATTEMPTED" /\ j.attempts = i.attempts + 1
    /\ UNCHANGED <<cursor, lock, requests>>

Marks(w, i, j) ==
    /\ Replaces(i, j) /\ UNCHANGED <<worker, lock, requests>> /\ worker[w].pc = "dispatch"
    /\ i \in InFlight /\ j.delivery = "UNCERTAIN" /\ j.attempts = i.attempts
    /\ cursor' = Remember(i, "UNCERTAIN")

Settles(w, i, j) ==
    /\ Replaces(i, j) /\ Moves(w, "dispatch") /\ worker[w].pc = "sending"
    /\ i \in InFlight /\ j.delivery \in {"SENT", "UNCERTAIN"} /\ j.attempts = i.attempts
    /\ \E posted \in BOOLEAN : requests' = requests \cup {Request(i, posted)}
    /\ cursor' = Remember(i, j.delivery) /\ UNCHANGED lock

Returns(w, i, j) ==
    /\ Replaces(i, j) /\ worker[w].pc = "sending"
    /\ \/ Moves(w, "dispatch") /\ UNCHANGED lock
       \/ Ends(w) /\ lock' = None
    /\ i \in InFlight
    /\ \/ j.delivery = "FAILED" /\ j.attempts = i.attempts
       \/ j.delivery = "PENDING" /\ j.attempts = i.attempts /\ i.attempts < MaxAttempts
       \/ j.delivery = "PENDING" /\ j.attempts = i.attempts - 1
    /\ UNCHANGED <<cursor, requests>>

ItemStep(w, i, j) == Starts(w, i, j) \/ Marks(w, i, j) \/ Settles(w, i, j) \/ Returns(w, i, j)

LEMMA ItemSteps ==
    ASSUME SavedTypes, NEW w \in Workers, NEW i \in outbox,
           MarkInterrupted(w, i) \/ Attempt(w, i) \/ Answered(w, i)
    PROVE  /\ \E j \in ItemT : ItemStep(w, i, j)
           /\ UNCHANGED sources /\ limited' \in BOOLEAN
<1>0. i \in ItemT /\ i.attempts \in Int /\ Id(i) \in IdT
  BY IdAndOfType DEF SavedTypes, ItemT
<1>1. ASSUME NEW d \in Deliveries, outbox' = Resolved(i, d)
      PROVE  \E j \in ItemT : Replaces(i, j) /\ j.delivery = d /\ j.attempts = i.attempts
  <2> DEFINE j == [i EXCEPT !.delivery = d]
  <2>1. outbox' = (outbox \ {i}) \cup {j} BY <1>1 DEF Resolved
  <2>3. /\ j \in ItemT /\ j.delivery = d /\ j.attempts = i.attempts
        /\ Id(j) = Id(i) /\ Of(j) = Of(i) /\ j.key = i.key /\ j.event = i.event
        /\ j.incident = i.incident /\ j.era = i.era /\ j.number = i.number
    BY <1>0 DEF ItemT, Id, Of
  <2> HIDE DEF j
  <2> QED BY <2>1, <2>3 DEF Replaces
<1>2. ASSUME NEW d \in Deliveries, NEW n \in Int,
             outbox' = (outbox \ {i}) \cup {[i EXCEPT !.delivery = d, !.attempts = n]}
      PROVE  \E j \in ItemT : Replaces(i, j) /\ j.delivery = d /\ j.attempts = n
  <2> DEFINE j == [i EXCEPT !.delivery = d, !.attempts = n]
  <2>1. outbox' = (outbox \ {i}) \cup {j} BY <1>2
  <2>2. j = [i EXCEPT !.delivery = d, !.attempts = n] OBVIOUS
  <2> HIDE DEF j
  <2>3. /\ j \in ItemT /\ j.delivery = d /\ j.attempts = n
        /\ Id(j) = Id(i) /\ Of(j) = Of(i) /\ j.key = i.key /\ j.event = i.event
        /\ j.incident = i.incident /\ j.era = i.era /\ j.number = i.number
    BY <1>0, <2>2 DEF ItemT, Id, Of
  <2> QED BY <2>1, <2>3 DEF Replaces
<1>3. {"PENDING", "ATTEMPTED", "SENT", "UNCERTAIN", "FAILED"} \subseteq Deliveries
  BY DEF Deliveries
<1>4. CASE MarkInterrupted(w, i)
  <2>1. outbox' = Resolved(i, "UNCERTAIN") BY <1>4 DEF MarkInterrupted
  <2>2. PICK j \in ItemT : Replaces(i, j) /\ j.delivery = "UNCERTAIN" /\ j.attempts = i.attempts
    BY <1>1, <1>3, <2>1
  <2>3. Marks(w, i, j) BY <1>4, <2>2 DEF MarkInterrupted, Marks
  <2> QED BY <1>4, <2>3 DEF MarkInterrupted, ItemStep, SavedTypes
<1>5. CASE Attempt(w, i)
  <2>1. outbox' = (outbox \ {i}) \cup {[i EXCEPT !.delivery = "ATTEMPTED", !.attempts = i.attempts + 1]}
    BY <1>5 DEF Attempt
  <2>2. PICK j \in ItemT : Replaces(i, j) /\ j.delivery = "ATTEMPTED" /\ j.attempts = i.attempts + 1
    <3>1. i.attempts + 1 \in Int /\ i.attempts - 1 \in Int BY <1>0
    <3> QED BY <1>2, <1>3, <2>1, <3>1
  <2>3. Moves(w, "sending")
    <3>1. worker' = [worker EXCEPT ![w].pc = "sending",
                                   ![w].visited = worker[w].visited \cup {Id(i)}]
      BY <1>5 DEF Attempt, SavedTypes
    <3>2. worker[w].visited \cup {Id(i)} \in SUBSET IdT
      BY <1>0 DEF SavedTypes, WorkerT
    <3> QED BY <3>1, <3>2, MoveStep
  <2>4. Starts(w, i, j) BY <1>5, <2>2, <2>3 DEF Attempt, Starts
  <2> QED BY <1>5, <2>4 DEF Attempt, ItemStep, SavedTypes
<1>6. ASSUME worker' = [worker EXCEPT ![w].pc = "dispatch"] PROVE Moves(w, "dispatch")
  <2>1. {} \in SUBSET IdT OBVIOUS
  <2> QED BY <1>6, <2>1, MoveStep
<1>7. ASSUME Sent(w, i) \/ Unclear(w, i) PROVE \E j \in ItemT : Settles(w, i, j)
  <2>1. PICK d \in {"SENT", "UNCERTAIN"} : outbox' = Resolved(i, d) /\ cursor' = Remember(i, d)
    BY <1>7 DEF Sent, Unclear
  <2>2. PICK j \in ItemT : Replaces(i, j) /\ j.delivery = d /\ j.attempts = i.attempts
    BY <1>1, <1>3, <2>1
  <2> QED BY <1>6, <1>7, <2>1, <2>2 DEF Sent, Unclear, Settles
<1>8. ASSUME Refused(w, i) \/ Failed(w, i) PROVE \E j \in ItemT : Returns(w, i, j)
  <2>1. PICK d \in {"PENDING", "FAILED"} : /\ outbox' = Resolved(i, d)
                                           /\ d = "PENDING" => i.attempts < MaxAttempts
    BY <1>8 DEF Refused, Failed
  <2>2. PICK j \in ItemT : Replaces(i, j) /\ j.delivery = d /\ j.attempts = i.attempts
    BY <1>1, <1>3, <2>1
  <2> QED BY <1>6, <1>8, <2>1, <2>2 DEF Refused, Failed, Returns
<1>9. ASSUME RateLimited(w, i) PROVE \E j \in ItemT : Returns(w, i, j)
  <2>1. outbox' = (outbox \ {i}) \cup {[i EXCEPT !.delivery = "PENDING", !.attempts = i.attempts - 1]}
    BY <1>9 DEF RateLimited
  <2>2. PICK j \in ItemT : Replaces(i, j) /\ j.delivery = "PENDING" /\ j.attempts = i.attempts - 1
    <3>1. i.attempts + 1 \in Int /\ i.attempts - 1 \in Int BY <1>0
    <3> QED BY <1>2, <1>3, <2>1, <3>1
  <2>3. Ends(w) BY <1>9, EndStep DEF RateLimited
  <2> QED BY <1>9, <2>2, <2>3 DEF RateLimited, Returns
<1>10. Answered(w, i) => UNCHANGED sources /\ limited' \in BOOLEAN
  BY DEF Answered, Sent, Unclear, Refused, Failed, RateLimited, SavedTypes
<1> QED BY <1>4, <1>5, <1>7, <1>8, <1>9, <1>10 DEF Answered, ItemStep

-----------------------------------------------------------------------------
(* A run takes the outbox over.                                            *)

\* An item as it was, or withdrawn.
Carried(i, b) ==
    /\ b \in ItemT /\ Id(b) = Id(i) /\ Of(b) = Of(i) /\ b.key = i.key /\ b.event = i.event
    /\ b.incident = i.incident /\ b.era = i.era /\ b.number = i.number
    /\ b.attempts = i.attempts
    /\ b = i \/ (i.delivery = "PENDING" /\ b.delivery = "SUPERSEDED")

LEMMA ImageIsFinite ==
    ASSUME NEW S, IsFiniteSet(S), NEW g, g = [x \in S |-> g[x]]
    PROVE  IsFiniteSet({g[x] : x \in S})
<1>1. g \in Surjection(S, {g[x] : x \in S})
  BY DEF Surjection
<1> QED BY <1>1, FS_Surjection

\* What becomes of the items a run finds.
LEMMA SupersededItems ==
    ASSUME outbox \subseteq ItemT, NEW items, items \subseteq outbox,
           outbox \ Confirmed \subseteq items, NEW seen
    PROVE  /\ \A b \in Superseded(items, seen) : \E i \in items : Carried(i, b)
           /\ \A i \in outbox : i.delivery \in {"UNCERTAIN", "FAILED", "ATTEMPTED"}
                                   => i \in Superseded(items, seen)
           /\ \A i \in outbox : i.delivery = "PENDING"
                                   => \E b \in Superseded(items, seen) : Carried(i, b)
           /\ IsFiniteSet(items) => IsFiniteSet(Superseded(items, seen))
           /\ (\A i, j \in outbox : Id(i) = Id(j) => i = j)
                => \A b, c \in Superseded(items, seen) : Id(b) = Id(c) => b = c
<1> DEFINE f(i) == IF i.key \in ServiceKeys /\ Current(i.key, seen[i.key])
                      /\ Outdated(i, seen[i.key])
                     THEN [i EXCEPT !.delivery = "SUPERSEDED"] ELSE i
<1>1. Superseded(items, seen) = {f(i) : i \in items}
  BY DEF Superseded
<1>2. ASSUME NEW i \in ItemT PROVE Carried(i, f(i))
  <2>1. CASE f(i) = i
    BY <2>1 DEF Carried
  <2>2. CASE f(i) # i
    <3> DEFINE b == [i EXCEPT !.delivery = "SUPERSEDED"]
    <3>1. f(i) = b /\ i.delivery = "PENDING"
      BY <2>2 DEF Outdated
    <3>2. Carried(i, b)
      BY <3>1 DEF Carried, ItemT, Id, Of, Deliveries
    <3> QED BY <3>1, <3>2
  <2> QED BY <2>1, <2>2
<1>3. ASSUME NEW i \in ItemT, i.delivery # "PENDING" PROVE f(i) = i
  BY <1>3 DEF Outdated
<1>4. \A i \in outbox : i.delivery \in {"UNCERTAIN", "FAILED", "ATTEMPTED", "PENDING"} => i \in items
  BY DEF Confirmed
<1>5. IsFiniteSet(items) => IsFiniteSet({f(i) : i \in items})
  <2> DEFINE g == [i \in items |-> f(i)]
  <2>1. {f(i) : i \in items} = {g[i] : i \in items} OBVIOUS
  <2>2. g = [i \in items |-> g[i]] OBVIOUS
  <2> HIDE DEF g
  <2> QED BY <2>1, <2>2, ImageIsFinite
<1> HIDE DEF f
<1>6. \A i \in outbox : Id(f(i)) = Id(i)
  BY <1>2 DEF Carried
<1>7. ASSUME \A i, j \in outbox : Id(i) = Id(j) => i = j, NEW b \in {f(i) : i \in items},
             NEW c \in {f(i) : i \in items}, Id(b) = Id(c)
      PROVE  b = c
  <2>1. PICK i \in items : b = f(i) OBVIOUS
  <2>2. PICK j \in items : c = f(j) OBVIOUS
  <2>3. i = j BY <1>6, <1>7, <2>1, <2>2
  <2> QED BY <2>1, <2>2, <2>3
<1> QED BY <1>1, <1>2, <1>3, <1>4, <1>5, <1>7

\* The message for an event.
LEMMA MessageFields ==
    ASSUME SavedTypes, NEW k \in Keys, NEW r \in SeenT, NEW items, Event(k, r, items),
           NEW m, m = Message(k, r)
    PROVE  /\ m \in ItemT /\ m.key = k /\ m.number = cursor[k].events + 1 /\ m.event = r.status
           /\ m.incident = IF r.status = "ALARM" THEN r.incident ELSE r.closed
           /\ m.era = IF k \in PlainKeys THEN 0 ELSE r.era
           /\ m.delivery = "PENDING" /\ m.attempts = 0
           /\ r.status \in Outcomes
<1>1. r.status \in Outcomes
  BY DEF Event, Accepted, SeenT, ReportOf
<1>2. cursor[k].events \in Nat
  BY DEF SavedTypes, CursorT
<1> QED BY <1>1, <1>2 DEF Message, ItemT, SeenT, ReportOf, Deliveries

\* The cursor of a key after the run has looked.
LEMMA MovedCases ==
    ASSUME SavedTypes, NEW k \in Keys, NEW r \in SeenT, NEW items,
           NEW c, c = Moved(k, r, items)
    PROVE  /\ c \in CursorT
           /\ ~Accepted(k, r) => c = cursor[k]
           /\ Accepted(k, r) => /\ c.report = r /\ c.events >= cursor[k].events
                                /\ c.alarm = Receipt(k, r).alarm
                                /\ c.alarmEra = Receipt(k, r).alarmEra
           /\ Event(k, r, items) => Accepted(k, r) /\ c.events = cursor[k].events + 1
<1>1. cursor[k] \in CursorT /\ cursor[k].events \in Nat /\ cursor[k].alarm \in Nat
      /\ cursor[k].alarmEra \in Nat
  BY DEF SavedTypes, CursorT
<1>2. Receipt(k, r).alarm \in Nat /\ Receipt(k, r).alarmEra \in Nat
  BY <1>1 DEF Receipt
<1>3. Count(k, r, items) \in {0, 1} /\ (Event(k, r, items) => Count(k, r, items) = 1)
  BY DEF Count
<1>4. CASE ~Accepted(k, r)
  BY <1>1, <1>4 DEF Moved, Event
<1>5. CASE Accepted(k, r)
  <2>1. c = [report |-> r, events |-> cursor[k].events + Count(k, r, items),
             alarm |-> Receipt(k, r).alarm, alarmEra |-> Receipt(k, r).alarmEra]
    BY <1>5 DEF Moved
  <2>2. r \in HeldT
    BY <1>5 DEF Accepted, SeenT, HeldT, ReportOf
  <2>3. /\ cursor[k].events + Count(k, r, items) \in Nat
        /\ cursor[k].events + Count(k, r, items) >= cursor[k].events
        /\ Event(k, r, items) => cursor[k].events + Count(k, r, items) = cursor[k].events + 1
    BY <1>1, <1>3
  <2> QED BY <1>2, <1>5, <2>1, <2>2, <2>3 DEF CursorT
<1> QED BY <1>4, <1>5

\* All that Begin does, with the items it found, box, and the keys it has news of.
Begins(w, box, due) ==
    LET seen == worker[w].seen
    IN  /\ worker[w].pc = "read" /\ lock = None /\ lock' = w
        /\ box \subseteq ItemT
        /\ IsFiniteSet(outbox) => IsFiniteSet(box)
        /\ \A b \in box : \E i \in outbox : Carried(i, b)
        /\ \A i \in outbox : i.delivery \in {"UNCERTAIN", "FAILED", "ATTEMPTED"} => i \in box
        /\ \A i \in outbox : i.delivery = "PENDING" => \E b \in box : Carried(i, b)
        /\ (\A i, j \in outbox : Id(i) = Id(j) => i = j)
             => \A b, c \in box : Id(b) = Id(c) => b = c
        /\ due = {k \in Keys : Event(k, seen[k], box)}
        /\ outbox' = box \cup {Message(k, seen[k]) : k \in due} /\ Room(outbox')
        /\ cursor' = [k \in Keys |-> Moved(k, seen[k], box)]
        /\ worker' \in [Workers -> WorkerT] /\ worker'[w].pc = "dispatch"
        /\ worker'[w].seen = seen /\ worker'[w].eligible = Eligible(outbox', seen)
        /\ \A x \in Workers \ {w} : worker'[x] = worker[x]
        /\ UNCHANGED <<sources, limited, requests>>

LEMMA BeginStep ==
    ASSUME SavedTypes, NEW w \in Workers, Begin(w)
    PROVE  /\ \E box, due : Begins(w, box, due)
           /\ outbox' \subseteq ItemT /\ cursor' \in [Keys -> CursorT]
<1> DEFINE seen == worker[w].seen
<1>1. PICK tail \in Tails :
         LET box == Superseded((outbox \ Confirmed) \cup tail, seen)
             due == {k \in Keys : Event(k, seen[k], box)}
             all == box \cup {Message(k, seen[k]) : k \in due}
         IN  /\ Room(all) /\ outbox' = all
             /\ cursor' = [k \in Keys |-> Moved(k, seen[k], box)]
             /\ worker' = [worker EXCEPT ![w].pc = "dispatch", ![w].eligible = Eligible(all, seen)]
  BY DEF Begin
<1> DEFINE items == (outbox \ Confirmed) \cup tail
           box == Superseded(items, seen)
           due == {k \in Keys : Event(k, seen[k], box)}
<1>2. /\ Room(outbox') /\ outbox' = box \cup {Message(k, seen[k]) : k \in due}
      /\ cursor' = [k \in Keys |-> Moved(k, seen[k], box)]
      /\ worker' = [worker EXCEPT ![w].pc = "dispatch", ![w].eligible = Eligible(outbox', seen)]
  BY <1>1
<1>3. /\ items \subseteq outbox /\ outbox \ Confirmed \subseteq items
      /\ IsFiniteSet(outbox) => IsFiniteSet(items)
  BY FS_Subset DEF Tails, Confirmed
<1>4. outbox \subseteq ItemT /\ seen \in [Keys -> SeenT] /\ worker[w] \in WorkerT
  BY DEF SavedTypes, WorkerT
<1> HIDE DEF items
<1>5. /\ \A b \in box : \E i \in items : Carried(i, b)
      /\ \A i \in outbox : i.delivery \in {"UNCERTAIN", "FAILED", "ATTEMPTED"} => i \in box
      /\ \A i \in outbox : i.delivery = "PENDING" => \E b \in box : Carried(i, b)
      /\ IsFiniteSet(items) => IsFiniteSet(box)
      /\ (\A i, j \in outbox : Id(i) = Id(j) => i = j)
           => \A b, c \in box : Id(b) = Id(c) => b = c
  BY <1>3, <1>4, SupersededItems
<1> HIDE DEF box
<1>6. \A k \in due : Message(k, seen[k]) \in ItemT
  BY <1>4, MessageFields
<1>7. box \subseteq ItemT /\ outbox' \subseteq ItemT
  BY <1>2, <1>5, <1>6 DEF Carried
<1>8. cursor' \in [Keys -> CursorT]
  <2>1. \A k \in Keys : Moved(k, seen[k], box) \in CursorT
    BY <1>4, MovedCases
  <2> QED BY <1>2, <2>1
<1>9. /\ worker' \in [Workers -> WorkerT] /\ worker'[w].pc = "dispatch"
      /\ worker'[w].seen = seen /\ worker'[w].eligible = Eligible(outbox', seen)
      /\ \A x \in Workers \ {w} : worker'[x] = worker[x]
  <2>1. Eligible(outbox', seen) \in SUBSET IdT
    BY <1>7, IdAndOfType DEF Eligible
  <2> DEFINE e == Eligible(outbox', seen)
             u == [worker[w] EXCEPT !.pc = "dispatch"]
             v == [u EXCEPT !.eligible = e]
  <2>2. worker' = [worker EXCEPT ![w] = v]
    BY <1>2 DEF SavedTypes
  <2> HIDE DEF e
  <2>3. u \in WorkerT /\ u.pc = "dispatch" /\ u.seen = seen
    BY <1>4 DEF WorkerT
  <2> HIDE DEF u
  <2>4. v \in WorkerT /\ v.pc = "dispatch" /\ v.seen = seen /\ v.eligible = e
    BY <2>1, <2>3 DEF WorkerT, e
  <2> HIDE DEF v
  <2> QED BY <2>2, <2>4, WorkerUpdate DEF e
<1>10. /\ worker[w].pc = "read" /\ lock = None /\ lock' = w
       /\ UNCHANGED <<sources, limited, requests>>
  BY DEF Begin
<1>11. \A b \in box : \E i \in outbox : Carried(i, b)
  BY <1>3, <1>5
<1>12. IsFiniteSet(outbox) => IsFiniteSet(box)
  BY <1>3, <1>5
<1>13. Begins(w, box, due)
  BY <1>2, <1>5, <1>7, <1>9, <1>10, <1>11, <1>12 DEF Begins
<1> QED BY <1>7, <1>8, <1>13

-----------------------------------------------------------------------------
(* Every step, by what it does to the dispatcher.                          *)

\* The sources move on; a run reads, gives up, ends, or is killed.
SourceStep ==
    /\ MonitorCollects \/ MonitorPublishes \/ MonitorStateLost
       \/ \E k \in PlainKeys : SignalChanges(k)
    /\ UNCHANGED <<saved, lock, worker, requests>>

Reads(w) == worker[w].pc = "idle" /\ Read(w)
Leaves(w) == /\ worker[w].pc = "read" /\ Ends(w)
             /\ UNCHANGED <<sources, saved, lock, requests>>
Finishes(w) == /\ Holding(w) /\ Ends(w) /\ lock' = None
               /\ \/ requests' = requests /\ worker[w].pc = "dispatch"
                  \/ /\ worker[w].pc = "sending"
                     /\ \E i \in InFlight, posted \in BOOLEAN :
                           requests' = requests \cup {Request(i, posted)}
               /\ UNCHANGED <<sources, saved>>
Idles == UNCHANGED <<sources, cursor, outbox, lock, worker, requests>> /\ limited' \in BOOLEAN

LEMMA Steps ==
    ASSUME SavedTypes, [ANext]_aVars
    PROVE  \/ SourceStep \/ Idles
           \/ \E w \in Workers : Reads(w) \/ Leaves(w) \/ Finishes(w) \/ Begin(w)
           \/ \E w \in Workers, i \in outbox :
                 MarkInterrupted(w, i) \/ Attempt(w, i) \/ Answered(w, i)
<1>1. CASE MonitorCollects BY <1>1 DEF MonitorCollects, SourceStep
<1>2. CASE MonitorPublishes BY <1>2 DEF MonitorPublishes, SourceStep
<1>3. CASE MonitorStateLost BY <1>3 DEF MonitorStateLost, SourceStep
<1>4. ASSUME NEW k \in PlainKeys, SignalChanges(k) PROVE SourceStep
  BY <1>4 DEF SignalChanges, SourceStep
<1>5. ASSUME NEW w \in Workers, Read(w) PROVE Reads(w)
  BY <1>5 DEF Read, Reads
<1>6. ASSUME NEW w \in Workers, Abandon(w) PROVE Leaves(w)
  BY <1>6, EndStep DEF Abandon, Leaves
<1>7. ASSUME NEW w \in Workers, End(w) PROVE Finishes(w)
  BY <1>7, EndStep DEF End, Finishes, Holding
<1>8. ASSUME NEW w \in Workers, Crash(w) PROVE Finishes(w)
  BY <1>8, EndStep DEF Crash, Finishes, Holding
<1>9. CASE LimitElapses BY <1>9 DEF LimitElapses, Idles
<1>10. CASE UNCHANGED aVars BY <1>10 DEF aVars, saved, Idles, SavedTypes
<1> QED BY <1>1, <1>2, <1>3, <1>4, <1>5, <1>6, <1>7, <1>8, <1>9, <1>10 DEF ANext

LEMMA SourceTypesNext ==
    ASSUME SourceTypes, SavedTypes, [ANext]_aVars PROVE SourceTypes'
<1> USE DEF SourceTypes
<1>1. UNCHANGED sources => SourceTypes' BY DEF sources
<1>2. CASE MonitorCollects
  <2>1. PICK u \in [ServiceKeys -> UNION {Successors(track[k]) : k \in ServiceKeys}] :
           /\ \A k \in ServiceKeys : u[k] \in Successors(track[k]) /\ u[k].latest \in Statuses
           /\ track' = u
    BY <1>2 DEF MonitorCollects
  <2>2. \A k \in ServiceKeys : u[k] \in TrackT
    BY <2>1, SuccessorType
  <2>3. track' \in [ServiceKeys -> TrackT]
    <3>1. u = [k \in ServiceKeys |-> u[k]] BY <2>1
    <3> QED BY <2>1, <2>2, <3>1
  <2> QED BY <1>2, <2>3 DEF MonitorCollects
<1>3. CASE MonitorPublishes BY <1>3 DEF MonitorPublishes
<1>4. CASE MonitorStateLost
  <2>1. NoIncidents \in TrackT BY DEF NoIncidents, TrackT
  <2> QED BY <1>4, <2>1 DEF MonitorStateLost
<1>5. ASSUME NEW k \in PlainKeys, SignalChanges(k) PROVE SourceTypes'
  BY <1>5 DEF SignalChanges, Outcomes
<1>6. ASSUME NEW w \in Workers, Reads(w) \/ Leaves(w) \/ Finishes(w) \/ Begin(w)
      PROVE  SourceTypes'
  BY <1>1, <1>6 DEF Reads, Read, Leaves, Finishes, Begin
<1>7. ASSUME NEW w \in Workers, NEW i \in outbox,
             MarkInterrupted(w, i) \/ Attempt(w, i) \/ Answered(w, i)
      PROVE  SourceTypes'
  BY <1>1, <1>7, ItemSteps
<1>8. CASE Idles BY <1>1, <1>8 DEF Idles
<1> HIDE DEF SourceTypes
<1> QED BY <1>2, <1>3, <1>4, <1>5, <1>6, <1>7, <1>8, Steps DEF SourceStep

LEMMA SavedTypesNext ==
    ASSUME SourceTypes, SavedTypes, LockInv, [ANext]_aVars PROVE SavedTypes' /\ LockInv'
<1>0. /\ cursor \in [Keys -> CursorT] /\ outbox \subseteq ItemT /\ limited \in BOOLEAN
      /\ lock \in Workers \cup {None} /\ worker \in [Workers -> WorkerT]
      /\ \A q \in requests : q.of \in OfT
      /\ \A w \in Workers : Holding(w) <=> lock = w
  BY DEF SavedTypes, LockInv
<1>a. None \notin Workers BY DiscordAssumption
<1>1. CASE SourceStep \/ Idles
  <2>1. UNCHANGED <<cursor, outbox, lock, worker, requests>> /\ limited' \in BOOLEAN
    BY <1>0, <1>1 DEF SourceStep, Idles, saved
  <2> QED BY <1>0, <2>1 DEF SavedTypes, LockInv, Holding
<1>2. ASSUME NEW w \in Workers, Reads(w) PROVE SavedTypes' /\ LockInv'
  <2>1. /\ worker' \in [Workers -> WorkerT] /\ worker[w].pc = "idle" /\ worker'[w].pc = "read"
        /\ \A x \in Workers \ {w} : worker'[x] = worker[x]
        /\ UNCHANGED <<cursor, outbox, limited, lock, requests>>
    BY <1>2, ReadStep DEF Reads, saved
  <2>2. SavedTypes' BY <1>0, <2>1 DEF SavedTypes
  <2>3. LockInv' BY <1>0, <2>1 DEF LockInv, Holding
  <2> QED BY <2>2, <2>3
<1>3. ASSUME NEW w \in Workers, Leaves(w) \/ Finishes(w) PROVE SavedTypes' /\ LockInv'
  <2>1. /\ worker' \in [Workers -> WorkerT] /\ worker'[w].pc = "idle"
        /\ \A x \in Workers \ {w} : worker'[x] = worker[x]
        /\ UNCHANGED <<cursor, outbox, limited>>
    BY <1>3, RecordTypes DEF Leaves, Finishes, Ends, saved
  <2>2. \A q \in requests' : q.of \in OfT
    <3>1. CASE requests' = requests BY <1>0, <3>1
    <3>2. ASSUME NEW i \in InFlight, NEW posted \in BOOLEAN,
                 requests' = requests \cup {Request(i, posted)}
          PROVE  \A q \in requests' : q.of \in OfT
      <4>1. Request(i, posted).of \in OfT
        BY <1>0, RequestOf, IdAndOfType DEF InFlight
      <4> QED BY <1>0, <3>2, <4>1
    <3> QED BY <1>3, <3>1, <3>2 DEF Leaves, Finishes
  <2>3. \/ lock' = lock /\ worker[w].pc = "read"
        \/ lock' = None /\ Holding(w)
    BY <1>3 DEF Leaves, Finishes
  <2>4. LockInv'
    <3>1. CASE lock' = lock /\ worker[w].pc = "read"
      BY <1>0, <2>1, <3>1 DEF LockInv, Holding
    <3>2. CASE lock' = None /\ Holding(w)
      <4>1. \A x \in Workers \ {w} : ~Holding(x) BY <1>0, <3>2
      <4> QED BY <1>a, <2>1, <3>2, <4>1 DEF LockInv, Holding
    <3> QED BY <2>3, <3>1, <3>2
  <2>5. SavedTypes' BY <1>0, <2>1, <2>2, <2>3 DEF SavedTypes
  <2> QED BY <2>4, <2>5
<1>4. ASSUME NEW w \in Workers, Begin(w) PROVE SavedTypes' /\ LockInv'
  <2>1. PICK box, due : Begins(w, box, due) BY <1>4, BeginStep
  <2>2. outbox' \subseteq ItemT /\ cursor' \in [Keys -> CursorT] BY <1>4, BeginStep
  <2>3. /\ worker' \in [Workers -> WorkerT] /\ worker'[w].pc = "dispatch"
        /\ \A x \in Workers \ {w} : worker'[x] = worker[x]
        /\ lock = None /\ lock' = w /\ UNCHANGED <<limited, requests>>
    BY <2>1 DEF Begins
  <2>4. SavedTypes' BY <1>0, <2>2, <2>3 DEF SavedTypes
  <2>5. LockInv' BY <1>0, <1>a, <2>3 DEF LockInv, Holding
  <2> QED BY <2>4, <2>5
<1>5. ASSUME NEW w \in Workers, NEW i \in outbox,
             MarkInterrupted(w, i) \/ Attempt(w, i) \/ Answered(w, i)
      PROVE  SavedTypes' /\ LockInv'
  <2>1. PICK j \in ItemT : ItemStep(w, i, j) BY <1>5, ItemSteps
  <2>2. limited' \in BOOLEAN BY <1>5, ItemSteps
  <2>3. i \in ItemT BY <1>0
  <2>4. outbox' \subseteq ItemT
    BY <1>0, <2>1 DEF ItemStep, Starts, Marks, Settles, Returns, Replaces
  <2>5. cursor' \in [Keys -> CursorT]
    <3>1. cursor' = cursor \/ \E d : cursor' = Remember(i, d)
      BY <2>1 DEF ItemStep, Starts, Marks, Settles, Returns
    <3> QED BY <1>0, <2>3, <3>1, RememberCases
  <2>6. \A q \in requests' : q.of \in OfT
    <3>1. CASE requests' = requests BY <1>0, <3>1
    <3>2. ASSUME NEW posted \in BOOLEAN, requests' = requests \cup {Request(i, posted)}
          PROVE  \A q \in requests' : q.of \in OfT
      <4>1. Request(i, posted).of \in OfT BY <2>3, RequestOf, IdAndOfType
      <4> QED BY <1>0, <3>2, <4>1
    <3> QED BY <2>1, <3>1, <3>2 DEF ItemStep, Starts, Marks, Settles, Returns
  <2>7. /\ Holding(w) /\ worker' \in [Workers -> WorkerT]
        /\ \A x \in Workers \ {w} : worker'[x] = worker[x]
        /\ \/ lock' = lock /\ worker'[w].pc \in {"dispatch", "sending"}
           \/ lock' = None /\ worker'[w].pc = "idle"
    BY <1>0, <2>1, RecordTypes
       DEF ItemStep, Starts, Marks, Settles, Returns, Moves, Ends, Holding
  <2>8. LockInv'
    <3>1. lock = w /\ \A x \in Workers \ {w} : ~Holding(x) BY <1>0, <2>7
    <3> QED BY <1>a, <2>7, <3>1 DEF LockInv, Holding
  <2>9. lock' \in Workers \cup {None} BY <1>0, <2>7
  <2>10. SavedTypes' BY <2>2, <2>4, <2>5, <2>6, <2>7, <2>9 DEF SavedTypes
  <2> QED BY <2>8, <2>10
<1> QED BY <1>1, <1>2, <1>3, <1>4, <1>5, Steps

-----------------------------------------------------------------------------
(* The history behind the reports.                                         *)

LEMMA SuccessorUpto ==
    ASSUME NEW t \in TrackT, Regular(t), NEW u \in Successors(t)
    PROVE  Regular(u) /\ Upto(t, u)
<1>1. t.sequence \in Nat /\ t.incident \in Nat /\ t.closed \in Nat
  BY DEF TrackT
<1>2. CASE u \in Opens(t) BY <1>1, <1>2 DEF Opens, Regular, Upto
<1>3. CASE u \in Closes(t) BY <1>1, <1>3 DEF Closes, Regular, Upto
<1>4. CASE u \in Continues(t, SampleStatuses)
  <2>1. u.sequence = t.sequence /\ u.incident = t.incident /\ u.closed = t.closed
    BY <1>4 DEF Continues, TrackT
  <2> QED BY <1>1, <2>1 DEF Regular, Upto
<1> QED BY <1>2, <1>3, <1>4 DEF Successors

\* Everything held or seen is a report.
LEMMA KnownTypes ==
    ASSUME SavedTypes, NEW k \in ServiceKeys, NEW a \in Known(k)
    PROVE  a \in SeenT \cup HeldT /\ a.sequence \in Nat /\ a.incident \in Nat /\ a.closed \in Nat
           /\ a.era \in Nat /\ a.epoch \in Nat
<1>1. k \in Keys BY DEF Keys
<1>2. a \in SeenT \cup HeldT
  BY <1>1 DEF Known, SavedTypes, CursorT, WorkerT
<1> QED BY <1>2 DEF SeenT, HeldT, ReportOf

LEMMA NoReportEpoch == NoReport.epoch = 0 /\ NoCursor.epoch = 0
BY DEF NoReport, NoCursor

\* The reports are forgotten or handed on, and the sources stand still.
LEMMA HistoryShrinks ==
    ASSUME HistoryInv, UNCHANGED sources,
           \A k \in ServiceKeys : Known(k)' \subseteq Known(k) \cup {NoReport}
    PROVE  HistoryInv'
<1>1. UNCHANGED <<track, era, epoch, files>> BY DEF sources
<1>2. \A k, a : Past(k, a) => Past(k, a)' BY <1>1 DEF Past
<1>3. \A k : Past(k, NoReport) BY NoReportEpoch DEF Past
<1>4. \A b : Ordered(NoReport, b) /\ Ordered(b, NoReport) BY NoReportEpoch DEF Ordered
<1>5. ASSUME NEW k \in ServiceKeys
      PROVE  /\ Regular(track'[k])
             /\ \A a \in Known(k)' : Past(k, a)'
             /\ \A a, b \in Known(k)' : Ordered(a, b)
  <2>1. /\ Regular(track[k]) /\ \A a \in Known(k) : Past(k, a)
        /\ \A a, b \in Known(k) : Ordered(a, b)
    BY DEF HistoryInv
  <2>2. Known(k)' \subseteq Known(k) \cup {NoReport} OBVIOUS
  <2> QED BY <1>1, <1>2, <1>3, <1>4, <2>1, <2>2
<1>6. files' # "absent" => epoch' # 0 BY <1>1 DEF HistoryInv
<1> QED BY <1>5, <1>6 DEF HistoryInv

LEMMA HistorySource ==
    ASSUME SourceTypes, SavedTypes, HistoryInv, SourceStep PROVE HistoryInv'
<1>0. /\ track \in [ServiceKeys -> TrackT] /\ era \in Nat /\ epoch \in Nat
      /\ files # "absent" => epoch # 0
  BY DEF SourceTypes, HistoryInv
<1>1. \A k \in ServiceKeys : Known(k)' = Known(k)
  BY DEF SourceStep, saved, Known
<1>2. ASSUME files' # "absent" => epoch' # 0,
             \A k \in ServiceKeys : Regular(track'[k]) /\ \A a \in Known(k) : Past(k, a)'
      PROVE  HistoryInv'
  <2>1. \A k \in ServiceKeys : \A a, b \in Known(k)' : Ordered(a, b)
    BY <1>1 DEF HistoryInv
  <2> QED BY <1>1, <1>2, <2>1 DEF HistoryInv
<1>3. CASE MonitorCollects
  <2>1. epoch' = epoch + 1 /\ files' = "saved" /\ era' = era BY <1>3 DEF MonitorCollects
  <2>2. \A k \in ServiceKeys : track'[k] \in Successors(track[k]) BY <1>3 DEF MonitorCollects
  <2>3. ASSUME NEW k \in ServiceKeys
        PROVE  Regular(track'[k]) /\ \A a \in Known(k) : Past(k, a)'
    <3>1. Regular(track'[k]) /\ Upto(track[k], track'[k])
      BY <1>0, <2>2, SuccessorUpto DEF HistoryInv
    <3>2. track'[k] \in TrackT BY <1>0, <2>2, SuccessorType
    <3>3. /\ track[k].sequence \in Nat /\ track[k].closed \in Nat
          /\ track'[k].sequence \in Nat /\ track'[k].closed \in Nat
      BY <1>0, <3>2 DEF TrackT
    <3>4. ASSUME NEW a \in Known(k) PROVE Past(k, a)'
      <4>1. a.sequence \in Nat /\ a.closed \in Nat /\ a.era \in Nat /\ a.epoch \in Nat
        BY KnownTypes
      <4>2. Past(k, a) BY DEF HistoryInv
      <4>3. CASE a.epoch = 0 BY <4>2, <4>3 DEF Past
      <4>4. CASE a.epoch # 0
        <5>1. a.epoch <= epoch /\ a.era <= era /\ (a.era = era => Upto(a, track[k]))
          BY <4>2, <4>4 DEF Past
        <5>2. a.era = era => Upto(a, track'[k])
          BY <3>1, <3>3, <4>1, <5>1 DEF Upto
        <5>3. a.epoch < epoch' /\ a.epoch # epoch' BY <1>0, <2>1, <4>1, <5>1
        <5> QED BY <1>0, <2>1, <4>1, <4>2, <4>4, <5>1, <5>2, <5>3 DEF Past
      <4> QED BY <4>3, <4>4
    <3> QED BY <3>1, <3>4
  <2> QED BY <1>0, <1>2, <2>1, <2>3
<1>4. CASE MonitorPublishes
  <2>1. UNCHANGED <<track, era, epoch>> /\ files = "saved" /\ files' = "whole"
    BY <1>4 DEF MonitorPublishes
  <2>2. \A k \in ServiceKeys : \A a \in Known(k) : Past(k, a)'
    BY <2>1 DEF HistoryInv, Past
  <2> QED BY <1>0, <1>2, <2>1, <2>2 DEF HistoryInv
<1>5. CASE MonitorStateLost
  <2>1. epoch' = epoch /\ files' = "absent" /\ era' = era + 1
        /\ \A k \in ServiceKeys : track'[k] = NoIncidents
    BY <1>5 DEF MonitorStateLost
  <2>2. Regular(NoIncidents) BY DEF Regular, NoIncidents
  <2>3. ASSUME NEW k \in ServiceKeys, NEW a \in Known(k) PROVE Past(k, a)'
    <3>1. a.era \in Nat /\ a.epoch \in Nat BY KnownTypes
    <3>2. Past(k, a) BY DEF HistoryInv
    <3>3. CASE a.epoch = 0 BY <3>2, <3>3 DEF Past
    <3>4. CASE a.epoch # 0
      <4>1. a.era <= era BY <3>2, <3>4 DEF Past
      <4>2. a.era <= era' /\ a.era # era' BY <1>0, <2>1, <3>1, <4>1
      <4> QED BY <2>1, <3>2, <3>4, <4>2 DEF Past
    <3> QED BY <3>3, <3>4
  <2> QED BY <1>2, <2>1, <2>2, <2>3
<1>6. ASSUME NEW k \in PlainKeys, SignalChanges(k) PROVE HistoryInv'
  <2>1. UNCHANGED <<track, era, epoch, files>> BY <1>6 DEF SignalChanges
  <2>2. \A x \in ServiceKeys : \A a \in Known(x) : Past(x, a)'
    BY <2>1 DEF HistoryInv, Past
  <2> QED BY <1>0, <1>2, <2>1, <2>2 DEF HistoryInv
<1> QED BY <1>3, <1>4, <1>5, <1>6 DEF SourceStep

LEMMA HistoryRead ==
    ASSUME SourceTypes, SavedTypes, HistoryInv, NEW w \in Workers, Read(w) PROVE HistoryInv'
<1>0. UNCHANGED <<track, era, epoch, files, cursor>>
  BY ReadStep DEF sources, saved
<1>1. ASSUME NEW k \in ServiceKeys
      PROVE  /\ Regular(track'[k])
             /\ \A a \in Known(k)' : Past(k, a)'
             /\ \A a, b \in Known(k)' : Ordered(a, b)
  <2> DEFINE r == Report(k)
  <2>1. /\ Known(k)' \subseteq Known(k) \cup {NoReport, r}
        /\ r \in Known(k)' => files = "whole" \/ r \in Known(k) \cup {NoReport}
    BY <1>0, ReadStep DEF Known
  <2>2. /\ Regular(track[k]) /\ \A a \in Known(k) : Past(k, a)
        /\ \A a, b \in Known(k) : Ordered(a, b)
        /\ files # "absent" => epoch # 0
    BY DEF HistoryInv
  <2>3. /\ r.sequence = track[k].sequence /\ r.incident = track[k].incident
        /\ r.closed = track[k].closed /\ r.era = era /\ r.epoch = epoch
        /\ r.status = Condition(track[k])
    BY ReportType
  <2>4. /\ track[k].sequence \in Nat /\ track[k].closed \in Nat /\ era \in Nat /\ epoch \in Nat
    BY DEF SourceTypes, TrackT
  <2> HIDE DEF r
  <2>5. /\ Past(k, NoReport) /\ \A b : Ordered(NoReport, b) /\ Ordered(b, NoReport)
    BY NoReportEpoch DEF Past, Ordered
  <2>6. ASSUME files = "whole"
        PROVE  /\ Past(k, r) /\ Ordered(r, r)
               /\ \A a \in Known(k) : Ordered(a, r) /\ Ordered(r, a)
    <3>1. Regular(r) BY <2>2, <2>3 DEF Regular
    <3>2. /\ r.status # "NONE" /\ (r.status = "ALARM" => r.incident # 0)
          /\ (r.status = "NORMAL" => r.incident = 0)
      BY <2>3 DEF Condition
    <3>3. Upto(r, track[k]) /\ Upto(track[k], r) /\ Upto(r, r) BY <2>3, <2>4 DEF Upto
    <3>4. Past(k, r) BY <2>2, <2>3, <2>4, <2>6, <3>1, <3>2, <3>3 DEF Past
    <3>5. Ordered(r, r) BY <2>3, <2>4, <3>3 DEF Ordered
    <3>6. ASSUME NEW a \in Known(k) PROVE Ordered(a, r) /\ Ordered(r, a)
      <4>1. a.sequence \in Nat /\ a.closed \in Nat /\ a.era \in Nat /\ a.epoch \in Nat
        BY KnownTypes
      <4>2. CASE a.epoch = 0 BY <4>2 DEF Ordered
      <4>3. CASE a.epoch # 0
        <5>1. /\ a.era <= era /\ a.epoch <= epoch /\ (a.era < era => a.epoch < epoch)
              /\ (a.era = era => /\ Upto(a, track[k])
                                 /\ (a.epoch = epoch => Upto(track[k], a)))
          BY <2>2, <2>6, <4>3 DEF Past
        <5>2. Upto(a, track[k]) => Upto(a, r) BY <2>3 DEF Upto
        <5>3. Upto(track[k], a) => Upto(r, a) BY <2>3 DEF Upto
        <5> QED BY <2>3, <2>4, <4>1, <5>1, <5>2, <5>3 DEF Ordered
      <4> QED BY <4>2, <4>3
    <3> QED BY <3>4, <3>5, <3>6
  <2>7. \A a : Past(k, a) => Past(k, a)' BY <1>0 DEF Past
  <2> QED BY <1>0, <2>1, <2>2, <2>5, <2>6, <2>7
<1>2. files' # "absent" => epoch' # 0 BY <1>0 DEF HistoryInv
<1> QED BY <1>1, <1>2 DEF HistoryInv

LEMMA HistoryNext ==
    ASSUME SourceTypes, SavedTypes, HistoryInv, [ANext]_aVars PROVE HistoryInv'
<1>1. CASE SourceStep BY <1>1, HistorySource
<1>2. ASSUME NEW w \in Workers, Reads(w) PROVE HistoryInv'
  BY <1>2, HistoryRead DEF Reads
<1>3. ASSUME NEW w \in Workers, Leaves(w) \/ Finishes(w) PROVE HistoryInv'
  <2>1. UNCHANGED <<sources, cursor>> /\ worker'[w].seen = [k \in Keys |-> NoReport]
        /\ \A x \in Workers \ {w} : worker'[x] = worker[x]
    BY <1>3, RecordTypes DEF Leaves, Finishes, Ends, saved
  <2>2. \A k \in ServiceKeys : Known(k)' \subseteq Known(k) \cup {NoReport}
    BY <2>1 DEF Known, Keys
  <2> QED BY <2>1, <2>2, HistoryShrinks
<1>4. ASSUME NEW w \in Workers, Begin(w) PROVE HistoryInv'
  <2>1. PICK box, due : Begins(w, box, due) BY <1>4, BeginStep
  <2>2. \A k \in Keys : cursor'[k].report \in {cursor[k].report, worker[w].seen[k]}
    <3> SUFFICES ASSUME NEW k \in Keys
                 PROVE  cursor'[k].report \in {cursor[k].report, worker[w].seen[k]}
      OBVIOUS
    <3>1. cursor'[k] = Moved(k, worker[w].seen[k], box) BY <2>1 DEF Begins
    <3> QED BY <3>1 DEF Moved
  <2>3. UNCHANGED sources /\ \A x \in Workers : worker'[x].seen = worker[x].seen
    BY <2>1 DEF Begins
  <2>4. \A k \in ServiceKeys : Known(k)' \subseteq Known(k) \cup {NoReport}
    BY <2>2, <2>3 DEF Known, Keys
  <2> QED BY <2>3, <2>4, HistoryShrinks
<1>5. ASSUME NEW w \in Workers, NEW i \in outbox,
             MarkInterrupted(w, i) \/ Attempt(w, i) \/ Answered(w, i)
      PROVE  HistoryInv'
  <2>1. PICK j \in ItemT : ItemStep(w, i, j) BY <1>5, ItemSteps
  <2>2. \A k \in Keys : cursor'[k].report = cursor[k].report
    <3>1. cursor' = cursor \/ \E d : cursor' = Remember(i, d)
      BY <2>1 DEF ItemStep, Starts, Marks, Settles, Returns
    <3>2. i \in ItemT BY DEF SavedTypes
    <3> QED BY <3>1, <3>2, RememberCases
  <2>3. \A x \in Workers : worker'[x].seen \in {worker[x].seen, [k \in Keys |-> NoReport]}
    BY <2>1, RecordTypes DEF ItemStep, Starts, Marks, Settles, Returns, Moves, Ends
  <2>4. \A k \in ServiceKeys : Known(k)' \subseteq Known(k) \cup {NoReport}
    BY <2>2, <2>3 DEF Known, Keys
  <2> QED BY <1>5, <2>4, ItemSteps, HistoryShrinks
<1>6. CASE Idles
  <2>1. \A k \in ServiceKeys : Known(k)' \subseteq Known(k) \cup {NoReport}
    BY <1>6 DEF Idles, Known
  <2> QED BY <1>6, <2>1, HistoryShrinks DEF Idles
<1> QED BY <1>1, <1>2, <1>3, <1>4, <1>5, <1>6, Steps

\* A report that moves the cursor is not behind it, and continues its history.
LEMMA CursorAdvances ==
    ASSUME SavedTypes, HistoryInv, NEW k \in ServiceKeys, NEW w \in Workers,
           NEW r, r = worker[w].seen[k], NEW c, c = cursor[k].report, Accepted(k, r)
    PROVE  /\ Regular(r) /\ r.epoch # 0 /\ r.status \in Outcomes
           /\ r.status = "ALARM" => r.incident # 0
           /\ r.status = "NORMAL" => r.incident = 0
           /\ c.sequence <= r.sequence /\ c.closed <= r.closed
           /\ (c.sequence = r.sequence /\ r.sequence # 0) => c.era = r.era
           /\ Regular(c)
           /\ c.status = "ALARM" <=> c.incident # 0
<1>1. r \in Known(k) /\ c \in Known(k) BY DEF Known
<1>2. /\ r.sequence \in Nat /\ r.closed \in Nat /\ r.era \in Nat /\ r.epoch \in Nat
      /\ c.sequence \in Nat /\ c.closed \in Nat /\ c.era \in Nat /\ c.epoch \in Nat
  BY <1>1, KnownTypes
<1>3. /\ Past(k, r) /\ Past(k, c) /\ Ordered(c, r) BY <1>1 DEF HistoryInv
<1>4. r.epoch # 0 /\ ~RolledBack(c, r) /\ r.status # "UNKNOWN" BY DEF Accepted, Current
<1>5. /\ Regular(r) /\ (r.status = "ALARM" => r.incident # 0)
      /\ (r.status = "NORMAL" => r.incident = 0) /\ r.status # "NONE"
  BY <1>3, <1>4 DEF Past
<1>6. r.status \in Outcomes
  <2>1. r \in SeenT BY DEF SavedTypes, WorkerT, Keys
  <2> QED BY <1>4, <2>1 DEF SeenT, ReportOf
<1>7. CASE c.status = "NONE"
  <2>1. c = NoCursor
    <3>1. c.epoch = 0 BY <1>3, <1>7 DEF Past
    <3>2. NoReport.status = "UNKNOWN" BY DEF NoReport
    <3> QED BY <1>3, <1>7, <3>1, <3>2 DEF Past
  <2>2. c.sequence = 0 /\ c.closed = 0 /\ c.incident = 0
    BY <2>1 DEF NoCursor, NoReport
  <2> QED BY <1>2, <1>4, <1>5, <1>6, <1>7, <2>2 DEF Regular
<1>8. CASE c.status # "NONE"
  <2>1. c.epoch # 0
    <3>1. NoCursor.status = "NONE" /\ NoReport.status = "UNKNOWN" BY DEF NoCursor, NoReport
    <3>2. c \in HeldT BY DEF SavedTypes, CursorT, Keys
    <3>3. c.status # "UNKNOWN" BY <3>2 DEF HeldT, ReportOf, Outcomes
    <3> QED BY <1>3, <1>8, <3>1, <3>3 DEF Past
  <2>2. Regular(c) /\ (c.status = "ALARM" <=> c.incident # 0)
    <3>1. c \in HeldT BY DEF SavedTypes, CursorT, Keys
    <3>2. c.status \in {"ALARM", "NORMAL"} BY <1>8, <3>1 DEF HeldT, ReportOf, Outcomes
    <3> QED BY <1>3, <2>1, <3>2 DEF Past
  <2>3. /\ ~(r.sequence < c.sequence) /\ ~(r.epoch < c.epoch)
        /\ r.sequence = c.sequence => Opened(r) = Opened(c)
    BY <1>4, <1>8 DEF RolledBack
  <2>4. (c.sequence = r.sequence /\ r.sequence # 0) => c.era = r.era
    BY <2>3 DEF Opened
  <2>5. (c.sequence = r.sequence /\ r.sequence # 0) => c.closed <= r.closed
    <3> SUFFICES ASSUME c.sequence = r.sequence, r.sequence # 0 PROVE c.closed <= r.closed
      OBVIOUS
    <3>1. c.era = r.era BY <2>4
    <3>2. c.epoch <= r.epoch BY <1>2, <2>3
    <3> QED BY <1>3, <1>4, <2>1, <3>1, <3>2 DEF Ordered, Upto
  <2>6. /\ r.incident \in Nat /\ c.incident \in Nat BY <1>1, KnownTypes
  <2>7. c.sequence <= r.sequence /\ c.closed <= r.closed
    BY <1>2, <1>5, <2>2, <2>3, <2>5, <2>6 DEF Regular
  <2> QED BY <1>4, <1>5, <1>6, <2>2, <2>4, <2>7
<1> QED BY <1>7, <1>8

-----------------------------------------------------------------------------
(* The outbox.                                                             *)

\* What the steps of dispatch() have in common.
LEMMA ItemFacts ==
    ASSUME SavedTypes, LockInv, NEW w \in Workers, NEW i \in outbox, NEW j \in ItemT,
           ItemStep(w, i, j)
    PROVE  /\ i \in ItemT /\ i.key \in Keys /\ Replaces(i, j) /\ Holding(w) /\ lock = w
           /\ \A x \in Workers \ {w} : ~Holding(x) /\ worker'[x] = worker[x]
           /\ cursor' \in [Keys -> CursorT]
           /\ \A k \in Keys : /\ cursor'[k].report = cursor[k].report
                              /\ cursor'[k].events = cursor[k].events
<1>1. i \in ItemT /\ i.key \in Keys BY DEF SavedTypes, ItemT
<1>2. Replaces(i, j) /\ Holding(w)
  BY DEF ItemStep, Starts, Marks, Settles, Returns, Holding
<1>3. lock = w /\ \A x \in Workers \ {w} : ~Holding(x)
  BY <1>2 DEF LockInv
<1>4. \A x \in Workers \ {w} : worker'[x] = worker[x]
  BY DEF ItemStep, Starts, Marks, Settles, Returns, Moves, Ends
<1>5. cursor' = cursor \/ \E d : cursor' = Remember(i, d)
  BY DEF ItemStep, Starts, Marks, Settles, Returns
<1>6. /\ cursor' \in [Keys -> CursorT]
      /\ \A k \in Keys : /\ cursor'[k].report = cursor[k].report
                         /\ cursor'[k].events = cursor[k].events
  <2>1. CASE cursor' = cursor BY <2>1 DEF SavedTypes
  <2>2. ASSUME NEW d, cursor' = Remember(i, d)
        PROVE  /\ cursor' \in [Keys -> CursorT]
               /\ \A k \in Keys : /\ cursor'[k].report = cursor[k].report
                                  /\ cursor'[k].events = cursor[k].events
    BY <1>1, <2>2, RememberCases
  <2> QED BY <1>5, <2>1, <2>2
<1> QED BY <1>1, <1>2, <1>3, <1>4, <1>6

LEMMA OutboxItem ==
    ASSUME SavedTypes, LockInv, OutboxInv, NEW w \in Workers, NEW i \in outbox, NEW j \in ItemT,
           ItemStep(w, i, j)
    PROVE  OutboxInv'
<1>1. /\ i \in ItemT /\ i.key \in Keys /\ j.key = i.key /\ j.number = i.number /\ Id(j) = Id(i)
      /\ outbox' = (outbox \ {i}) \cup {j} /\ outbox \subseteq ItemT
      /\ \A k \in Keys : cursor'[k].events = cursor[k].events
  BY ItemFacts DEF Replaces, SavedTypes
<1>2. /\ IsFiniteSet(outbox) /\ Cardinality(outbox) <= MaxOutbox
      /\ \A x, y \in InFlight : x = y
      /\ \A x \in outbox : ItemInv(x) /\ x.number <= cursor[x.key].events
      /\ \A x, y \in outbox : Id(x) = Id(y) => x = y
  BY DEF OutboxInv
<1>3. IsFiniteSet(outbox') /\ Cardinality(outbox') <= MaxOutbox
  <2>1. IsFiniteSet(outbox) => /\ IsFiniteSet(outbox \ {i})
                               /\ Cardinality(outbox \ {i}) = Cardinality(outbox) - 1
    BY FS_RemoveElement
  <2> DEFINE rest == outbox \ {i}
  <2>2. IsFiniteSet(rest) => /\ IsFiniteSet(rest \cup {j})
                             /\ Cardinality(rest \cup {j}) = IF j \in rest THEN Cardinality(rest)
                                                              ELSE Cardinality(rest) + 1
    BY FS_AddElement
  <2>3. Cardinality(outbox) \in Nat /\ MaxOutbox \in Nat
    BY <1>2, FS_CardinalityType, DiscordAssumption
  <2> HIDE DEF rest
  <2>4. outbox' = rest \cup {j} /\ IsFiniteSet(rest) /\ Cardinality(rest) = Cardinality(outbox) - 1
    BY <1>1, <1>2, <2>1 DEF rest
  <2>5. IsFiniteSet(outbox') /\ Cardinality(outbox') <= Cardinality(rest) + 1
    <3>1. Cardinality(rest) \in Int BY <2>3, <2>4
    <3> QED BY <2>2, <2>4, <3>1
  <2>6. Cardinality(outbox') \in Nat BY <2>5, FS_CardinalityType
  <2> QED BY <1>2, <2>3, <2>4, <2>5, <2>6
<1>4. \A x, y \in InFlight' : x = y
  <2>1. CASE Starts(w, i, j)
    BY <1>1, <2>1 DEF Starts, InFlight
  <2>2. CASE Marks(w, i, j) \/ Settles(w, i, j) \/ Returns(w, i, j)
    <3>1. i \in InFlight /\ j.delivery # "ATTEMPTED"
      BY <2>2 DEF Marks, Settles, Returns
    <3> QED BY <1>1, <1>2, <3>1 DEF InFlight
  <2> QED BY <2>1, <2>2 DEF ItemStep
<1>5. ItemInv(j)
  <2>1. /\ i.attempts \in 0..MaxAttempts /\ (i.delivery = "PENDING" => i.attempts < MaxAttempts)
        /\ (i.delivery = "ATTEMPTED" => i.attempts > 0) /\ MaxAttempts \in Nat
    BY <1>2, DiscordAssumption DEF ItemInv
  <2>2. \/ i.delivery = "PENDING" /\ j.delivery = "ATTEMPTED" /\ j.attempts = i.attempts + 1
        \/ /\ i.delivery = "ATTEMPTED" /\ j.delivery # "ATTEMPTED"
           /\ \/ j.attempts = i.attempts /\ (j.delivery = "PENDING" => i.attempts < MaxAttempts)
              \/ j.attempts = i.attempts - 1
    BY DEF ItemStep, Starts, Marks, Settles, Returns, InFlight
  <2> QED BY <2>1, <2>2 DEF ItemInv
<1>6. \A x \in outbox' : ItemInv(x) /\ x.number <= cursor'[x.key].events
  BY <1>1, <1>2, <1>5 DEF ItemT
<1>7. \A x, y \in outbox' : Id(x) = Id(y) => x = y
  BY <1>1, <1>2
<1>8. \A x \in outbox' : ItemInv(x)' = ItemInv(x)
  BY DEF ItemInv
<1> QED BY <1>3, <1>4, <1>6, <1>7 DEF OutboxInv, ItemInv, Id

\* The items of a run that begins, and its messages.
LEMMA BeginItems ==
    ASSUME SavedTypes, NEW w \in Workers, NEW box, NEW due, Begins(w, box, due)
    PROVE  /\ cursor' \in [Keys -> CursorT]
           /\ due \subseteq Keys /\ worker[w].seen \in [Keys -> SeenT]
           /\ \A b \in box : \E i \in outbox : Carried(i, b)
           /\ \A x \in outbox' : \/ x \in box
                                 \/ \E k \in due : x = Message(k, worker[w].seen[k])
           /\ \A k \in due : /\ Event(k, worker[w].seen[k], box) /\ Accepted(k, worker[w].seen[k])
                             /\ Message(k, worker[w].seen[k]) \in outbox'
                             /\ cursor'[k].events = cursor[k].events + 1
           /\ \A k \in Keys : /\ cursor'[k] = Moved(k, worker[w].seen[k], box)
                              /\ ~Accepted(k, worker[w].seen[k]) => cursor'[k] = cursor[k]
                              /\ Accepted(k, worker[w].seen[k]) =>
                                    /\ cursor'[k].report = worker[w].seen[k]
                                    /\ cursor'[k].alarm = Receipt(k, worker[w].seen[k]).alarm
                                    /\ cursor'[k].alarmEra = Receipt(k, worker[w].seen[k]).alarmEra
                              /\ cursor'[k].events >= cursor[k].events
<1> DEFINE seen == worker[w].seen
<1>1. /\ due = {k \in Keys : Event(k, seen[k], box)}
      /\ outbox' = box \cup {Message(k, seen[k]) : k \in due}
      /\ cursor' = [k \in Keys |-> Moved(k, seen[k], box)]
      /\ \A b \in box : \E i \in outbox : Carried(i, b)
  BY DEF Begins
<1>2. seen \in [Keys -> SeenT] BY DEF SavedTypes, WorkerT
<1>3. ASSUME NEW k \in Keys
      PROVE  /\ cursor'[k] = Moved(k, seen[k], box)
             /\ cursor'[k] \in CursorT
             /\ ~Accepted(k, seen[k]) => cursor'[k] = cursor[k]
             /\ Accepted(k, seen[k]) => /\ cursor'[k].report = seen[k]
                                        /\ cursor'[k].alarm = Receipt(k, seen[k]).alarm
                                        /\ cursor'[k].alarmEra = Receipt(k, seen[k]).alarmEra
             /\ cursor'[k].events >= cursor[k].events
             /\ Event(k, seen[k], box) => Accepted(k, seen[k])
                                          /\ cursor'[k].events = cursor[k].events + 1
  <2>1. cursor'[k] = Moved(k, seen[k], box) /\ seen[k] \in SeenT BY <1>1, <1>2
  <2>2. cursor[k].events \in Nat BY DEF SavedTypes, CursorT
  <2> HIDE DEF seen
  <2> QED BY <2>1, <2>2, MovedCases
<1> HIDE DEF seen
<1>4. cursor' \in [Keys -> CursorT]
  <2>1. \A k \in Keys : Moved(k, seen[k], box) \in CursorT BY <1>3
  <2> QED BY <1>1, <2>1
<1> QED BY <1>1, <1>2, <1>3, <1>4 DEF seen

LEMMA OutboxBegin ==
    ASSUME SavedTypes, OutboxInv, NEW w \in Workers, NEW box, NEW due, Begins(w, box, due)
    PROVE  OutboxInv'
<1> DEFINE seen == worker[w].seen
<1>1. /\ IsFiniteSet(outbox) /\ \A x, y \in InFlight : x = y
      /\ \A x \in outbox : ItemInv(x) /\ x.number <= cursor[x.key].events
      /\ \A x, y \in outbox : Id(x) = Id(y) => x = y
  BY DEF OutboxInv
<1>2. /\ outbox' = box \cup {Message(k, seen[k]) : k \in due} /\ Room(outbox')
      /\ box \subseteq ItemT /\ IsFiniteSet(box) /\ \A b, c \in box : Id(b) = Id(c) => b = c
  BY <1>1 DEF Begins
<1>3. /\ \A b \in box : \E i \in outbox : Carried(i, b)
      /\ due \subseteq Keys /\ seen \in [Keys -> SeenT]
      /\ \A k \in due : Event(k, seen[k], box) /\ cursor'[k].events = cursor[k].events + 1
      /\ \A k \in Keys : cursor'[k].events >= cursor[k].events
  BY BeginItems
<1>4. \A k \in Keys : cursor[k].events \in Nat /\ cursor'[k].events \in Nat
  <2>1. cursor' \in [Keys -> CursorT] BY BeginItems
  <2> QED BY <2>1 DEF SavedTypes, CursorT
<1> HIDE DEF seen
<1>5. \A k \in due : /\ Message(k, seen[k]) \in ItemT /\ Message(k, seen[k]).key = k
                     /\ Message(k, seen[k]).number = cursor[k].events + 1
                     /\ Message(k, seen[k]).delivery = "PENDING" /\ Message(k, seen[k]).attempts = 0
  BY <1>3, MessageFields
<1>6. IsFiniteSet(outbox') /\ Cardinality(outbox') <= MaxOutbox
  <2>1. IsFiniteSet(due) BY <1>3, FS_Subset, DiscordAssumption
  <2> DEFINE g == [k \in due |-> Message(k, seen[k])]
  <2>2. {Message(k, seen[k]) : k \in due} = {g[k] : k \in due} OBVIOUS
  <2>3. g = [k \in due |-> g[k]] OBVIOUS
  <2> HIDE DEF g
  <2>4. IsFiniteSet({g[k] : k \in due}) BY <2>1, <2>3, ImageIsFinite
  <2>5. IsFiniteSet(box \cup {g[k] : k \in due}) BY <1>2, <2>4, FS_Union
  <2> QED BY <1>2, <2>2, <2>5 DEF Room
<1>7. \A b \in box : /\ b.key \in Keys /\ b.number \in Nat /\ ItemInv(b)
                     /\ b.number <= cursor[b.key].events
                     /\ b.delivery = "ATTEMPTED" => b \in InFlight
  <2> SUFFICES ASSUME NEW b \in box
               PROVE  /\ b.key \in Keys /\ b.number \in Nat /\ ItemInv(b)
                      /\ b.number <= cursor[b.key].events
                      /\ b.delivery = "ATTEMPTED" => b \in InFlight
    OBVIOUS
  <2>1. PICK i \in outbox : Carried(i, b) BY <1>3
  <2>2. b.key \in Keys /\ b.number \in Nat BY <1>2 DEF ItemT
  <2>3. b.number <= cursor[b.key].events /\ ItemInv(i) BY <1>1, <2>1 DEF Carried
  <2>4. ItemInv(b) BY <2>1, <2>3 DEF Carried, ItemInv
  <2>5. b.delivery = "ATTEMPTED" => b \in InFlight BY <2>1 DEF Carried, InFlight
  <2> QED BY <2>2, <2>3, <2>4, <2>5
<1>8. \A k \in due : ItemInv(Message(k, seen[k]))
  <2>1. MaxAttempts \in Nat \ {0} BY DiscordAssumption
  <2> QED BY <1>5, <2>1 DEF ItemInv
<1>9. \A x \in outbox' : ItemInv(x) /\ x.number <= cursor'[x.key].events
  <2>1. \A b \in box : b.number <= cursor'[b.key].events BY <1>3, <1>4, <1>7
  <2>2. \A k \in due : Message(k, seen[k]).number <= cursor'[Message(k, seen[k]).key].events
    BY <1>3, <1>4, <1>5
  <2> QED BY <1>2, <1>7, <1>8, <2>1, <2>2
<1>10. \A x, y \in InFlight' : x = y
  <2>1. InFlight' \subseteq InFlight BY <1>2, <1>5, <1>7 DEF InFlight
  <2> QED BY <1>1, <2>1
<1>11. \A x, y \in outbox' : Id(x) = Id(y) => x = y
  <2>1. \A x, y : Id(x) = Id(y) => x.key = y.key /\ x.number = y.number BY DEF Id
  <2>2. ASSUME NEW b \in box, NEW k \in due PROVE Id(b) # Id(Message(k, seen[k]))
    BY <1>3, <1>4, <1>5, <1>7, <2>1
  <2>3. ASSUME NEW k \in due, NEW l \in due, Id(Message(k, seen[k])) = Id(Message(l, seen[l]))
        PROVE  k = l
    BY <1>5, <2>1, <2>3
  <2> QED BY <1>2, <2>2, <2>3
<1> QED BY <1>6, <1>9, <1>10, <1>11 DEF OutboxInv, ItemInv, Id

LEMMA OutboxNext ==
    ASSUME SavedTypes, LockInv, OutboxInv, SourceTypes, [ANext]_aVars PROVE OutboxInv'
<1>1. ASSUME UNCHANGED <<outbox, cursor>> PROVE OutboxInv'
  BY <1>1 DEF OutboxInv, InFlight, ItemInv, Id
<1>2. CASE SourceStep \/ Idles BY <1>1, <1>2 DEF SourceStep, Idles, saved
<1>3. ASSUME NEW w \in Workers, Reads(w) \/ Leaves(w) \/ Finishes(w) PROVE OutboxInv'
  BY <1>1, <1>3 DEF Reads, Read, Leaves, Finishes, saved
<1>4. ASSUME NEW w \in Workers, Begin(w) PROVE OutboxInv'
  <2>1. PICK box, due : Begins(w, box, due) BY <1>4, BeginStep
  <2> QED BY <2>1, OutboxBegin
<1>5. ASSUME NEW w \in Workers, NEW i \in outbox,
             MarkInterrupted(w, i) \/ Attempt(w, i) \/ Answered(w, i)
      PROVE  OutboxInv'
  <2>1. PICK j \in ItemT : ItemStep(w, i, j) BY <1>5, ItemSteps
  <2> QED BY <2>1, OutboxItem
<1> QED BY <1>2, <1>3, <1>4, <1>5, Steps

-----------------------------------------------------------------------------
(* Who is sending.                                                         *)

\* While one run holds the lock no other sends; while none does, none sends.
LEMMA SendingIs ==
    ASSUME LockInv
    PROVE  /\ lock = None => ~Sending
           /\ \A w \in Workers : lock = w => (Sending <=> worker[w].pc = "sending")
<1>1. None \notin Workers BY DiscordAssumption
<1> QED BY <1>1 DEF LockInv, Holding, Sending

\* What leaves the outbox, the cursors and the requests alone leaves the rest too.
Quiet == /\ UNCHANGED <<outbox, cursor, lock, requests>>
         /\ \A w \in Workers : Holding(w) => worker'[w] = worker[w]
         /\ Sending' = Sending

LEMMA QuietSteps ==
    ASSUME SourceTypes, SavedTypes, LockInv,
           SourceStep \/ Idles \/ \E w \in Workers : Reads(w) \/ Leaves(w)
    PROVE  Quiet
<1>1. CASE SourceStep \/ Idles
  BY <1>1 DEF SourceStep, Idles, saved, Quiet, Sending
<1>2. ASSUME NEW w \in Workers, Reads(w) \/ Leaves(w) PROVE Quiet
  <2>1. /\ worker[w].pc \in {"idle", "read"} /\ worker'[w].pc \in {"idle", "read"}
        /\ \A x \in Workers \ {w} : worker'[x] = worker[x]
        /\ UNCHANGED <<outbox, cursor, lock, requests>>
    BY <1>2, ReadStep, RecordTypes DEF Reads, Leaves, Ends, saved
  <2> QED BY <2>1 DEF Quiet, Holding, Sending
<1> QED BY <1>1, <1>2

-----------------------------------------------------------------------------
(* The messages stay behind the cursors, and a new one is ahead of them.   *)

LEMMA BehindKept ==
    ASSUME NEW x, cursor'[x.key].report = cursor[x.key].report,
           cursor'[x.key].events = cursor[x.key].events
    PROVE  Behind(x) => Behind(x)'
BY DEF Behind

\* What an accepted report says of the cursor's incident.
LEMMA BehindMoves ==
    ASSUME SavedTypes, HistoryInv, NEW w \in Workers, NEW box, NEW due, Begins(w, box, due),
           NEW x \in OfT, Behind(x)
    PROVE  Behind(x)'
<1>1. /\ x.key \in Keys /\ x.incident \in Nat /\ x.era \in Nat /\ x.number \in Nat
      /\ x.event \in Outcomes
  BY DEF OfT
<1> DEFINE k == x.key
           r == worker[w].seen[k]
           c == cursor[k].report
<1>2. /\ ~Accepted(k, r) => cursor'[k] = cursor[k]
      /\ Accepted(k, r) => cursor'[k].report = r
      /\ cursor'[k].events >= cursor[k].events
      /\ cursor' \in [Keys -> CursorT]
  BY <1>1, BeginItems
<1>3. cursor[k].events \in Nat /\ cursor'[k].events \in Nat
  BY <1>1, <1>2 DEF SavedTypes, CursorT
<1>4. CASE k \in PlainKeys
  BY <1>1, <1>2, <1>3, <1>4 DEF Behind
<1>5. CASE k \notin PlainKeys /\ ~Accepted(k, r)
  BY <1>2, <1>5, BehindKept
<1>6. CASE k \notin PlainKeys /\ Accepted(k, r)
  <2>1. k \in ServiceKeys BY <1>1, <1>6 DEF Keys
  <2>2. /\ c.sequence <= r.sequence /\ c.closed <= r.closed
        /\ (c.sequence = r.sequence /\ r.sequence # 0) => c.era = r.era
    BY <1>6, <2>1, CursorAdvances
  <2>3. r \in Known(k) /\ c \in Known(k) BY DEF Known
  <2>4. /\ r.sequence \in Nat /\ r.closed \in Nat /\ c.sequence \in Nat /\ c.closed \in Nat
    BY <2>1, <2>3, KnownTypes
  <2>5. cursor'[k].report = r BY <1>2, <1>6
  <2>6. /\ x.incident # 0
        /\ x.event = "ALARM" => /\ x.incident <= c.sequence
                                /\ x.incident = c.sequence => x.era = c.era
        /\ x.event = "NORMAL" => x.incident <= c.closed
    BY <1>6 DEF Behind
  <2> HIDE DEF c, r
  <2>7. x.event = "ALARM" => /\ x.incident <= r.sequence
                             /\ x.incident = r.sequence => x.era = r.era
    BY <1>1, <2>2, <2>4, <2>6
  <2>8. x.event = "NORMAL" => x.incident <= r.closed
    BY <1>1, <2>2, <2>4, <2>6
  <2> QED BY <1>6, <2>5, <2>6, <2>7, <2>8 DEF Behind
<1> QED BY <1>4, <1>5, <1>6

\* A report that leaves the incident of the cursor open is of that very incident.
LEMMA SameIncident ==
    ASSUME SavedTypes, HistoryInv, NEW k \in ServiceKeys, NEW w \in Workers,
           NEW r, r = worker[w].seen[k], NEW c, c = cursor[k].report, Accepted(k, r),
           r.status = "ALARM", r.incident <= c.sequence
    PROVE  c.status = "ALARM" /\ c.incident = r.incident /\ c.era = r.era
           /\ Opened(c) = Opened(r)
<1>1. /\ Regular(r) /\ r.incident # 0 /\ Regular(c) /\ (c.status = "ALARM" <=> c.incident # 0)
      /\ c.sequence <= r.sequence /\ c.closed <= r.closed
      /\ ((c.sequence = r.sequence /\ r.sequence # 0) => c.era = r.era)
  BY CursorAdvances
<1>2. r \in Known(k) /\ c \in Known(k) BY DEF Known
<1>3. /\ r.sequence \in Nat /\ r.closed \in Nat /\ r.incident \in Nat
      /\ c.sequence \in Nat /\ c.closed \in Nat /\ c.incident \in Nat
  BY <1>2, KnownTypes
<1>4. r.incident = r.sequence /\ r.closed + 1 = r.sequence BY <1>1 DEF Regular
<1>5. c.sequence = r.sequence /\ r.sequence # 0 BY <1>1, <1>3, <1>4
<1>6. c.incident # 0 /\ c.incident = c.sequence BY <1>1, <1>3, <1>4, <1>5 DEF Regular
<1>7. c.era = r.era BY <1>1, <1>5
<1> QED BY <1>1, <1>4, <1>5, <1>6, <1>7 DEF Opened

\* The report that closes the cursor's incident is of the same era.
LEMMA ClosedIncident ==
    ASSUME SavedTypes, HistoryInv, NEW k \in ServiceKeys, NEW w \in Workers,
           NEW r, r = worker[w].seen[k], NEW c, c = cursor[k].report, Accepted(k, r),
           r.status = "NORMAL", c.status = "ALARM", c.incident = r.closed
    PROVE  /\ r.closed # 0 /\ r.closed = c.sequence /\ c.closed < r.closed /\ c.era = r.era
           /\ Opened(c) = r.era /\ Opened(r) = r.era
<1>1. /\ Regular(r) /\ r.incident = 0 /\ Regular(c) /\ c.incident # 0
      /\ ((c.sequence = r.sequence /\ r.sequence # 0) => c.era = r.era)
  BY CursorAdvances
<1>2. r \in Known(k) /\ c \in Known(k) BY DEF Known
<1>3. /\ r.sequence \in Nat /\ r.closed \in Nat
      /\ c.sequence \in Nat /\ c.closed \in Nat /\ c.incident \in Nat
  BY <1>2, KnownTypes
<1>4. r.closed = r.sequence BY <1>1 DEF Regular
<1>5. c.incident = c.sequence /\ c.closed + 1 = c.sequence BY <1>1 DEF Regular
<1>6. c.sequence = r.sequence /\ r.sequence # 0 BY <1>1, <1>4, <1>5
<1> QED BY <1>1, <1>3, <1>4, <1>5, <1>6 DEF Opened

\* A message is for an event that no message and no request has been for.
LEMMA FreshMessage ==
    ASSUME SavedTypes, HistoryInv, NEW w \in Workers, NEW box, NEW due, Begins(w, box, due),
           NEW k \in due, NEW m, m = Message(k, worker[w].seen[k])
    PROVE  m \in ItemT /\ m.key = k /\ ~Behind(Of(m)) /\ Behind(Of(m))'
<1> DEFINE r == worker[w].seen[k]
           c == cursor[k].report
<1>1. /\ k \in Keys /\ r \in SeenT /\ Event(k, r, box) /\ Accepted(k, r)
      /\ cursor'[k].events = cursor[k].events + 1 /\ cursor'[k].report = r
  BY BeginItems
<1>2. /\ m \in ItemT /\ m.key = k /\ m.number = cursor[k].events + 1 /\ m.event = r.status
      /\ m.incident = (IF r.status = "ALARM" THEN r.incident ELSE r.closed)
      /\ m.era = (IF k \in PlainKeys THEN 0 ELSE r.era)
      /\ r.status \in Outcomes
  BY <1>1, MessageFields
<1>3. /\ Of(m).key = k /\ Of(m).event = r.status /\ Of(m).incident = m.incident
      /\ Of(m).era = m.era
  BY <1>2, IdAndOfType
<1>4. CASE k \in PlainKeys
  <2>1. Of(m).number = cursor[k].events + 1 BY <1>2, <1>4 DEF Of
  <2>2. cursor[k].events \in Nat BY <1>1 DEF SavedTypes, CursorT
  <2>3. ~Behind(Of(m)) BY <1>3, <1>4, <2>1, <2>2 DEF Behind
  <2>4. Of(m).number <= cursor'[k].events BY <1>1, <2>1, <2>2
  <2>5. Behind(Of(m))' BY <1>3, <1>4, <2>4 DEF Behind
  <2> QED BY <1>2, <2>3, <2>5
<1>5. CASE k \notin PlainKeys
  <2>1. k \in ServiceKeys BY <1>1, <1>5 DEF Keys
  <2>2. ServiceEvent(k, r, box) BY <1>1, <2>1 DEF Event
  <2>3. /\ Regular(r) /\ (r.status = "ALARM" => r.incident # 0)
        /\ (r.status = "NORMAL" => r.incident = 0)
    BY <1>1, <2>1, CursorAdvances
  <2>4. r \in Known(k) /\ c \in Known(k) BY DEF Known
  <2>5. /\ r.sequence \in Nat /\ r.closed \in Nat /\ r.incident \in Nat
        /\ c.sequence \in Nat /\ c.closed \in Nat /\ c.incident \in Nat
    BY <2>1, <2>4, KnownTypes
  <2>6. CASE r.status = "ALARM"
    <3>1. ~(c.status = "ALARM" /\ c.incident = r.incident)
      BY <2>2, <2>6 DEF ServiceEvent
    <3>2. ~(r.incident <= c.sequence) BY <1>1, <2>1, <2>6, <3>1, SameIncident
    <3>3. Of(m).incident = r.incident /\ Of(m).era = r.era BY <1>2, <1>3, <1>5, <2>6
    <3>4. ~Behind(Of(m)) BY <1>3, <1>5, <2>6, <3>2, <3>3 DEF Behind
    <3>5. r.incident = r.sequence BY <2>3, <2>6 DEF Regular
    <3>6. r.incident <= r.sequence BY <2>5, <3>5
    <3>7. Behind(Of(m))' BY <1>1, <1>3, <1>5, <2>3, <2>6, <3>3, <3>5, <3>6 DEF Behind
    <3> QED BY <1>2, <3>4, <3>7
  <2>7. CASE r.status = "NORMAL"
    <3>1. c.status = "ALARM" /\ c.incident = r.closed
      BY <2>2, <2>7 DEF ServiceEvent
    <3>2. r.closed # 0 /\ c.closed < r.closed BY <1>1, <2>1, <2>7, <3>1, ClosedIncident
    <3>3. Of(m).incident = r.closed BY <1>2, <1>3, <2>7
    <3>4. ~(r.closed <= c.closed) /\ r.closed <= r.closed BY <2>5, <3>2
    <3>5. ~Behind(Of(m)) BY <1>3, <1>5, <2>7, <3>3, <3>4 DEF Behind
    <3>6. Behind(Of(m))' BY <1>1, <1>3, <1>5, <2>7, <3>2, <3>3, <3>4 DEF Behind
    <3> QED BY <1>2, <3>5, <3>6
  <2> QED BY <1>2, <2>6, <2>7 DEF Outcomes
<1> QED BY <1>4, <1>5

LEMMA BehindNext ==
    ASSUME SourceTypes, SavedTypes, LockInv, HistoryInv, BehindInv, [ANext]_aVars
    PROVE  BehindInv'
<1>0. /\ \A i \in outbox : i \in ItemT /\ i.key \in Keys /\ Of(i) \in OfT /\ Of(i).key = i.key
      /\ \A q \in requests : q.of \in OfT /\ q.of.key \in Keys
      /\ \A i \in outbox : Behind(Of(i))
      /\ \A q \in requests : Behind(q.of)
  BY IdAndOfType DEF SavedTypes, BehindInv, ItemT, OfT
<1>1. ASSUME \A k \in Keys : /\ cursor'[k].report = cursor[k].report
                             /\ cursor'[k].events = cursor[k].events,
             \A i \in outbox' : \E j \in outbox : Of(i) = Of(j),
             \A q \in requests' : q \in requests \/ \E i \in outbox : q.of = Of(i)
      PROVE  BehindInv'
  <2>1. \A i \in outbox : Behind(Of(i))' BY <1>0, <1>1, BehindKept
  <2>2. \A q \in requests : Behind(q.of)' BY <1>0, <1>1, BehindKept
  <2>3. \A i \in outbox' : Behind(Of(i))' BY <1>1, <2>1
  <2>4. \A q \in requests' : Behind(q.of)' BY <1>1, <2>1, <2>2
  <2> QED BY <2>3, <2>4 DEF BehindInv, Of
<1>2. CASE SourceStep \/ Idles \/ \E w \in Workers : Reads(w) \/ Leaves(w)
  <2>1. Quiet BY <1>2, QuietSteps
  <2> QED BY <1>1, <2>1 DEF Quiet
<1>3. ASSUME NEW w \in Workers, Finishes(w) PROVE BehindInv'
  <2>1. UNCHANGED <<outbox, cursor>> BY <1>3 DEF Finishes, saved
  <2>2. \A q \in requests' : q \in requests \/ \E i \in outbox : q.of = Of(i)
    BY <1>3, RequestOf DEF Finishes, InFlight
  <2> QED BY <1>1, <2>1, <2>2
<1>4. ASSUME NEW w \in Workers, Begin(w) PROVE BehindInv'
  <2>1. PICK box, due : Begins(w, box, due) BY <1>4, BeginStep
  <2>2. \A q \in requests' : Behind(q.of)'
    <3>1. requests' = requests BY <2>1 DEF Begins
    <3> QED BY <1>0, <2>1, <3>1, BehindMoves
  <2>3. ASSUME NEW b \in outbox' PROVE Behind(Of(b))'
    <3>1. CASE b \in box
      <4>1. PICK i \in outbox : Of(b) = Of(i) BY <2>1, <3>1, BeginItems DEF Carried
      <4>2. Behind(Of(i))' BY <1>0, <2>1, BehindMoves
      <4> QED BY <4>1, <4>2
    <3>2. ASSUME NEW k \in due, b = Message(k, worker[w].seen[k]) PROVE Behind(Of(b))'
      BY <2>1, <3>2, FreshMessage
    <3> QED BY <2>1, <3>1, <3>2, BeginItems
  <2> QED BY <2>2, <2>3 DEF BehindInv, Of
<1>5. ASSUME NEW w \in Workers, NEW i \in outbox,
             MarkInterrupted(w, i) \/ Attempt(w, i) \/ Answered(w, i)
      PROVE  BehindInv'
  <2>1. PICK j \in ItemT : ItemStep(w, i, j) BY <1>5, ItemSteps
  <2>2. /\ \A k \in Keys : /\ cursor'[k].report = cursor[k].report
                           /\ cursor'[k].events = cursor[k].events
        /\ outbox' = (outbox \ {i}) \cup {j} /\ Of(j) = Of(i)
    BY <2>1, ItemFacts DEF Replaces
  <2>3. \A q \in requests' : q \in requests \/ \E x \in outbox : q.of = Of(x)
    BY <2>1, RequestOf DEF ItemStep, Starts, Marks, Settles, Returns
  <2> QED BY <1>1, <2>2, <2>3
<1> QED BY <1>2, <1>3, <1>4, <1>5, Steps

-----------------------------------------------------------------------------
(* One request for an event.                                               *)

\* The item that is being sent has not been requested, so its request is the first.
LEMMA FirstCopy ==
    ASSUME NEW i, NEW posted, ~Requested(Of(i))
    PROVE  Request(i, posted).copy = 1
<1> DEFINE same == {r \in requests : r.of = Of(i)}
<1>1. same = {} BY DEF Requested
<1>2. Cardinality({}) = 0 BY FS_EmptySet
<1>3. Request(i, posted).copy = Cardinality(same) + 1 BY DEF Request, Of
<1> QED BY <1>1, <1>2, <1>3

LEMMA FirstItem ==
    ASSUME SavedTypes, LockInv, OutboxInv, FirstInv, NEW w \in Workers, NEW i \in outbox,
           NEW j \in ItemT, ItemStep(w, i, j)
    PROVE  FirstInv'
<1>1. /\ outbox' = (outbox \ {i}) \cup {j} /\ Of(j) = Of(i) /\ lock = w
  BY ItemFacts DEF Replaces
<1>2. Sending <=> worker[w].pc = "sending" BY <1>1, SendingIs
<1>3. /\ \A x, y \in outbox : Of(x) = Of(y) => x = y
      /\ \A q \in requests : q.copy = 1
      /\ \A x \in outbox : Requested(Of(x)) => /\ x.delivery # "PENDING"
                                               /\ x.delivery = "ATTEMPTED" => ~Sending
  BY DEF FirstInv
<1>4. \A x, y \in outbox' : Of(x) = Of(y) => x = y BY <1>1, <1>3
<1>5. CASE Starts(w, i, j) \/ Marks(w, i, j) \/ Returns(w, i, j)
  <2>1. requests' = requests BY <1>5 DEF Starts, Marks, Returns
  <2>2. \A q \in requests' : q.copy = 1 BY <1>3, <2>1
  <2>3. \A x : Requested(x)' <=> Requested(x) BY <2>1 DEF Requested
  <2>4. \A x \in outbox' \ {j} : x \in outbox /\ x.delivery # "ATTEMPTED"
    <3>1. InFlight \subseteq {i} BY <1>5 DEF Starts, Marks, Returns, OutboxInv
    <3> QED BY <1>1, <3>1 DEF InFlight
  <2>5. Requested(Of(j)) => j.delivery \notin {"PENDING", "ATTEMPTED"}
    <3>1. CASE Starts(w, i, j)
      <4>1. i.delivery = "PENDING" BY <3>1 DEF Starts
      <4> QED BY <1>1, <1>3, <4>1
    <3>2. CASE Marks(w, i, j) BY <3>2 DEF Marks
    <3>3. CASE Returns(w, i, j)
      <4>1. i.delivery = "ATTEMPTED" /\ worker[w].pc = "sending" BY <3>3 DEF Returns, InFlight
      <4> QED BY <1>1, <1>2, <1>3, <4>1
    <3> QED BY <1>5, <3>1, <3>2, <3>3
  <2>6. \A x \in outbox' : Requested(Of(x))' => x.delivery \notin {"PENDING", "ATTEMPTED"}
    BY <1>3, <2>3, <2>4, <2>5
  <2> QED BY <1>4, <2>2, <2>6 DEF FirstInv, Of
<1>6. CASE Settles(w, i, j)
  <2>1. PICK posted \in BOOLEAN : requests' = requests \cup {Request(i, posted)}
    BY <1>6 DEF Settles
  <2>2. i \in InFlight /\ worker[w].pc = "sending" /\ j.delivery \in {"SENT", "UNCERTAIN"}
    BY <1>6 DEF Settles
  <2>3. ~Requested(Of(i)) BY <1>2, <1>3, <2>2 DEF InFlight
  <2>4. \A q \in requests' : q.copy = 1 BY <1>3, <2>1, <2>3, FirstCopy
  <2>5. \A x \in outbox' \ {j} : x \in outbox /\ x.delivery # "ATTEMPTED" /\ Of(x) # Of(i)
    BY <1>1, <1>3, <2>2 DEF OutboxInv, InFlight
  <2>6. \A x : (Requested(x)' /\ x # Of(i)) => Requested(x)
    BY <2>1, RequestOf DEF Requested
  <2>7. \A x \in outbox' : Requested(Of(x))' => x.delivery \notin {"PENDING", "ATTEMPTED"}
    BY <1>3, <2>2, <2>5, <2>6
  <2> QED BY <1>4, <2>4, <2>7 DEF FirstInv, Of
<1> QED BY <1>5, <1>6 DEF ItemStep

LEMMA FirstFinish ==
    ASSUME SavedTypes, LockInv, FirstInv, NEW w \in Workers, Finishes(w)
    PROVE  FirstInv'
<1>1. outbox' = outbox /\ lock = w /\ Holding(w)
  BY DEF Finishes, saved, LockInv
<1>2. Sending <=> worker[w].pc = "sending" BY <1>1, SendingIs
<1>3. ~Sending'
  <2>1. \A x \in Workers \ {w} : ~Holding(x) BY <1>1 DEF LockInv
  <2>2. /\ worker'[w].pc = "idle" /\ \A x \in Workers \ {w} : worker'[x] = worker[x]
    BY RecordTypes DEF Finishes, Ends
  <2> QED BY <2>1, <2>2 DEF Sending, Holding
<1>4. /\ \A x, y \in outbox : Of(x) = Of(y) => x = y
      /\ \A q \in requests : q.copy = 1
      /\ \A x \in outbox : Requested(Of(x)) => /\ x.delivery # "PENDING"
                                               /\ x.delivery = "ATTEMPTED" => ~Sending
  BY DEF FirstInv
<1>5. CASE requests' = requests
  BY <1>1, <1>3, <1>4, <1>5 DEF FirstInv, Of, Requested
<1>6. ASSUME NEW i \in InFlight, NEW posted \in BOOLEAN, worker[w].pc = "sending",
             requests' = requests \cup {Request(i, posted)}
      PROVE  FirstInv'
  <2>1. i \in outbox /\ i.delivery = "ATTEMPTED" BY DEF InFlight
  <2>2. ~Requested(Of(i)) BY <1>2, <1>4, <1>6, <2>1
  <2>3. \A q \in requests' : q.copy = 1 BY <1>4, <1>6, <2>2, FirstCopy
  <2>4. \A x : (Requested(x)' /\ x # Of(i)) => Requested(x)
    BY <1>6, RequestOf DEF Requested
  <2>5. \A x \in outbox' : Requested(Of(x))' => x.delivery # "PENDING"
    BY <1>1, <1>4, <2>1, <2>4
  <2> QED BY <1>1, <1>3, <1>4, <2>3, <2>5 DEF FirstInv, Of
<1> QED BY <1>5, <1>6 DEF Finishes

LEMMA FirstBegin ==
    ASSUME SavedTypes, LockInv, OutboxInv, HistoryInv, BehindInv, FirstInv,
           NEW w \in Workers, NEW box, NEW due, Begins(w, box, due)
    PROVE  FirstInv'
<1>1. /\ requests' = requests /\ lock = None
      /\ \A b, c \in box : Id(b) = Id(c) => b = c
  BY DEF Begins, OutboxInv
<1>2. ~Sending BY <1>1, SendingIs
<1>3. ~Sending'
  <2>1. /\ worker'[w].pc = "dispatch" /\ \A x \in Workers \ {w} : worker'[x] = worker[x]
    BY DEF Begins
  <2> QED BY <1>2, <2>1 DEF Sending
<1>4. /\ \A x, y \in outbox : Of(x) = Of(y) => x = y
      /\ \A q \in requests : q.copy = 1 /\ Behind(q.of)
      /\ \A x \in outbox : Behind(Of(x))
      /\ \A x \in outbox : Requested(Of(x)) => x.delivery # "PENDING"
  BY DEF FirstInv, BehindInv
<1>5. \A b \in box : Behind(Of(b)) /\ (Requested(Of(b)) => b.delivery # "PENDING")
  <2> SUFFICES ASSUME NEW b \in box
               PROVE  Behind(Of(b)) /\ (Requested(Of(b)) => b.delivery # "PENDING")
    OBVIOUS
  <2>1. PICK i \in outbox : Carried(i, b) BY BeginItems
  <2>2. Of(b) = Of(i) /\ (b = i \/ b.delivery = "SUPERSEDED") BY <2>1 DEF Carried
  <2> QED BY <1>4, <2>2
<1>6. \A k \in due : LET m == Message(k, worker[w].seen[k])
                     IN  ~Behind(Of(m)) /\ m \in ItemT /\ m.key = k
  BY FreshMessage
<1>7. ASSUME NEW b \in box, NEW c \in box, Of(b) = Of(c) PROVE b = c
  <2>1. PICK i \in outbox : Carried(i, b) BY BeginItems
  <2>2. PICK j \in outbox : Carried(j, c) BY BeginItems
  <2>3. i = j BY <1>4, <1>7, <2>1, <2>2 DEF Carried
  <2>4. Id(b) = Id(c) BY <2>1, <2>2, <2>3 DEF Carried
  <2> QED BY <1>1, <2>4
<1>8. ASSUME NEW x \in outbox', NEW y \in outbox', Of(x) = Of(y) PROVE x = y
  <2>1. CASE x \in box /\ y \in box BY <1>7, <1>8, <2>1
  <2>2. ASSUME NEW k \in due, x = Message(k, worker[w].seen[k]) PROVE x = y
    <3>1. ~Behind(Of(y)) BY <1>6, <1>8, <2>2
    <3>2. PICK l \in due : y = Message(l, worker[w].seen[l])
      BY <1>5, <3>1, BeginItems
    <3>3. x.key = k /\ y.key = l /\ x \in ItemT /\ y \in ItemT BY <1>6, <2>2, <3>2
    <3>4. k = l BY <1>8, <3>3, IdAndOfType
    <3> QED BY <2>2, <3>2, <3>4
  <2>3. ASSUME NEW k \in due, y = Message(k, worker[w].seen[k]), x \in box PROVE x = y
    <3>1. ~Behind(Of(y)) BY <1>6, <2>3
    <3> QED BY <1>5, <1>8, <2>3, <3>1
  <2> QED BY <2>1, <2>2, <2>3, BeginItems
<1>9. ASSUME NEW x \in outbox', Requested(Of(x)) PROVE x.delivery # "PENDING"
  <2>1. Behind(Of(x)) BY <1>4, <1>9 DEF Requested
  <2>2. x \in box BY <1>6, <2>1, BeginItems
  <2> QED BY <1>5, <1>9, <2>2
<1>10. \A x : Requested(x)' <=> Requested(x) BY <1>1 DEF Requested
<1>11. \A q \in requests' : q.copy = 1 BY <1>1, <1>4
<1> QED BY <1>3, <1>8, <1>9, <1>10, <1>11 DEF FirstInv, Of

LEMMA FirstNext ==
    ASSUME SourceTypes, SavedTypes, LockInv, OutboxInv, HistoryInv, BehindInv, FirstInv,
           [ANext]_aVars
    PROVE  FirstInv'
<1>1. CASE SourceStep \/ Idles \/ \E w \in Workers : Reads(w) \/ Leaves(w)
  <2>1. UNCHANGED <<outbox, requests>> /\ Sending' = Sending BY <1>1, QuietSteps DEF Quiet
  <2> QED BY <2>1 DEF FirstInv, Of, Requested
<1>2. ASSUME NEW w \in Workers, Begin(w) PROVE FirstInv'
  <2>1. PICK box, due : Begins(w, box, due) BY <1>2, BeginStep
  <2> QED BY <2>1, FirstBegin
<1>3. ASSUME NEW w \in Workers, NEW i \in outbox,
             MarkInterrupted(w, i) \/ Attempt(w, i) \/ Answered(w, i)
      PROVE  FirstInv'
  <2>1. PICK j \in ItemT : ItemStep(w, i, j) BY <1>3, ItemSteps
  <2> QED BY <2>1, FirstItem
<1> QED BY <1>1, <1>2, <1>3, FirstFinish, Steps

-----------------------------------------------------------------------------
(* A recovery follows its alarm.                                           *)

LEMMA AlarmForms ==
    ASSUME NEW i \in ItemT, i.key \in ServiceKeys
    PROVE  /\ i.event = "ALARM" => Of(i) = Held(i.key, i.incident, i.era)
           /\ [Of(i) EXCEPT !.event = "ALARM"] = Held(i.key, i.incident, i.era)
<1>1. i.key \notin PlainKeys BY DiscordAssumption
<1> QED BY <1>1 DEF Of, Held

\* A request made for an item of the outbox keeps recoveries behind their alarms.
LEMMA FollowsKept ==
    ASSUME SavedTypes, PairInv, requests \subseteq requests',
           \A q \in requests' : q \in requests \/ \E i \in outbox : q.of = Of(i)
    PROVE  RecoveryFollowsAlarm'
<1> SUFFICES ASSUME NEW q \in requests', q.of.key \in ServiceKeys, q.of.event = "NORMAL"
             PROVE  \E a \in requests' : a.of = [q.of EXCEPT !.event = "ALARM"]
  BY DEF RecoveryFollowsAlarm
<1>1. CASE q \in requests
  BY <1>1 DEF PairInv, RecoveryFollowsAlarm
<1>2. ASSUME NEW i \in outbox, q.of = Of(i)
      PROVE  \E a \in requests' : a.of = [q.of EXCEPT !.event = "ALARM"]
  <2>1. i \in ItemT BY DEF SavedTypes
  <2>2. i.key \in ServiceKeys /\ i.event = "NORMAL" BY <1>2, <2>1, IdAndOfType
  <2>3. Requested(Held(i.key, i.incident, i.era)) BY <2>2 DEF PairInv
  <2>4. [q.of EXCEPT !.event = "ALARM"] = Held(i.key, i.incident, i.era)
    BY <1>2, <2>1, <2>2, AlarmForms
  <2> QED BY <2>3, <2>4 DEF Requested
<1> QED BY <1>1, <1>2

LEMMA PairItem ==
    ASSUME SavedTypes, LockInv, OutboxInv, PairInv, NEW w \in Workers,
           NEW i \in outbox, NEW j \in ItemT, ItemStep(w, i, j)
    PROVE  PairInv'
<1>1. /\ outbox' = (outbox \ {i}) \cup {j} /\ Of(j) = Of(i) /\ lock = w
      /\ j.key = i.key /\ j.event = i.event /\ j.incident = i.incident /\ j.era = i.era
      /\ i \in ItemT /\ i.key \in Keys
  BY ItemFacts DEF Replaces
<1>2. Sending <=> worker[w].pc = "sending" BY <1>1, SendingIs
<1>3. /\ requests \subseteq requests'
      /\ \A q \in requests' : q \in requests \/ \E x \in outbox : q.of = Of(x)
  BY RequestOf DEF ItemStep, Starts, Marks, Settles, Returns
<1>4. \A x : Requested(x) => Requested(x)' BY <1>3 DEF Requested
<1>5. RecoveryFollowsAlarm' BY <1>3, FollowsKept
<1>6. /\ \A x \in outbox : x.key \in ServiceKeys =>
           /\ x.event = "NORMAL" => Requested(Held(x.key, x.incident, x.era))
           /\ x.delivery \in {"SENT", "UNCERTAIN"} => Requested(Of(x))
           /\ (x.delivery = "ATTEMPTED" /\ ~Sending) => Requested(Of(x))
      /\ \A k \in ServiceKeys : cursor[k].alarm # 0 =>
           Requested(Held(k, cursor[k].alarm, cursor[k].alarmEra))
  BY DEF PairInv
<1>7. (j.key \in ServiceKeys /\ j.delivery \in {"SENT", "UNCERTAIN"}) => Requested(Of(j))'
  <2> SUFFICES ASSUME j.key \in ServiceKeys, j.delivery \in {"SENT", "UNCERTAIN"}
               PROVE  Requested(Of(i))'
    BY <1>1 DEF Of
  <2>1. CASE Marks(w, i, j)
    BY <1>1, <1>2, <1>4, <1>6, <2>1 DEF Marks, InFlight
  <2>2. CASE Settles(w, i, j)
    <3>1. PICK posted \in BOOLEAN : requests' = requests \cup {Request(i, posted)}
      BY <2>2 DEF Settles
    <3> QED BY <3>1, RequestOf DEF Requested, Of
  <2> QED BY <2>1, <2>2 DEF ItemStep, Starts, Returns
<1>8. \A x \in outbox' : x.delivery = "ATTEMPTED" => Sending'
  <2>1. CASE Starts(w, i, j)
    BY <2>1 DEF Starts, Moves, Sending
  <2>2. CASE Marks(w, i, j) \/ Settles(w, i, j) \/ Returns(w, i, j)
    <3>1. i \in InFlight /\ j.delivery # "ATTEMPTED"
      BY <2>2 DEF Marks, Settles, Returns
    <3> QED BY <1>1, <3>1 DEF OutboxInv, InFlight
  <2> QED BY <2>1, <2>2 DEF ItemStep
<1>9. \A x \in outbox' : x.key \in ServiceKeys =>
        /\ x.event = "NORMAL" => Requested(Held(x.key, x.incident, x.era))'
        /\ x.delivery \in {"SENT", "UNCERTAIN"} => Requested(Of(x))'
        /\ (x.delivery = "ATTEMPTED" /\ ~Sending') => Requested(Of(x))'
  BY <1>1, <1>4, <1>6, <1>7, <1>8
<1>10. ASSUME NEW k \in ServiceKeys, cursor'[k].alarm # 0
       PROVE  (Requested(Held(k, cursor[k].alarm, cursor[k].alarmEra)))'
  <2>0. k \in Keys BY DEF Keys
  <2>1. CASE cursor'[k] = cursor[k]
    <3>1. PICK q \in requests : q.of = Held(k, cursor[k].alarm, cursor[k].alarmEra)
      BY <1>6, <1>10, <2>1 DEF Requested
    <3> QED BY <1>3, <2>1, <3>1 DEF Requested, Held
  <2>2. CASE cursor'[k] # cursor[k]
    <3>1. j.delivery \in {"SENT", "UNCERTAIN"} /\ cursor' = Remember(i, j.delivery)
      BY <2>2 DEF ItemStep, Starts, Marks, Settles, Returns
    <3>2. /\ k = i.key /\ i.event = "ALARM"
          /\ cursor'[k].alarm = i.incident /\ cursor'[k].alarmEra = i.era
      BY <1>1, <2>0, <2>2, <3>1, RememberCases
    <3>3. Of(j) = Held(k, cursor'[k].alarm, cursor'[k].alarmEra)
      BY <1>1, <3>2, AlarmForms
    <3>4. Requested(Of(j))' BY <1>1, <1>7, <3>1, <3>2
    <3> QED BY <3>3, <3>4 DEF Requested, Held
  <2> QED BY <2>1, <2>2
<1> QED BY <1>5, <1>9, <1>10 DEF PairInv, Held, Of

LEMMA PairFinish ==
    ASSUME SavedTypes, LockInv, OutboxInv, PairInv, NEW w \in Workers, Finishes(w)
    PROVE  PairInv'
<1>1. UNCHANGED <<outbox, cursor>> /\ lock = w
  BY DEF Finishes, saved, LockInv
<1>2. Sending <=> worker[w].pc = "sending" BY <1>1, SendingIs
<1>3. /\ requests \subseteq requests'
      /\ \A q \in requests' : q \in requests \/ \E x \in outbox : q.of = Of(x)
  BY RequestOf DEF Finishes, InFlight
<1>4. \A x : Requested(x) => Requested(x)' BY <1>3 DEF Requested
<1>5. RecoveryFollowsAlarm' BY <1>3, FollowsKept
<1>6. \A x \in outbox : (x.key \in ServiceKeys /\ x.delivery = "ATTEMPTED") => Requested(Of(x))'
  <2>1. CASE worker[w].pc # "sending"
    BY <1>2, <1>4, <2>1 DEF PairInv
  <2>2. CASE worker[w].pc = "sending"
    <3>1. PICK i \in InFlight, posted \in BOOLEAN : requests' = requests \cup {Request(i, posted)}
      BY <2>2 DEF Finishes
    <3>2. Requested(Of(i))' BY <3>1, RequestOf DEF Requested, Of
    <3>3. \A x \in outbox : x.delivery = "ATTEMPTED" => x = i BY DEF OutboxInv, InFlight
    <3> QED BY <3>2, <3>3
  <2> QED BY <2>1, <2>2
<1>7. \A x \in outbox : x.key \in ServiceKeys =>
        /\ x.event = "NORMAL" => Requested(Held(x.key, x.incident, x.era))'
        /\ x.delivery \in {"SENT", "UNCERTAIN"} => Requested(Of(x))'
  BY <1>4 DEF PairInv
<1>8. \A k \in ServiceKeys : cursor[k].alarm # 0 =>
        \E q \in requests' : q.of = Held(k, cursor[k].alarm, cursor[k].alarmEra)
  BY <1>3 DEF PairInv, Requested
<1>9. \A k \in ServiceKeys : cursor'[k].alarm # 0 =>
        (Requested(Held(k, cursor[k].alarm, cursor[k].alarmEra)))'
  BY <1>1, <1>8 DEF Requested, Held
<1> QED BY <1>1, <1>5, <1>6, <1>7, <1>9 DEF PairInv, Held, Of

\* The alarm that AlarmWentOut() finds was requested, in the era of the report.
LEMMA RecoveryIsPaired ==
    ASSUME SavedTypes, LockInv, HistoryInv, BehindInv, PairInv, NEW w \in Workers, NEW box,
           NEW due, Begins(w, box, due), NEW k \in due, k \in ServiceKeys,
           NEW r, r = worker[w].seen[k], r.status = "NORMAL"
    PROVE  Requested(Held(k, r.closed, r.era))
<1> DEFINE c == cursor[k].report
<1>1. k \in Keys /\ Accepted(k, r) /\ ServiceEvent(k, r, box)
  BY BeginItems DEF Event
<1>2. c.status = "ALARM" /\ c.incident = r.closed /\ AlarmWentOut(k, r, box)
  BY <1>1 DEF ServiceEvent
<1>3. r.closed # 0 /\ r.closed = c.sequence /\ c.era = r.era /\ Opened(r) = r.era
  BY <1>1, <1>2, ClosedIncident
<1>4. CASE Receipt(k, r) = [alarm |-> r.closed, alarmEra |-> Opened(r)]
  <2>1. Receipt(k, r).alarm = r.closed /\ Receipt(k, r).alarmEra = r.era BY <1>3, <1>4
  <2>2. cursor[k].alarm = r.closed /\ cursor[k].alarmEra = r.era
    BY <1>3, <2>1 DEF Receipt
  <2> QED BY <1>3, <2>2 DEF PairInv
<1>5. ASSUME NEW b \in box, b.key = k, b.event = "ALARM", b.incident = r.closed,
             b.delivery \in {"SENT", "UNCERTAIN", "ATTEMPTED"}
      PROVE  Requested(Held(k, r.closed, r.era))
  <2>1. PICK i \in outbox : Carried(i, b) BY BeginItems
  <2>2. b \in outbox /\ b \in ItemT BY <1>5, <2>1 DEF Carried
  <2>3. ~Sending
    <3>1. lock = None BY DEF Begins
    <3> QED BY <3>1, SendingIs
  <2>4. Requested(Of(b)) BY <1>5, <2>2, <2>3 DEF PairInv
  <2>5. Behind(Of(b)) /\ Of(b) = Held(k, r.closed, b.era) BY <1>5, <2>2, AlarmForms DEF BehindInv
  <2>6. k \notin PlainKeys BY DiscordAssumption
  <2>7. b.era = c.era BY <1>3, <2>5, <2>6 DEF Behind, Held
  <2> QED BY <1>3, <2>4, <2>5, <2>7
<1> QED BY <1>2, <1>4, <1>5 DEF AlarmWentOut

LEMMA PairBegin ==
    ASSUME SavedTypes, LockInv, HistoryInv, BehindInv, PairInv, NEW w \in Workers, NEW box,
           NEW due, Begins(w, box, due)
    PROVE  PairInv'
<1> DEFINE seen == worker[w].seen
<1>1. requests' = requests /\ lock = None BY DEF Begins
<1>2. ~Sending BY <1>1, SendingIs
<1>3. \A x : Requested(x) => Requested(x)' BY <1>1 DEF Requested
<1>4. RecoveryFollowsAlarm' BY <1>1 DEF PairInv, RecoveryFollowsAlarm
<1>5. ASSUME NEW x \in outbox', x.key \in ServiceKeys
      PROVE  /\ x.event = "NORMAL" => Requested(Held(x.key, x.incident, x.era))'
             /\ x.delivery \in {"SENT", "UNCERTAIN", "ATTEMPTED"} => Requested(Of(x))'
  <2>1. CASE x \in box
    <3>1. PICK i \in outbox : Carried(i, x) BY <2>1, BeginItems
    <3>2. /\ i.key = x.key /\ i.event = x.event /\ i.incident = x.incident /\ i.era = x.era
          /\ x = i \/ x.delivery = "SUPERSEDED"
      BY <3>1 DEF Carried
    <3> QED BY <1>2, <1>3, <1>5, <3>2 DEF PairInv
  <2>2. ASSUME NEW k \in due, x = Message(k, seen[k])
        PROVE  /\ x.event = "NORMAL" => Requested(Held(x.key, x.incident, x.era))'
               /\ x.delivery \in {"SENT", "UNCERTAIN", "ATTEMPTED"} => Requested(Of(x))'
    <3>1. k \in Keys /\ seen[k] \in SeenT /\ Event(k, seen[k], box) BY BeginItems
    <3>2. /\ x.key = k /\ x.event = seen[k].status /\ x.delivery = "PENDING"
          /\ x.incident = (IF seen[k].status = "ALARM" THEN seen[k].incident ELSE seen[k].closed)
          /\ x.era = (IF k \in PlainKeys THEN 0 ELSE seen[k].era)
      BY <2>2, <3>1, MessageFields
    <3>3. k \in ServiceKeys /\ k \notin PlainKeys BY <1>5, <3>2, DiscordAssumption
    <3>4. seen[k].status = "NORMAL" => Requested(Held(k, seen[k].closed, seen[k].era))
      BY <3>3, RecoveryIsPaired
    <3> QED BY <1>3, <3>2, <3>3, <3>4
  <2> QED BY <2>1, <2>2, BeginItems
<1>6. ASSUME NEW k \in ServiceKeys, cursor'[k].alarm # 0
      PROVE  (Requested(Held(k, cursor[k].alarm, cursor[k].alarmEra)))'
  <2>1. k \in Keys BY DEF Keys
  <2>2. cursor'[k].alarm = cursor[k].alarm /\ cursor'[k].alarmEra = cursor[k].alarmEra
    <3>1. CASE ~Accepted(k, seen[k]) BY <2>1, <3>1, BeginItems
    <3>2. CASE Accepted(k, seen[k])
      <4>1. /\ cursor'[k].alarm = Receipt(k, seen[k]).alarm
            /\ cursor'[k].alarmEra = Receipt(k, seen[k]).alarmEra
        BY <2>1, <3>2, BeginItems
      <4> QED BY <1>6, <4>1 DEF Receipt
    <3> QED BY <3>1, <3>2
  <2>3. \E q \in requests : q.of = Held(k, cursor[k].alarm, cursor[k].alarmEra)
    BY <1>6, <2>2 DEF PairInv, Requested
  <2> QED BY <1>1, <2>2, <2>3 DEF Requested, Held
<1> QED BY <1>4, <1>5, <1>6 DEF PairInv, Held, Of

LEMMA PairNext ==
    ASSUME SourceTypes, SavedTypes, LockInv, OutboxInv, HistoryInv, BehindInv, PairInv,
           [ANext]_aVars
    PROVE  PairInv'
<1>1. CASE SourceStep \/ Idles \/ \E w \in Workers : Reads(w) \/ Leaves(w)
  <2>1. UNCHANGED <<outbox, requests, cursor>> /\ Sending' = Sending
    BY <1>1, QuietSteps DEF Quiet
  <2> QED BY <2>1 DEF PairInv, Of, Requested, Held, RecoveryFollowsAlarm
<1>2. ASSUME NEW w \in Workers, Begin(w) PROVE PairInv'
  <2>1. PICK box, due : Begins(w, box, due) BY <1>2, BeginStep
  <2> QED BY <2>1, PairBegin
<1>3. ASSUME NEW w \in Workers, NEW i \in outbox,
             MarkInterrupted(w, i) \/ Attempt(w, i) \/ Answered(w, i)
      PROVE  PairInv'
  <2>1. PICK j \in ItemT : ItemStep(w, i, j) BY <1>3, ItemSteps
  <2> QED BY <2>1, PairItem
<1> QED BY <1>1, <1>2, <1>3, PairFinish, Steps

-----------------------------------------------------------------------------
(* What is sent is current.                                                *)

LEMMA SendNext ==
    ASSUME SourceTypes, SavedTypes, LockInv, OutboxInv, OutboxInv', SendInv, [ANext]_aVars
    PROVE  SendInv'
<1>0. None \notin Workers BY DiscordAssumption
<1>1. CASE SourceStep \/ Idles \/ \E w \in Workers : Reads(w) \/ Leaves(w)
  <2>1. /\ UNCHANGED <<outbox, cursor, lock>>
        /\ \A w \in Workers : Holding(w) => worker'[w] = worker[w]
    BY <1>1, QuietSteps DEF Quiet
  <2>2. \A w \in Workers : lock = w => worker'[w] = worker[w]
    BY <2>1 DEF LockInv
  <2> QED BY <2>1, <2>2 DEF SendInv, Matches, Opened, ClosedAt, Id, InFlight
<1>2. ASSUME NEW w \in Workers, Finishes(w) PROVE SendInv'
  BY <1>0, <1>2 DEF Finishes, SendInv
<1>3. ASSUME NEW w \in Workers, Begin(w) PROVE SendInv'
  <2>1. PICK box, due : Begins(w, box, due) BY <1>3, BeginStep
  <2> DEFINE seen == worker[w].seen
  <2>2. /\ lock' = w /\ worker'[w].pc = "dispatch" /\ worker'[w].seen = seen
        /\ worker'[w].eligible = Eligible(outbox', seen) /\ outbox' \subseteq ItemT
    BY <1>3, <2>1, BeginStep DEF Begins
  <2>3. ASSUME NEW x \in outbox', x.key \in ServiceKeys, Id(x) \in worker'[w].eligible
        PROVE  Matches(x, seen[x.key]) /\ cursor'[x.key].report = seen[x.key]
    <3>1. PICK y \in outbox' : /\ Id(x) = Id(y)
                               /\ \/ y.key \in PlainKeys
                                  \/ Accepted(y.key, seen[y.key]) /\ Matches(y, seen[y.key])
      BY <2>2, <2>3 DEF Eligible
    <3>2. x = y BY <3>1 DEF OutboxInv, Id
    <3>3. x.key \notin PlainKeys /\ x.key \in Keys BY <2>3, DiscordAssumption DEF Keys
    <3>4. Accepted(x.key, seen[x.key]) /\ Matches(x, seen[x.key]) BY <3>1, <3>2, <3>3
    <3>5. cursor'[x.key].report = seen[x.key] BY <2>1, <3>3, <3>4, BeginItems
    <3> QED BY <3>4, <3>5
  <2> HIDE DEF seen
  <2>4. \A x \in outbox' : (x.key \in ServiceKeys /\ Id(x) \in worker'[w].eligible) =>
          Matches(x, worker'[w].seen[x.key]) /\ cursor'[x.key].report = worker'[w].seen[x.key]
    BY <2>2, <2>3
  <2> QED BY <2>2, <2>4 DEF SendInv, Matches, Opened, ClosedAt, Id
<1>4. ASSUME NEW w \in Workers, NEW i \in outbox,
             MarkInterrupted(w, i) \/ Attempt(w, i) \/ Answered(w, i)
      PROVE  SendInv'
  <2>1. PICK j \in ItemT : ItemStep(w, i, j) BY <1>4, ItemSteps
  <2>2. /\ outbox' = (outbox \ {i}) \cup {j} /\ Id(j) = Id(i) /\ lock = w /\ i \in outbox
        /\ j.key = i.key /\ j.event = i.event /\ j.incident = i.incident /\ j.era = i.era
        /\ \A k \in Keys : cursor'[k].report = cursor[k].report
    BY <2>1, ItemFacts DEF Replaces
  <2>3. CASE lock' = None BY <1>0, <2>3 DEF SendInv
  <2>4. CASE lock' # None
    <3>1. /\ lock' = w /\ worker'[w].seen = worker[w].seen
          /\ worker'[w].eligible = worker[w].eligible
          /\ worker'[w].pc = "sending" =>
               InFlight = {} /\ Id(i) \in worker[w].eligible
      BY <1>0, <2>1, <2>2, <2>4 DEF ItemStep, Starts, Marks, Settles, Returns, Moves
    <3>2. \A x \in outbox : (x.key \in ServiceKeys /\ Id(x) \in worker[w].eligible) =>
             Matches(x, worker[w].seen[x.key]) /\ cursor[x.key].report = worker[w].seen[x.key]
      BY <2>2 DEF SendInv
    <3>3. \A r : Matches(j, r) <=> Matches(i, r) BY <2>2 DEF Matches
    <3>4. \A x \in outbox' : (x.key \in ServiceKeys /\ Id(x) \in worker'[w].eligible) =>
             Matches(x, worker'[w].seen[x.key]) /\ cursor'[x.key].report = worker'[w].seen[x.key]
      <4>1. \A k \in ServiceKeys : k \in Keys BY DEF Keys
      <4> QED BY <2>2, <3>1, <3>2, <3>3, <4>1
    <3>5. worker'[w].pc = "sending" => \A x \in InFlight' : Id(x) \in worker'[w].eligible
      BY <2>2, <3>1 DEF InFlight
    <3> QED BY <3>1, <3>4, <3>5 DEF SendInv, Matches, Opened, ClosedAt, Id
  <2> QED BY <2>3, <2>4
<1> QED BY <1>1, <1>2, <1>3, <1>4, Steps

-----------------------------------------------------------------------------
(* The alarm of the open incident is remembered.                           *)

\* The request is for the alarm of the incident that the key's cursor holds open.
AlarmHeld(q) ==
    LET c == cursor[q.of.key]
    IN  /\ q.of.key \in ServiceKeys /\ q.of.event = "ALARM" /\ c.report.status = "ALARM"
        /\ q.of.incident = c.report.incident /\ q.of.era = Opened(c.report)

Remembered(q) ==
    \/ cursor[q.of.key].alarm = q.of.incident /\ cursor[q.of.key].alarmEra = q.of.era
    \/ \E i \in outbox : Of(i) = q.of /\ i.delivery \in {"UNCERTAIN", "ATTEMPTED"}

LEMMA MissForm == MissInv <=> \A q \in requests : AlarmHeld(q) => Remembered(q)
BY DEF MissInv, AlarmHeld, Remembered

LEMMA MissItem ==
    ASSUME SavedTypes, LockInv, FirstInv, MissInv, NEW w \in Workers, NEW i \in outbox,
           NEW j \in ItemT, ItemStep(w, i, j), NEW q \in requests', AlarmHeld(q)'
    PROVE  Remembered(q)'
<1>1. /\ outbox' = (outbox \ {i}) \cup {j} /\ Of(j) = Of(i) /\ lock = w
      /\ i \in ItemT /\ i.key \in Keys /\ j \in outbox'
      /\ \A k \in Keys : cursor'[k].report = cursor[k].report
  BY ItemFacts DEF Replaces
<1>2. Sending <=> worker[w].pc = "sending" BY <1>1, SendingIs
<1>3. q.of.key \in ServiceKeys /\ q.of.key \in Keys BY DEF AlarmHeld, Keys
<1>4. AlarmHeld(q) BY <1>1, <1>3 DEF AlarmHeld, Opened
<1>5. /\ cursor[q.of.key].report.incident = q.of.incident
      /\ Opened(cursor[q.of.key].report) = q.of.era
  BY <1>4 DEF AlarmHeld
<1>6. q \in requests => Remembered(q) BY <1>4, MissForm
<1>7. CASE Starts(w, i, j) \/ Returns(w, i, j)
  <2>1. UNCHANGED <<cursor, requests>> BY <1>7 DEF Starts, Returns
  <2>2. ~(Of(i) = q.of /\ i.delivery \in {"UNCERTAIN", "ATTEMPTED"})
    <3>1. CASE Starts(w, i, j) BY <3>1 DEF Starts
    <3>2. CASE Returns(w, i, j)
      <4>1. i.delivery = "ATTEMPTED" /\ Sending BY <1>2, <3>2 DEF Returns, InFlight
      <4>2. ~Requested(Of(i)) BY <4>1 DEF FirstInv
      <4> QED BY <2>1, <4>2 DEF Requested
    <3> QED BY <1>7, <3>1, <3>2
  <2>3. Remembered(q) BY <1>6, <2>1
  <2> QED BY <1>1, <2>1, <2>2, <2>3 DEF Remembered, Of
<1>8. CASE Marks(w, i, j) \/ Settles(w, i, j)
  <2>1. /\ cursor' = Remember(i, j.delivery) /\ j.delivery \in {"SENT", "UNCERTAIN"}
    BY <1>8 DEF Marks, Settles
  <2>2. (cursor[q.of.key].alarm = q.of.incident /\ cursor[q.of.key].alarmEra = q.of.era) =>
          /\ cursor'[q.of.key].alarm = q.of.incident /\ cursor'[q.of.key].alarmEra = q.of.era
    <3>1. CASE cursor'[q.of.key] = cursor[q.of.key] BY <3>1
    <3>2. CASE cursor'[q.of.key] # cursor[q.of.key]
      <4>1. q.of.key = i.key BY <1>1, <1>3, <2>1, <3>2, RememberCases
      <4>2. /\ cursor'[i.key].alarm = i.incident /\ cursor'[i.key].alarmEra = i.era
            /\ cursor[i.key].report.incident = i.incident
            /\ Opened(cursor[i.key].report) = i.era
        BY <1>1, <2>1, <3>2, <4>1, RememberCases
      <4> QED BY <1>5, <4>1, <4>2
    <3> QED BY <3>1, <3>2
  <2>3. ASSUME Of(i) = q.of PROVE Remembered(q)'
    <3>1. /\ i.key = q.of.key /\ i.event = q.of.event /\ i.incident = q.of.incident
          /\ i.era = q.of.era
      BY <1>1, <2>3, IdAndOfType
    <3>2. i.key \in ServiceKeys /\ i.event = "ALARM" BY <1>4, <3>1 DEF AlarmHeld
    <3>3. cursor'[i.key].alarm = i.incident /\ cursor'[i.key].alarmEra = i.era
      BY <1>1, <1>5, <2>1, <3>1, <3>2, RememberCases
    <3> QED BY <3>1, <3>3 DEF Remembered
  <2>4. ASSUME Of(i) # q.of PROVE Remembered(q)'
    <3>1. q \in requests
      BY <1>8, <2>4, RequestOf DEF Marks, Settles
    <3>2. Remembered(q) BY <1>6, <3>1
    <3> QED BY <1>1, <2>2, <2>4, <3>2 DEF Remembered, Of
  <2> QED BY <2>3, <2>4
<1> QED BY <1>7, <1>8 DEF ItemStep

LEMMA MissBegin ==
    ASSUME SavedTypes, HistoryInv, BehindInv, MissInv, NEW w \in Workers, NEW box, NEW due,
           Begins(w, box, due), NEW q \in requests, AlarmHeld(q)'
    PROVE  Remembered(q)'
<1> DEFINE k == q.of.key
           r == worker[w].seen[k]
           c == cursor[k].report
<1>1. k \in ServiceKeys /\ k \in Keys /\ k \notin PlainKeys
  BY DiscordAssumption DEF AlarmHeld, Keys
<1>2. \A i \in outbox : i.delivery \in {"UNCERTAIN", "ATTEMPTED"} => i \in outbox'
  BY DEF Begins
<1>3. CASE ~Accepted(k, r)
  <2>1. cursor'[k] = cursor[k] BY <1>1, <1>3, BeginItems
  <2>2. AlarmHeld(q) BY <2>1 DEF AlarmHeld, Opened
  <2>3. Remembered(q) BY <2>2, MissForm
  <2> QED BY <1>2, <2>1, <2>3 DEF Remembered, Of
<1>4. CASE Accepted(k, r)
  <2>1. /\ cursor'[k].report = r /\ cursor'[k].alarm = Receipt(k, r).alarm
        /\ cursor'[k].alarmEra = Receipt(k, r).alarmEra
    BY <1>1, <1>4, BeginItems
  <2>2. /\ q.of.event = "ALARM" /\ r.status = "ALARM" /\ q.of.incident = r.incident
        /\ q.of.era = Opened(r)
    BY <2>1 DEF AlarmHeld, Opened
  <2>3. r.incident <= c.sequence /\ r.incident # 0
    <3>1. Behind(q.of) BY DEF BehindInv
    <3> QED BY <1>1, <2>2, <3>1 DEF Behind
  <2>4. c.status = "ALARM" /\ c.incident = r.incident /\ Opened(c) = Opened(r)
    BY <1>1, <1>4, <2>2, <2>3, SameIncident
  <2>5. AlarmHeld(q) BY <1>1, <2>2, <2>4 DEF AlarmHeld
  <2>6. Remembered(q) BY <2>5, MissForm
  <2>7. (cursor[k].alarm = q.of.incident /\ cursor[k].alarmEra = q.of.era) =>
          cursor'[k].alarm = q.of.incident /\ cursor'[k].alarmEra = q.of.era
    BY <2>1, <2>2, <2>3 DEF Receipt
  <2> QED BY <1>2, <2>6, <2>7 DEF Remembered, Of
<1> QED BY <1>3, <1>4

LEMMA MissNext ==
    ASSUME SourceTypes, SavedTypes, LockInv, OutboxInv, HistoryInv, BehindInv, FirstInv, MissInv,
           [ANext]_aVars
    PROVE  MissInv'
<1>1. CASE SourceStep \/ Idles \/ \E w \in Workers : Reads(w) \/ Leaves(w)
  <2>1. UNCHANGED <<outbox, requests, cursor>> BY <1>1, QuietSteps DEF Quiet
  <2> QED BY <2>1 DEF MissInv, Of, Opened
<1>2. ASSUME NEW w \in Workers, Finishes(w) PROVE MissInv'
  <2>1. UNCHANGED <<outbox, cursor>> BY <1>2 DEF Finishes, saved
  <2>2. \A q \in requests' : q \in requests \/ \E i \in InFlight : q.of = Of(i)
    BY <1>2, RequestOf DEF Finishes
  <2>3. \A q : (AlarmHeld(q)' <=> AlarmHeld(q)) /\ (Remembered(q)' <=> Remembered(q))
    BY <2>1 DEF AlarmHeld, Remembered, Of, Opened
  <2>4. \A q : (\E i \in InFlight : q.of = Of(i)) => Remembered(q)
    BY DEF Remembered, InFlight
  <2>5. \A q \in requests' : AlarmHeld(q)' => Remembered(q)' BY <2>2, <2>3, <2>4, MissForm
  <2> QED BY <2>5 DEF MissInv, AlarmHeld, Remembered, Of
<1>3. ASSUME NEW w \in Workers, Begin(w) PROVE MissInv'
  <2>1. PICK box, due : Begins(w, box, due) BY <1>3, BeginStep
  <2>2. requests' = requests BY <2>1 DEF Begins
  <2>3. \A q \in requests' : AlarmHeld(q)' => Remembered(q)' BY <2>1, <2>2, MissBegin
  <2> QED BY <2>3 DEF MissInv, AlarmHeld, Remembered, Of
<1>4. ASSUME NEW w \in Workers, NEW i \in outbox,
             MarkInterrupted(w, i) \/ Attempt(w, i) \/ Answered(w, i)
      PROVE  MissInv'
  <2>1. PICK j \in ItemT : ItemStep(w, i, j) BY <1>4, ItemSteps
  <2>2. \A q \in requests' : AlarmHeld(q)' => Remembered(q)' BY <2>1, MissItem
  <2> QED BY <2>2 DEF MissInv, AlarmHeld, Remembered, Of
<1> QED BY <1>1, <1>2, <1>3, <1>4, Steps

-----------------------------------------------------------------------------
(* The theorems.                                                           *)

AlertsInv == /\ SourceTypes /\ SavedTypes /\ LockInv /\ OutboxInv /\ HistoryInv
             /\ BehindInv /\ FirstInv /\ PairInv /\ SendInv /\ MissInv

LEMMA AlertsInit == ASSUME AInit PROVE AlertsInv
<1>1. /\ outbox = {} /\ requests = {} /\ lock = None /\ limited = FALSE /\ None \notin Workers
      /\ worker = [w \in Workers |-> IdleWorker]
      /\ cursor = [k \in Keys |-> [report |-> NoCursor, events |-> 0, alarm |-> 0, alarmEra |-> 0]]
      /\ track = [k \in ServiceKeys |-> NoIncidents] /\ era = 1 /\ epoch = 0 /\ files = "absent"
      /\ signal = [k \in PlainKeys |-> "NORMAL"]
  BY DiscordAssumption DEF AInit
<1>2. SourceTypes
  <2>1. NoIncidents \in TrackT BY DEF NoIncidents, TrackT
  <2> QED BY <1>1, <2>1 DEF SourceTypes, Outcomes
<1>3. SavedTypes
  <2>1. [report |-> NoCursor, events |-> 0, alarm |-> 0, alarmEra |-> 0] \in CursorT
    BY RecordTypes DEF CursorT
  <2>2. cursor \in [Keys -> CursorT] /\ worker \in [Workers -> WorkerT]
    BY <1>1, <2>1, RecordTypes
  <2>3. limited \in BOOLEAN BY <1>1
  <2> QED BY <1>1, <2>2, <2>3 DEF SavedTypes
<1>4. LockInv /\ ~Sending
  BY <1>1, RecordTypes DEF LockInv, Holding, Sending
<1>5. OutboxInv
  <2>1. IsFiniteSet({}) /\ Cardinality({}) = 0 BY FS_EmptySet
  <2>2. MaxOutbox \in Nat BY DiscordAssumption
  <2> QED BY <1>1, <2>1, <2>2 DEF OutboxInv, InFlight
<1>6. HistoryInv
  <2>1. \A k \in ServiceKeys : Regular(track[k]) BY <1>1 DEF Regular, NoIncidents
  <2>2. \A k \in ServiceKeys : Known(k) \subseteq {NoReport, NoCursor}
    BY <1>1, RecordTypes DEF Known, Keys
  <2>3. \A k : Past(k, NoReport) /\ Past(k, NoCursor) BY NoReportEpoch DEF Past
  <2>4. \A a, b \in {NoReport, NoCursor} : Ordered(a, b) BY NoReportEpoch DEF Ordered
  <2> QED BY <1>1, <2>1, <2>2, <2>3, <2>4 DEF HistoryInv
<1>7. BehindInv /\ FirstInv /\ SendInv /\ MissInv
  BY <1>1 DEF BehindInv, FirstInv, SendInv, MissInv
<1>8. PairInv
  <2>1. \A k \in ServiceKeys : cursor[k].alarm = 0 BY <1>1 DEF Keys
  <2> QED BY <1>1, <2>1 DEF PairInv, RecoveryFollowsAlarm
<1> QED BY <1>2, <1>3, <1>4, <1>5, <1>6, <1>7, <1>8 DEF AlertsInv

LEMMA AlertsNext == ASSUME AlertsInv, [ANext]_aVars PROVE AlertsInv'
<1>1. /\ SourceTypes /\ SavedTypes /\ LockInv /\ OutboxInv /\ HistoryInv
      /\ BehindInv /\ FirstInv /\ PairInv /\ SendInv /\ MissInv
  BY DEF AlertsInv
<1>2. SourceTypes' /\ SavedTypes' /\ LockInv' BY <1>1, SourceTypesNext, SavedTypesNext
<1>3. OutboxInv' BY <1>1, OutboxNext
<1>4. HistoryInv' BY <1>1, HistoryNext
<1>5. BehindInv' /\ FirstInv' BY <1>1, BehindNext, FirstNext
<1>6. PairInv' /\ MissInv' BY <1>1, PairNext, MissNext
<1>7. SendInv' BY <1>1, <1>3, SendNext
<1> QED BY <1>2, <1>3, <1>4, <1>5, <1>6, <1>7 DEF AlertsInv

\* The inductive invariant of the dispatcher: its types, the lock, a bounded outbox with one
\* attempt at most, reports that all belong to one history, messages behind the cursors,
\* one request for an event and one alarm before every recovery.
THEOREM AlertsInvariant == ASpec => []AlertsInv
<1>1. AInit => AlertsInv BY AlertsInit
<1>2. AlertsInv /\ [ANext]_aVars => AlertsInv' BY AlertsNext
<1> QED BY <1>1, <1>2, PTL DEF ASpec

\* Whatever a run writes, the next one's validate_state() accepts: an outbox within
\* MAX_OUTBOX, attempts within MAX_ATTEMPTS, one delivery under way and no number twice;
\* and dispatch() runs only under the lock.
THEOREM StateStaysValid == ASpec => []ATypeOK
<1>1. ASSUME AlertsInv PROVE ATypeOK
  <2>1. SavedTypes /\ LockInv /\ OutboxInv BY <1>1 DEF AlertsInv
  <2>2. Cardinality(InFlight) <= 1
    <3>1. CASE InFlight = {}
      <4>1. Cardinality({}) = 0 BY FS_EmptySet
      <4> QED BY <3>1, <4>1
    <3>2. ASSUME NEW i \in InFlight PROVE Cardinality(InFlight) <= 1
      <4>1. InFlight = {i} BY <2>1 DEF OutboxInv
      <4>2. Cardinality({i}) = 1 BY FS_Singleton
      <4> QED BY <4>1, <4>2
    <3> QED BY <3>1, <3>2
  <2>3. /\ lock \in Workers \cup {None}
        /\ \A w \in Workers : worker[w].pc \in {"dispatch", "sending"} <=> lock = w
        /\ Cardinality(outbox) <= MaxOutbox
    BY <2>1 DEF SavedTypes, LockInv, Holding, OutboxInv
  <2>4. limited \in BOOLEAN BY <2>1 DEF SavedTypes
  <2>5. \A i \in outbox :
          /\ i.key \in Keys /\ i.delivery \in Deliveries /\ i.attempts \in 0..MaxAttempts
          /\ i.delivery = "PENDING" => i.attempts < MaxAttempts
          /\ i.number <= cursor[i.key].events
          /\ \A j \in outbox : Id(i) = Id(j) => i = j
    BY <2>1 DEF SavedTypes, ItemT, OutboxInv, ItemInv
  <2> QED BY <2>2, <2>3, <2>4, <2>5 DEF ATypeOK
<1>2. AlertsInv => ATypeOK BY <1>1
<1> QED BY <1>2, AlertsInvariant, PTL

\* Polling gaps, overlapping runs, retries and kills never repeat a request that Discord
\* may have taken.
THEOREM EventsAreSentOnce == ASpec => []OneMessagePerEvent
<1>1. AlertsInv => OneMessagePerEvent BY DEF AlertsInv, FirstInv, OneMessagePerEvent
<1> QED BY <1>1, AlertsInvariant, PTL

\* No recovery is announced of an incident whose alarm cannot have been posted.
THEOREM RecoveriesArePaired == ASpec => []RecoveryFollowsAlarm
<1>1. AlertsInv => RecoveryFollowsAlarm BY DEF AlertsInv, PairInv
<1> QED BY <1>1, AlertsInvariant, PTL

\* No step of any run drops an unresolved message or rewrites an uncertain or failed one.
THEOREM EvidenceStays == ASpec => EvidenceIsKept
<1> DEFINE Kept1(i) ==
             /\ i.delivery \in {"UNCERTAIN", "FAILED"} => i \in outbox'
             /\ i.delivery \in {"PENDING", "ATTEMPTED"} => \E j \in outbox' : Id(j) = Id(i)
<1>1. ASSUME AlertsInv, [ANext]_aVars, NEW i \in outbox PROVE Kept1(i)
  <2>1. SourceTypes /\ SavedTypes /\ LockInv BY <1>1 DEF AlertsInv
  <2>2. CASE outbox' = outbox BY <2>2
  <2>3. ASSUME NEW w \in Workers, Begin(w) PROVE Kept1(i)
    <3>1. PICK box, due : Begins(w, box, due) BY <2>1, <2>3, BeginStep
    <3>2. /\ box \subseteq outbox'
          /\ i.delivery \in {"UNCERTAIN", "FAILED", "ATTEMPTED"} => i \in box
          /\ i.delivery = "PENDING" => \E b \in box : Carried(i, b)
      BY <3>1 DEF Begins
    <3> QED BY <3>2 DEF Carried
  <2>4. ASSUME NEW w \in Workers, NEW x \in outbox,
               MarkInterrupted(w, x) \/ Attempt(w, x) \/ Answered(w, x)
        PROVE  Kept1(i)
    <3>1. PICK j \in ItemT : ItemStep(w, x, j) BY <2>1, <2>4, ItemSteps
    <3>2. /\ outbox' = (outbox \ {x}) \cup {j} /\ Id(j) = Id(x)
          /\ x.delivery \in {"PENDING", "ATTEMPTED"}
      BY <3>1 DEF ItemStep, Starts, Marks, Settles, Returns, Replaces, InFlight
    <3> QED BY <3>2
  <2>5. (SourceStep \/ Idles \/ \E w \in Workers : Reads(w) \/ Leaves(w) \/ Finishes(w))
          => outbox' = outbox
    BY DEF SourceStep, Idles, Reads, Read, Leaves, Finishes, saved
  <2> QED BY <1>1, <2>1, <2>2, <2>3, <2>4, <2>5, Steps
<1>2. AlertsInv /\ [ANext]_aVars =>
        [\A i \in outbox :
          /\ i.delivery \in {"UNCERTAIN", "FAILED"} => i \in outbox'
          /\ i.delivery \in {"PENDING", "ATTEMPTED"} => \E j \in outbox' : Id(j) = Id(i)]_aVars
  BY <1>1
<1> QED BY <1>2, AlertsInvariant, PTL DEF ASpec, EvidenceIsKept

\* A message goes out only while both the report of the run that sends it and the newest
\* report on record bear it out, however stale the files of an overlapping run are.
THEOREM MessagesAreCurrent == ASpec => MessageIsCurrent
<1>1. ASSUME AlertsInv, [ANext]_aVars, NEW q \in requests' \ requests, q.of.key \in ServiceKeys
      PROVE  /\ Matches(q.of, worker[lock].seen[q.of.key])
             /\ Matches(q.of, cursor[q.of.key].report)
  <2>1. SourceTypes /\ SavedTypes /\ LockInv /\ OutboxInv /\ SendInv BY <1>1 DEF AlertsInv
  <2>2. PICK w \in Workers, i \in InFlight : worker[w].pc = "sending" /\ q.of = Of(i)
    <3>1. CASE SourceStep \/ Idles \/ \E w \in Workers : Reads(w) \/ Leaves(w)
      BY <2>1, <3>1, QuietSteps DEF Quiet
    <3>2. ASSUME NEW w \in Workers, Begin(w) PROVE FALSE
      BY <3>2 DEF Begin
    <3>3. ASSUME NEW w \in Workers, Finishes(w)
          PROVE  \E i \in InFlight : worker[w].pc = "sending" /\ q.of = Of(i)
      BY <3>3, RequestOf DEF Finishes
    <3>4. ASSUME NEW w \in Workers, NEW i \in outbox,
                 MarkInterrupted(w, i) \/ Attempt(w, i) \/ Answered(w, i)
          PROVE  worker[w].pc = "sending" /\ i \in InFlight /\ q.of = Of(i)
      <4>1. PICK j \in ItemT : ItemStep(w, i, j) BY <2>1, <3>4, ItemSteps
      <4> QED BY <4>1, RequestOf DEF ItemStep, Starts, Marks, Settles, Returns
    <3> QED BY <1>1, <2>1, <3>1, <3>2, <3>3, <3>4, Steps
  <2>3. lock = w BY <2>1, <2>2 DEF LockInv, Holding
  <2>4. i \in outbox /\ i \in ItemT BY <2>1 DEF InFlight, SavedTypes
  <2>5. /\ q.of.key = i.key /\ q.of.event = i.event /\ q.of.incident = i.incident
        /\ q.of.era = i.era
    BY <2>2, <2>4, IdAndOfType
  <2>6. Matches(i, worker[w].seen[i.key]) /\ cursor[i.key].report = worker[w].seen[i.key]
    BY <1>1, <2>1, <2>2, <2>3, <2>4, <2>5 DEF SendInv
  <2>7. \A r : Matches(q.of, r) <=> Matches(i, r) BY <2>5 DEF Matches
  <2> QED BY <2>3, <2>5, <2>6, <2>7
<1>2. AlertsInv /\ [ANext]_aVars =>
        [\A q \in requests' \ requests :
          q.of.key \in ServiceKeys => /\ Matches(q.of, worker[lock].seen[q.of.key])
                                      /\ Matches(q.of, cursor[q.of.key].report)]_aVars
  BY <1>1
<1> QED BY <1>2, AlertsInvariant, PTL DEF ASpec, MessageIsCurrent

\* A run that sees the incident of a posted alarm closed puts its recovery into the outbox,
\* although the alarm itself may have left it.
THEOREM RecoveriesAreNotMissed == ASpec => RecoveryIsNotMissed
<1> DEFINE Missed(k) ==
      LET old == cursor[k].report
          new == cursor'[k].report
      IN  (/\ old.status = "ALARM" /\ new.status = "NORMAL" /\ new.closed = old.incident
           /\ \E q \in requests : /\ q.of.key = k /\ q.of.event = "ALARM" /\ q.posted
                                  /\ q.of.incident = old.incident /\ q.of.era = Opened(old))
          => \E i \in outbox' : /\ i.key = k /\ i.event = "NORMAL"
                                /\ i.incident = new.closed
<1>1. ASSUME AlertsInv, [ANext]_aVars, NEW k \in ServiceKeys PROVE Missed(k)
  <2>1. SourceTypes /\ SavedTypes /\ LockInv /\ HistoryInv /\ MissInv BY <1>1 DEF AlertsInv
  <2>2. k \in Keys BY DEF Keys
  <2>3. CASE cursor'[k].report = cursor[k].report BY <2>3
  <2>4. ASSUME NEW w \in Workers, Begin(w), cursor'[k].report # cursor[k].report,
               cursor[k].report.status = "ALARM", cursor'[k].report.status = "NORMAL",
               cursor'[k].report.closed = cursor[k].report.incident,
               NEW q \in requests, q.of.key = k, q.of.event = "ALARM",
               q.of.incident = cursor[k].report.incident, q.of.era = Opened(cursor[k].report)
        PROVE  \E i \in outbox' : /\ i.key = k /\ i.event = "NORMAL"
                                  /\ i.incident = cursor'[k].report.closed
    <3> DEFINE r == worker[w].seen[k]
               c == cursor[k].report
    <3>1. PICK box, due : Begins(w, box, due) BY <2>1, <2>4, BeginStep
    <3>2. Accepted(k, r) /\ cursor'[k].report = r /\ r \in SeenT
      BY <2>1, <2>2, <2>4, <3>1, BeginItems
    <3>3. r.status = "NORMAL" /\ c.status = "ALARM" /\ c.incident = r.closed
      BY <2>4, <3>2
    <3>4. r.closed # 0 /\ Opened(c) = r.era /\ Opened(r) = r.era
      BY <2>1, <3>2, <3>3, ClosedIncident
    <3>5. AlarmHeld(q) BY <2>4 DEF AlarmHeld
    <3>6. Remembered(q) BY <2>1, <3>5, MissForm
    <3>7. AlarmWentOut(k, r, box)
      <4>1. CASE cursor[k].alarm = q.of.incident /\ cursor[k].alarmEra = q.of.era
        <5>1. cursor[k].alarm = r.closed /\ cursor[k].alarmEra = Opened(r)
          BY <2>4, <3>3, <3>4, <4>1
        <5>2. Receipt(k, r) = [alarm |-> r.closed, alarmEra |-> Opened(r)]
          BY <3>4, <5>1 DEF Receipt
        <5> QED BY <3>4, <5>2 DEF AlarmWentOut
      <4>2. ASSUME NEW i \in outbox, Of(i) = q.of, i.delivery \in {"UNCERTAIN", "ATTEMPTED"}
            PROVE  AlarmWentOut(k, r, box)
        <5>1. i \in box BY <3>1, <4>2 DEF Begins
        <5>2. i \in ItemT BY <2>1 DEF SavedTypes
        <5>3. i.key = k /\ i.event = "ALARM" /\ i.incident = r.closed
          BY <2>4, <3>3, <4>2, <5>2, IdAndOfType
        <5> QED BY <4>2, <5>1, <5>3 DEF AlarmWentOut
      <4> QED BY <2>4, <3>6, <4>1, <4>2 DEF Remembered
    <3>8. Event(k, r, box) BY <3>2, <3>3, <3>7 DEF Event, ServiceEvent
    <3>9. k \in due BY <2>2, <3>1, <3>8 DEF Begins
    <3>10. Message(k, r) \in outbox' BY <2>1, <3>1, <3>9, BeginItems
    <3>11. /\ Message(k, r).key = k /\ Message(k, r).event = "NORMAL"
           /\ Message(k, r).incident = r.closed
      BY <2>1, <2>2, <3>2, <3>3, <3>8, MessageFields
    <3> QED BY <3>2, <3>10, <3>11
  <2>5. ASSUME NEW w \in Workers, NEW i \in outbox,
               MarkInterrupted(w, i) \/ Attempt(w, i) \/ Answered(w, i)
        PROVE  cursor'[k].report = cursor[k].report
    <3>1. PICK j \in ItemT : ItemStep(w, i, j) BY <2>1, <2>5, ItemSteps
    <3> QED BY <2>1, <2>2, <3>1, ItemFacts
  <2>6. (SourceStep \/ Idles \/ \E w \in Workers : Reads(w) \/ Leaves(w) \/ Finishes(w))
          => cursor' = cursor
    BY DEF SourceStep, Idles, Reads, Read, Leaves, Finishes, saved
  <2>7. \/ cursor'[k].report = cursor[k].report
        \/ \E w \in Workers : Begin(w)
    BY <1>1, <2>1, <2>5, <2>6, Steps
  <2> QED BY <2>3, <2>4, <2>7
<1>2. AlertsInv /\ [ANext]_aVars => [\A k \in ServiceKeys : Missed(k)]_aVars
  BY <1>1
<1> QED BY <1>2, AlertsInvariant, PTL DEF ASpec, RecoveryIsNotMissed

=============================================================================
