---------------------------- MODULE PbsMonitors ----------------------------
(***************************************************************************)
(* The four mail notifiers around PBS.  Each keeps one receipt in a file   *)
(* of its own, under a lock of its own:                                    *)
(*                                                                         *)
(*   "core"      core-pbs-monitor.py: the daily archives of the core CTs;  *)
(*   "capacity"  pbs-capacity-monitor.py: the free space of the datastore; *)
(*   "db"        notify() of db_pbs_backup.py: the recovery point's status;*)
(*   "test"      notify(test=True): the one test mail an operator asks for.*)
(*                                                                         *)
(* They share no state, so a behaviour follows one of them, chosen by the  *)
(* initial state.  All save ATTEMPTED before they talk to the mail server  *)
(* and the outcome after it; the process may be killed anywhere between,   *)
(* and the server may take a mail whose acceptance never comes back.       *)
(* Whether a retry is due is a free choice: time only delays retries.      *)
(***************************************************************************)
EXTENDS Naturals, FiniteSets, FiniteSetsExt

CONSTANTS
    Cts,            \* the core containers
    Manual,         \* those of them with a protected manual baseline
    Inventories,    \* the archive lists PBS may return
    Available,      \* the free space PBS may report, in units of bytes
    Total,          \* the size of the datastore
    WarningBytes, CriticalBytes,
    MaxSequence,    \* bound: alerts a monitor numbers
    MaxCounted      \* bound: attempts at one receipt of notify(), which sets none

VARIABLES
    mon,            \* which notifier this behaviour follows
    receipt,        \* its file: status, event, sequence, delivery, attempts
    report,         \* "core": last_observation of its file
    mailer,         \* where the process is between its two saves
    accepted,       \* history: mails the server took for the receipt
    refusals,       \* history: submissions refused for the receipt
    seen            \* "core": the last inventory PBS did return

monitorVars == <<mon, receipt, report, mailer, accepted, refusals, seen>>

MaxMailAttempts == 3

Nothing == [status |-> "none", event |-> "none", sequence |-> 0,
            delivery |-> "none", attempts |-> 0]

NoPoint == 0
NoPoints == [c \in Cts |-> NoPoint]
NoReport == [status |-> "none", due |-> FALSE, evidence |-> "UNAVAILABLE",
             points |-> NoPoints]

-----------------------------------------------------------------------------
(***************************************************************************)
(* inspect(): what the archive list says.  A row is known by its time: 1   *)
(* the manual baseline's, 2 before today's window, 3 inside it, 4 in the   *)
(* future.  Row values: "absent", "good", "bad" (metadata that do not      *)
(* match), and at time 1 "protected" for a good protected row.             *)
(***************************************************************************)
RowTimes == 1 .. 4
Baseline == 1
Window == 3
Present == 3    \* the newest time that is not in the future

RowValid(inv, c, t) == inv[c][t] \in {"good", "protected"} /\ t <= Present

LastValidPoint(inv, c) ==
    LET valid == {t \in RowTimes : RowValid(inv, c, t)}
    IN  IF valid = {} THEN NoPoint ELSE Max(valid)

BaselineMissing(inv) ==
    {c \in Manual : inv[c][Baseline] # "protected"}

\* The rows the daily schedule is judged by: the manual baseline is not one.
Scheduled(inv, c) ==
    {t \in RowTimes : inv[c][t] # "absent" /\ ~(c \in Manual /\ t = Baseline)}

Failing(inv, c) ==
    LET rows == Scheduled(inv, c)
    IN  \/ rows = {}
        \/ ~RowValid(inv, c, Max(rows))
        \/ Max(rows) < Window

Inspect(inv, due, late) ==
    LET failures == IF due THEN {c \in Cts : Failing(inv, c)} ELSE {}
    IN  [status |-> IF BaselineMissing(inv) # {} \/ (failures # {} /\ late)
                    THEN "FAILED"
                    ELSE IF failures # {} THEN "PENDING" ELSE "HEALTHY",
         due |-> due,
         evidence |-> "OBSERVED",
         points |-> [c \in Cts |-> LastValidPoint(inv, c)]]

\* record_observation(query_ok=False): the points of the last inventory are
\* shown as CACHED unless the clock is before that inventory.
Unavailable(skewed) ==
    LET usable == report.evidence # "UNAVAILABLE" /\ ~skewed
    IN  [status |-> "FAILED", due |-> FALSE,
         evidence |-> IF usable THEN "CACHED" ELSE "UNAVAILABLE",
         points |-> IF usable THEN report.points ELSE NoPoints]

\* pbs-capacity-probe.py: counters() refuses numbers that cannot be;
Consistent(avail) == avail <= Total

\* the thresholds are bytes still available.
CapacityStatus(avail) ==
    IF ~Consistent(avail) \/ WarningBytes >= Total THEN "ERROR"
    ELSE IF avail <= CriticalBytes THEN "CRITICAL"
    ELSE IF avail <= WarningBytes THEN "WARNING"
    ELSE "OK"

-----------------------------------------------------------------------------
MonitorsInit ==
    /\ mon \in {"core", "capacity", "db", "test"}
    /\ receipt = Nothing
    /\ report = NoReport
    /\ mailer = "idle"
    /\ accepted = 0 /\ refusals = 0
    /\ seen = {}

\* The receipt of a status of its own: nothing has been sent for it yet.
Numbered(status, event, delivery) ==
    [status |-> status, event |-> event, sequence |-> receipt.sequence + 1,
     delivery |-> delivery, attempts |-> 0]

\* The histories are of one receipt: another number starts them over.
Recount(r) ==
    IF r.sequence = receipt.sequence THEN UNCHANGED <<accepted, refusals>>
    ELSE accepted' = 0 /\ refusals' = 0

\* A save that sends nothing.
Settle(r) ==
    /\ receipt' = r
    /\ Recount(r)
    /\ UNCHANGED mailer

\* The save before SMTP: the attempt is on disk before the server hears of it.
BeginSend(r) ==
    /\ receipt' = [r EXCEPT !.attempts = @ + 1, !.delivery = "ATTEMPTED"]
    /\ Recount(r)
    /\ mailer' = "submitting"

\* MUTANT of Unsent: a receipt left at ATTEMPTED counts as not sent.
UnsentOrAttempted(due) ==
    /\ receipt.delivery \in {"NOT_SENT", "ATTEMPTED"}
    /\ receipt.attempts < MaxMailAttempts
    /\ due

Unsent(due) ==
    receipt.delivery = "NOT_SENT" /\ receipt.attempts < MaxMailAttempts /\ due

-----------------------------------------------------------------------------
\* core-pbs-monitor.py run()
CoreTransition(r, due) ==
    IF r.status = receipt.status
    THEN IF Unsent(due) THEN BeginSend(receipt) ELSE Settle(receipt)
    ELSE /\ receipt.sequence < MaxSequence
         /\ IF receipt.status = "none" /\ r.status = "HEALTHY"
            THEN Settle(Numbered("HEALTHY", "BASELINE", "BASELINE"))
            ELSE BeginSend(Numbered(r.status,
                     IF r.status = "FAILED" THEN "FAILED" ELSE "RECOVERED",
                     "ATTEMPTED"))

\* One check: the observation is recorded whatever comes of it.  Before the
\* day's deadline a missing archive is PENDING, and the receipt stays.
CoreCheck ==
    /\ mon = "core" /\ mailer = "idle"
    /\ \E due \in BOOLEAN :
       \/ \E inv \in Inventories, first, late \in BOOLEAN :
            LET r == Inspect(inv, first, late)
            IN  /\ report' = r
                /\ seen' = {inv}
                /\ IF r.status = "PENDING" THEN Settle(receipt)
                   ELSE CoreTransition(r, due)
       \/ \E skewed \in BOOLEAN :
            LET r == Unavailable(skewed)
            IN  /\ report' = r
                /\ UNCHANGED seen
                /\ CoreTransition(r, due)
    /\ UNCHANGED mon

\* transition() of pbs-capacity-monitor.py: worse, back from ERROR, and back
\* to OK are mailed; a fall from CRITICAL to WARNING only renumbers.
Severity(status) ==
    CASE status = "OK" -> 0 [] status = "WARNING" -> 1
      [] status = "CRITICAL" -> 2 [] status = "ERROR" -> 3

CapacityEvent(old, new) ==
    IF new = "OK" /\ old # "none" THEN "RECOVERED"
    ELSE IF old \in {"none", "ERROR"} \/ Severity(new) > Severity(old) THEN new
    ELSE "none"

\* A retry that is due wins over a fall without an event: the receipt keeps
\* its old status, and the mail carries the old event with the new report.
CapacityCheck ==
    /\ mon = "capacity" /\ mailer = "idle"
    /\ \E new \in {CapacityStatus(a) : a \in Available} \cup {"ERROR"},
          due \in BOOLEAN :
         LET old == receipt.status
             event == IF new = old THEN "none" ELSE CapacityEvent(old, new)
             baseline == old = "none" /\ new = "OK"
         IN  /\ new # old => receipt.sequence < MaxSequence
             /\ IF event # "none" /\ ~baseline
                THEN BeginSend(Numbered(new, event, "ATTEMPTED"))
                ELSE IF Unsent(due) THEN BeginSend(receipt)
                ELSE Settle(CASE new = old -> receipt
                              [] baseline -> Numbered(new, "BASELINE", "BASELINE")
                              [] OTHER -> Numbered(new, "STATUS_CHANGED", "NO_ALERT"))
    /\ UNCHANGED <<mon, report, seen>>

\* notify(): the receipt is keyed by the report's status and reason.
NotifyNew(key) ==
    /\ receipt.sequence < MaxSequence
    /\ BeginSend(Numbered(key, key, "ATTEMPTED"))

\* A mail that was refused waits until it is due; one that found mail switched
\* off is tried again at once, as often as it takes: no limit counts these.
NotifyAgain(due) ==
    /\ receipt.delivery = "DISABLED" \/ (receipt.delivery = "NOT_SENT" /\ due)
    /\ receipt.attempts < MaxCounted
    /\ BeginSend(receipt)

DbNotify ==
    /\ mon = "db" /\ mailer = "idle"
    /\ \E key \in {"HEALTHY", "WARNING", "FAILED"}, due \in BOOLEAN :
         \/ /\ key = "HEALTHY"
            /\ receipt.status = "none"
            /\ Settle(Numbered("HEALTHY", "BASELINE", "BASELINE"))
         \/ /\ key # receipt.status
            /\ ~(key = "HEALTHY" /\ receipt.status = "none")
            /\ NotifyNew(key)
         \/ /\ key = receipt.status
            /\ NotifyAgain(due)
    /\ UNCHANGED <<mon, report, seen>>

\* notify(test=True): one key for ever, and no second attempt at it.
TestMail ==
    /\ mon = "test" /\ mailer = "idle"
    /\ receipt.status = "none"
    /\ NotifyNew("one-test")
    /\ UNCHANGED <<mon, report, seen>>

-----------------------------------------------------------------------------
\* The SMTP dialogue.  Settings the sender cannot use stop it before the
\* dialogue: core and capacity count that as a refusal, notify() lets the
\* error escape and leaves ATTEMPTED; mail switched off since notify() looked
\* is DISABLED.
Submit ==
    /\ mailer = "submitting"
    /\ \/ /\ mailer' = "refused"
          /\ refusals' = refusals + 1 /\ UNCHANGED accepted
       \/ /\ mailer' = "acknowledged"
          /\ accepted' = accepted + 1 /\ UNCHANGED refusals
       \/ /\ mailer' = "unknown"
          /\ accepted' \in {accepted, accepted + 1} /\ UNCHANGED refusals
       \/ /\ mon \in {"db", "test"}
          /\ mailer' \in {"disabled", "idle"}
          /\ UNCHANGED <<accepted, refusals>>
    /\ UNCHANGED <<mon, receipt, report, seen>>

Outcome ==
    CASE mailer = "acknowledged" -> "SENT"
      [] mailer = "unknown" -> "UNCERTAIN"
      [] mailer = "disabled" -> "DISABLED"
      [] mailer = "refused" ->
           IF mon = "test" \/ receipt.attempts >= MaxMailAttempts
           THEN "RETRIES_EXHAUSTED" ELSE "NOT_SENT"

SaveOutcome ==
    /\ mailer \in {"acknowledged", "unknown", "disabled", "refused"}
    /\ receipt' = [receipt EXCEPT !.delivery = Outcome]
    /\ mailer' = "idle"
    /\ UNCHANGED <<mon, report, accepted, refusals, seen>>

\* Killed, or unable to save, between the two saves.
MonitorKilled ==
    /\ mailer # "idle"
    /\ mailer' = "idle"
    /\ UNCHANGED <<mon, receipt, report, accepted, refusals, seen>>

MonitorsNext ==
    \/ CoreCheck
    \/ CapacityCheck
    \/ DbNotify
    \/ TestMail
    \/ Submit
    \/ SaveOutcome
    \/ MonitorKilled

MonitorsSpec == MonitorsInit /\ [][MonitorsNext]_monitorVars

-----------------------------------------------------------------------------
(***************************************************************************)
(* Whatever is refused, unanswered, switched off or killed between the two *)
(* saves of core-pbs-monitor.py, pbs-capacity-monitor.py and notify(): the *)
(* server takes at most one mail for a receipt, SENT stands only for a     *)
(* mail it took, and every state the notifier may send again from, or has  *)
(* given up in, for a mail it did not take.  A receipt is refused three    *)
(* times at most, also when notify() finds mail switched off in between,   *)
(* which it retries without a limit.                                       *)
(***************************************************************************)
OneMailPerReceipt ==
    /\ accepted <= 1
    /\ refusals <= MaxMailAttempts
    /\ receipt.delivery = "SENT" => accepted = 1
    /\ receipt.delivery \notin {"SENT", "ATTEMPTED", "UNCERTAIN"} => accepted = 0

\* The core monitor calls the archives HEALTHY only when every protected
\* baseline is there and, once the schedule is due, the newest archive of
\* every container is valid and of today's window; and a point it shows,
\* observed or cached over failed queries, is the newest valid archive of the
\* last inventory PBS did return.
CoreReportIsTrue ==
    \A inv \in seen : \A c \in Cts :
      LET valid == {t \in RowTimes : RowValid(inv, c, t)}
          point == report.points[c]
      IN  /\ report.evidence # "UNAVAILABLE" =>
               IF valid = {} THEN point = NoPoint
               ELSE point \in valid /\ \A t \in valid : t <= point
          /\ report.status = "HEALTHY" =>
               /\ c \in Manual => inv[c][Baseline] = "protected"
               /\ report.due =>
                    /\ point >= Window
                    /\ \A t \in RowTimes : t > point => inv[c][t] = "absent"

\* What the operators are told about PBS is so: one mail for each receipt,
\* with a delivery state that is true of it, and a core report that the
\* archives bear out (the two formulas above).
MonitorsTellTheTruth ==
    OneMailPerReceipt /\ CoreReportIsTrue
=============================================================================
