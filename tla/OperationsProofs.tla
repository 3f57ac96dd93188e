-------------------------- MODULE OperationsProofs --------------------------
(***************************************************************************)
(* The operator's jobs that share no state, each for every value of its    *)
(* constants: the SDN program's ownership record, the waits for readiness, *)
(* the mail notifiers around PBS, the import of health results and the     *)
(* firewall's rule lists.                                                  *)
(***************************************************************************)
EXTENDS ProductionSdn, StartupReadiness, PbsMonitors, HealthTransport, FirewallPlan, TLAPS

-----------------------------------------------------------------------------
(* production-sdn.py.                                                      *)

SdnTypes ==
    /\ owner \in Nodes \cup {NoOwner} /\ reload \in {"none", "running"}
    /\ staged \in BOOLEAN /\ running \in BOOLEAN
    /\ sdnRun \in [pc : {"idle", "locked", "claimed", "staged", "submitting", "waiting", "failed"},
                   remove : BOOLEAN, claimed : BOOLEAN, submitted : BOOLEAN]

\* Past its claim a run has the record; while it may still take its claim back
\* nothing of the zone runs; once it waits, what runs is what it was started for.
SdnInv ==
    /\ OwnerRecordCovers
    /\ sdnRun.pc = "locked" => (sdnRun.remove => owner # NoOwner) /\ ~sdnRun.claimed
    /\ sdnRun.pc \in {"claimed", "staged", "submitting", "waiting"} => owner # NoOwner
    /\ sdnRun.claimed /\ ~sdnRun.submitted => ~running /\ reload = "none"
    /\ sdnRun.pc \in {"submitting", "waiting"} => sdnRun.submitted
    /\ sdnRun.pc \in {"staged", "submitting"} => staged = ~sdnRun.remove
    /\ sdnRun.pc = "waiting" => running = ~sdnRun.remove

LEMMA SdnStep == SdnTypes /\ SdnInv /\ [SdnNext]_<<sdnVars, vms>> => SdnTypes' /\ SdnInv'
<1> SUFFICES ASSUME SdnTypes, SdnInv, [SdnNext]_<<sdnVars, vms>> PROVE SdnTypes' /\ SdnInv' OBVIOUS
<1> USE SdnAssumption DEF SdnTypes, SdnInv, OwnerRecordCovers, SdnIdle
<1>1. ASSUME NEW b \in BOOLEAN, SdnStart(b) PROVE SdnTypes' /\ SdnInv' BY <1>1 DEF SdnStart
<1>2. ASSUME NEW b \in BOOLEAN, SdnSubmit(b) PROVE SdnTypes' /\ SdnInv' BY <1>2 DEF SdnSubmit
<1>3. ASSUME NEW b \in BOOLEAN, SdnHandle(b) PROVE SdnTypes' /\ SdnInv' BY <1>3 DEF SdnHandle
<1>4. CASE SdnClaim BY <1>4 DEF SdnClaim
<1>5. CASE SdnStage BY <1>5 DEF SdnStage
<1>6. CASE SdnBaseline BY <1>6 DEF SdnBaseline
<1>7. CASE SdnSettle BY <1>7 DEF SdnSettle
<1>8. CASE SdnRaise BY <1>8 DEF SdnRaise
<1>9. CASE SdnKilled BY <1>9 DEF SdnKilled
<1>10. CASE ReloadEnds BY <1>10 DEF ReloadEnds
<1>11. CASE UNCHANGED sdnVars BY <1>11 DEF sdnVars
<1> HIDE DEF SdnTypes, SdnInv
<1> QED BY <1>1, <1>2, <1>3, <1>4, <1>5, <1>6, <1>7, <1>8, <1>9, <1>10, <1>11 DEF SdnNext

\* However runs of production-sdn.py fail, are killed or lose an answer: a zone
\* that runs, or a reload that may be changing it, has its ownership record.
THEOREM ZonesAreOwned == SdnSpec => []OwnerRecordCovers
<1>1. SdnInit => SdnTypes /\ SdnInv
  <2> SUFFICES ASSUME SdnInit PROVE SdnTypes /\ SdnInv OBVIOUS
  <2>1. SdnTypes BY DEF SdnInit, SdnTypes, SdnIdle
  <2>2. SdnInv BY DEF SdnInit, SdnInv, OwnerRecordCovers, SdnIdle
  <2> QED BY <2>1, <2>2
<1>2. SdnTypes /\ SdnInv => OwnerRecordCovers BY DEF SdnInv
<1> QED BY <1>1, <1>2, SdnStep, PTL DEF SdnSpec

-----------------------------------------------------------------------------
(* The waits of production-network.py.                                     *)

LEMMA FirstFailed ==
    ASSUME NEW S \in SUBSET (1 .. 4), S # {}
    PROVE  \E k \in S : \A l \in S : k <= l
<1>1. CASE 1 \in S BY <1>1
<1>2. CASE 1 \notin S /\ 2 \in S BY <1>2
<1>3. CASE 1 \notin S /\ 2 \notin S /\ 3 \in S BY <1>3
<1>4. CASE 1 \notin S /\ 2 \notin S /\ 3 \notin S
  <2>1. \A l \in S : l = 4 BY <1>4
  <2>2. PICK k \in S : TRUE OBVIOUS
  <2>3. \A l \in S : k <= l BY <2>1
  <2> QED BY <2>3
<1> QED BY <1>1, <1>2, <1>3, <1>4

\* The first check that does not pass decides, and all pass for "ready".
LEMMA ReadinessDecides ==
    ASSUME NEW w
    PROVE  /\ ReconcileReadiness(w) = "ready" =>
                /\ ClusterCheck(w.cluster) = "ready" /\ CheckLinks(w.links) = "ready"
                /\ ObservedMark(w) = "ready" /\ GuestFirewallCheck(w.firewall) = "ready"
           /\ ClusterCheck(w.cluster) = "refused" => ReconcileReadiness(w) = "refused"
<1> DEFINE checks == <<ClusterCheck(w.cluster), CheckLinks(w.links), ObservedMark(w),
                       GuestFirewallCheck(w.firewall)>>
           failed == {k \in DOMAIN checks : checks[k] # "ready"}
           first == CHOOSE k \in failed : \A l \in failed : k <= l
<1>1. ReconcileReadiness(w) = IF failed = {} THEN "ready" ELSE checks[first]
  BY DEF ReconcileReadiness
<1>2. /\ DOMAIN checks = 1 .. 4 /\ checks[1] = ClusterCheck(w.cluster)
      /\ checks[2] = CheckLinks(w.links) /\ checks[3] = ObservedMark(w)
      /\ checks[4] = GuestFirewallCheck(w.firewall)
  OBVIOUS
<1> HIDE DEF checks
<1>3. failed \in SUBSET (1 .. 4) /\ \A k \in 1 .. 4 : k \in failed <=> checks[k] # "ready"
  BY <1>2
<1> HIDE DEF failed
<1>4. failed # {} => first \in failed /\ \A l \in failed : first <= l
  BY <1>3, FirstFailed
<1> HIDE DEF first
<1>5. ReconcileReadiness(w) = "ready" => failed = {} BY <1>1, <1>3, <1>4
<1>6. checks[1] = "refused" => 1 \in failed /\ first = 1
  <2>1. checks[1] = "refused" => 1 \in failed BY <1>3
  <2>2. 1 \in failed => first \in 1 .. 4 /\ first <= 1 BY <1>3, <1>4
  <2> QED BY <2>1, <2>2
<1> QED BY <1>1, <1>2, <1>3, <1>5, <1>6

WorldOK ==
    /\ world \in [cluster : Clusters \cup {FirstWorld.cluster}, links : Links \cup {"missing"},
                  iptables : Layouts \cup {NoMarks}, ip6tables : Layouts \cup {NoMarks},
                  firewall : Firewalls \cup {"noChain"}]

WorldFields ==
    /\ world.cluster.name \in {"right", "wrong", "absent"} /\ world.cluster.quorate \in BOOLEAN
    /\ world.links \in {"missing", "noPeer", "noRoute", "wrong", "right"}
    /\ world.iptables \in [accepted : SUBSET Marks, setters : SUBSET Marks]
    /\ world.ip6tables \in [accepted : SUBSET Marks, setters : SUBSET Marks]
    /\ world.firewall \in {"disabled", "noChain", "right", "noGuests"}

LEMMA WorldHasFields == WorldOK => WorldFields
<1> SUFFICES ASSUME WorldOK PROVE WorldFields OBVIOUS
<1>1. /\ world.cluster \in Clusters \cup {FirstWorld.cluster} /\ world.links \in Links \cup {"missing"}
      /\ world.iptables \in Layouts \cup {NoMarks} /\ world.ip6tables \in Layouts \cup {NoMarks}
      /\ world.firewall \in Firewalls \cup {"noChain"}
  BY DEF WorldOK
<1>2. FirstWorld.cluster.name = "absent" /\ FirstWorld.cluster.quorate = FALSE
  BY DEF FirstWorld
<1>3. NoMarks \in [accepted : SUBSET Marks, setters : SUBSET Marks] BY DEF NoMarks
<1> QED BY <1>1, <1>2, <1>3, ReadinessAssumption DEF WorldFields

\* A reading is "ready" only when it is complete, and what contradicts the
\* configuration is refused.
LEMMA ReadingIsRight ==
    ASSUME WorldFields, NEW mode \in {"startup", "mark"}
    PROVE  /\ Reading(mode, world) = "ready" => Proven(mode, world)
           /\ Contradicts(mode, world) => Reading(mode, world) = "refused"
<1>1. ObservedMark(world) = "ready" => MarkComplete(world)
  <2> SUFFICES ASSUME ObservedMark(world) = "ready" PROVE MarkComplete(world) OBVIOUS
  <2>1. AcceptMark(world.iptables, world.ip6tables) = "ready" /\ world.iptables.accepted = {ExpectedMark}
    BY DEF ObservedMark
  <2>2. /\ ParseNetbirdAcceptMark(world.iptables) = "ready"
        /\ ParseNetbirdAcceptMark(world.ip6tables) = "ready"
        /\ world.ip6tables.accepted = {ExpectedMark}
    BY <2>1 DEF AcceptMark
  <2>3. \A y : ParseNetbirdAcceptMark(y) = "ready" => y.accepted = y.setters
    BY DEF ParseNetbirdAcceptMark
  <2> QED BY <2>1, <2>2, <2>3 DEF MarkComplete, Whole
<1>2. ClusterCheck(world.cluster) = "ready" =>
        world.cluster.name = "right" /\ world.cluster.nodes = Members /\ world.cluster.quorate
  BY DEF ClusterCheck, WorldFields
<1>3. CheckLinks(world.links) = "ready" => world.links = "right"
  BY DEF CheckLinks, WorldFields
<1>4. GuestFirewallCheck(world.firewall) = "ready" => world.firewall \in {"right", "noGuests"}
  BY DEF GuestFirewallCheck, WorldFields
<1>5. ASSUME world.cluster.name = "wrong" \/ world.cluster.nodes \ Members # {}
      PROVE  ClusterCheck(world.cluster) = "refused"
  BY <1>5, Zenon DEF ClusterCheck
<1>6. ASSUME MarkContradicts(world) PROVE ObservedMark(world) = "refused"
  <2> DEFINE v4 == world.iptables  v6 == world.ip6tables
  <2>1. \A y : Foul(y) => ParseNetbirdAcceptMark(y) = "refused"
    BY DEF Foul, ParseNetbirdAcceptMark
  <2>2. CASE Foul(v4) BY <2>1, <2>2 DEF ObservedMark, AcceptMark
  <2>3. ASSUME NEW m \in v4.accepted, Whole(v4, m), ~Foul(v4)
        PROVE  ParseNetbirdAcceptMark(v4) # "absent"
    BY <2>3 DEF Whole, ParseNetbirdAcceptMark
  <2>4. \A y : ParseNetbirdAcceptMark(y) \in {"refused", "absent", "ready"}
    BY DEF ParseNetbirdAcceptMark
  <2>5. ASSUME NEW m \in v4.accepted, Whole(v4, m), Foul(v6) PROVE ObservedMark(world) = "refused"
    BY <2>1, <2>2, <2>3, <2>4, <2>5 DEF ObservedMark, AcceptMark
  <2>6. ASSUME NEW m \in v4.accepted, Whole(v4, m), NEW n \in v6.accepted, Whole(v6, n),
               m # ExpectedMark \/ n # ExpectedMark
        PROVE  ObservedMark(world) = "refused"
    <3>1. v4.accepted = {m} /\ v6.accepted = {n} BY <2>6 DEF Whole
    <3>2. v4.accepted # {ExpectedMark} \/ v6.accepted # {ExpectedMark} BY <2>6, <3>1
    <3>3. ParseNetbirdAcceptMark(v6) # "absent" BY <2>6 DEF Whole, ParseNetbirdAcceptMark
    <3>4. ParseNetbirdAcceptMark(v4) # "absent" BY <2>6 DEF Whole, ParseNetbirdAcceptMark
    <3> QED BY <2>4, <3>2, <3>3, <3>4 DEF ObservedMark, AcceptMark
  <2> QED BY <1>6, <2>2, <2>5, <2>6 DEF MarkContradicts
<1>7. CASE mode = "startup"
  BY <1>1, <1>2, <1>3, <1>4, <1>5, <1>7, ReadinessDecides
     DEF Reading, Proven, Complete, Contradicts
<1>8. CASE mode = "mark"
  BY <1>1, <1>6, <1>8 DEF Reading, Proven, Contradicts
<1> QED BY <1>7, <1>8

WaiterOK ==
    waiter \in [mode : {"none", "startup", "mark"}, attempts : Nat, consecutive : Nat,
                outcome : {"none", "waiting", "ready", "refused", "expired"},
                streak : Nat, seen : BOOLEAN]

\* Readings in a row are counted only while they are proven.
ReadinessInv ==
    /\ WorldOK /\ WaiterOK /\ ReadinessIsProven
    /\ waiter.outcome # "none" => waiter.mode # "none"
    /\ waiter.consecutive <= waiter.streak

LEMMA ReadinessStep == ReadinessInv /\ [ReadinessNext]_readinessVars => ReadinessInv'
<1> SUFFICES ASSUME ReadinessInv, [ReadinessNext]_readinessVars PROVE ReadinessInv' OBVIOUS
<1>1. WorldFields BY WorldHasFields DEF ReadinessInv
<1>2. CASE \E m \in {"startup", "mark"} : BeginWait(m)
  <2>1. PICK m \in {"startup", "mark"} :
           waiter' = [NoWait EXCEPT !.mode = m, !.outcome = "waiting"] /\ UNCHANGED world
    BY <1>2 DEF BeginWait
  <2>2. WorldOK' BY <2>1 DEF ReadinessInv, WorldOK
  <2>3. /\ WaiterOK' /\ waiter'.mode = m /\ waiter'.outcome = "waiting" /\ ~waiter'.seen
        /\ waiter'.consecutive = 0 /\ waiter'.streak = 0
    BY <2>1 DEF NoWait, WaiterOK
  <2> QED BY <2>2, <2>3 DEF ReadinessInv, ReadinessIsProven
<1>3. CASE WorldChanges
  <2>1. WorldOK' BY <1>3 DEF WorldChanges, ReadinessInv, WorldOK
  <2>2. /\ waiter' \in [mode : {"none", "startup", "mark"}, attempts : Nat, consecutive : Nat,
                outcome : {"none", "waiting", "ready", "refused", "expired"},
                streak : Nat, seen : BOOLEAN]
        /\ waiter'.outcome = waiter.outcome /\ waiter'.outcome # "ready" /\ ~waiter'.seen
        /\ waiter'.mode = waiter.mode
        /\ waiter'.consecutive = waiter.consecutive /\ waiter'.streak = waiter.streak
    BY <1>3 DEF WorldChanges, ReadinessInv, WaiterOK
  <2> QED BY <2>1, <2>2 DEF ReadinessInv, WaiterOK, ReadinessIsProven
<1>4. CASE Attempt
  <2> DEFINE reading == Reading(waiter.mode, world)
             row == IF reading = "ready" THEN waiter.consecutive + 1 ELSE 0
             streak == IF Proven(waiter.mode, world) THEN waiter.streak + 1 ELSE 0
             outcome == CASE reading = "refused" -> "refused"
                          [] row = Needed(waiter.mode) -> "ready"
                          [] OTHER -> "waiting"
  <2>1. /\ waiter.outcome = "waiting" /\ UNCHANGED world
        /\ waiter' = [waiter EXCEPT
              !.attempts = @ + 1, !.consecutive = row, !.seen = TRUE, !.streak = streak,
              !.outcome = outcome]
    BY <1>4 DEF Attempt
  <2>2. waiter.mode \in {"startup", "mark"} BY <2>1 DEF ReadinessInv, WaiterOK
  <2>3. /\ reading = "ready" => Proven(waiter.mode, world)
        /\ Contradicts(waiter.mode, world) => reading = "refused"
    BY <1>1, <2>2, ReadingIsRight
  <2>4. row \in Nat /\ streak \in Nat /\ row <= streak
    BY <2>3 DEF ReadinessInv, WaiterOK
  <2> HIDE DEF reading, row, streak
  <2>51. /\ outcome \in {"refused", "ready", "waiting"}
         /\ outcome = "ready" => row = Needed(waiter.mode)
         /\ outcome = "waiting" => reading # "refused"
    OBVIOUS
  <2> HIDE DEF outcome
  <2>5. /\ waiter'.mode = waiter.mode /\ waiter'.consecutive = row /\ waiter'.streak = streak
        /\ waiter'.outcome = outcome
    BY <2>1 DEF ReadinessInv, WaiterOK
  <2>6. WaiterOK'
    <3>1. waiter \in [mode : {"none", "startup", "mark"}, attempts : Nat, consecutive : Nat,
                outcome : {"none", "waiting", "ready", "refused", "expired"},
                streak : Nat, seen : BOOLEAN] /\ waiter.attempts + 1 \in Nat
      BY DEF ReadinessInv, WaiterOK
    <3>2. outcome \in {"none", "waiting", "ready", "refused", "expired"} BY <2>51
    <3> QED BY <2>1, <2>4, <3>1, <3>2 DEF WaiterOK
  <2>7. Contradicts(waiter'.mode, world') <=> Contradicts(waiter.mode, world)
    BY <2>1, <2>5
  <2>8. ReadinessIsProven' BY <2>3, <2>4, <2>5, <2>51, <2>7 DEF ReadinessIsProven, Needed
  <2> QED BY <2>1, <2>2, <2>4, <2>5, <2>6, <2>8 DEF ReadinessInv, WorldOK
<1>5. CASE WaitExpires
  <2>1. waiter' = [waiter EXCEPT !.outcome = "expired"] /\ UNCHANGED world /\ waiter.outcome = "waiting"
    BY <1>5 DEF WaitExpires
  <2>2. WorldOK' BY <2>1 DEF ReadinessInv, WorldOK
  <2>3. /\ WaiterOK' /\ waiter'.mode = waiter.mode /\ waiter'.outcome = "expired"
        /\ waiter'.consecutive = waiter.consecutive /\ waiter'.streak = waiter.streak
    BY <2>1 DEF ReadinessInv, WaiterOK
  <2> QED BY <2>1, <2>2, <2>3 DEF ReadinessInv, ReadinessIsProven
<1>6. CASE WaitEnds
  <2>1. WorldOK' BY <1>6 DEF WaitEnds, WorldOK, FirstWorld
  <2>2. /\ WaiterOK' /\ waiter'.outcome = "none" /\ waiter'.consecutive = 0 /\ waiter'.streak = 0
    BY <1>6 DEF WaitEnds, WaiterOK, NoWait
  <2> QED BY <2>1, <2>2 DEF ReadinessInv, ReadinessIsProven
<1>7. CASE UNCHANGED readinessVars
  BY <1>7 DEF readinessVars, ReadinessInv, WorldOK, WaiterOK, ReadinessIsProven, Contradicts
<1> QED BY <1>2, <1>3, <1>4, <1>5, <1>6, <1>7 DEF ReadinessNext

\* A wait of production-network.py ends well only on complete readings, the mark
\* twice in a row and in both rule families; at boot it goes on only while no
\* other cluster's identity is read, after a NetBird restart only while no foul or
\* unrecorded mark is, in ip6tables once iptables has its mark.
THEOREM ReadinessHolds == ReadinessSpec => []ReadinessIsProven
<1>1. ReadinessInit => ReadinessInv
  <2> SUFFICES ASSUME ReadinessInit PROVE ReadinessInv OBVIOUS
  <2>1. WorldOK BY DEF ReadinessInit, WorldOK, FirstWorld
  <2> QED BY <2>1 DEF ReadinessInit, ReadinessInv, WaiterOK, NoWait, ReadinessIsProven
<1>2. ReadinessInv => ReadinessIsProven BY DEF ReadinessInv
<1> QED BY <1>1, <1>2, ReadinessStep, PTL DEF ReadinessSpec

-----------------------------------------------------------------------------
(* The notifiers around PBS.                                               *)

LEMMA NewestRow ==
    ASSUME NEW S \in SUBSET RowTimes, S # {}
    PROVE  Max(S) \in S /\ \A t \in S : t <= Max(S)
<1>1. \E x \in S : \A y \in S : x >= y
  <2> USE DEF RowTimes
  <2>1. CASE 4 \in S BY <2>1
  <2>2. CASE 4 \notin S /\ 3 \in S BY <2>2
  <2>3. CASE 4 \notin S /\ 3 \notin S /\ 2 \in S BY <2>3
  <2>4. CASE 4 \notin S /\ 3 \notin S /\ 2 \notin S
    <3>1. \A y \in S : y = 1 BY <2>4
    <3>2. PICK x \in S : TRUE OBVIOUS
    <3>3. \A y \in S : x >= y BY <3>1
    <3> QED BY <3>3
  <2> QED BY <2>1, <2>2, <2>3, <2>4
<1>2. Max(S) \in S /\ \A y \in S : Max(S) >= y BY <1>1 DEF Max
<1> QED BY <1>2 DEF RowTimes

\* CoreReportIsTrue of one report, inventory and container.
TrueOf(rep, inv, c) ==
    LET valid == {t \in RowTimes : RowValid(inv, c, t)}
        point == rep.points[c]
    IN  /\ rep.evidence # "UNAVAILABLE" =>
             IF valid = {} THEN point = NoPoint
             ELSE point \in valid /\ \A t \in valid : t <= point
        /\ rep.status = "HEALTHY" =>
             /\ c \in Manual => inv[c][Baseline] = "protected"
             /\ rep.due =>
                  /\ point >= Window
                  /\ \A t \in RowTimes : t > point => inv[c][t] = "absent"

\* What inspect() says of an inventory is so.
LEMMA InspectIsTrue ==
    ASSUME NEW inv, NEW due \in BOOLEAN, NEW late \in BOOLEAN, NEW c \in Cts, NEW rep,
           rep = Inspect(inv, due, late)
    PROVE  TrueOf(rep, inv, c)
<1> DEFINE valid == {t \in RowTimes : RowValid(inv, c, t)}
           point == rep.points[c]
           rows == Scheduled(inv, c)
           failures == IF due THEN {k \in Cts : Failing(inv, k)} ELSE {}
<1>1. point = IF valid = {} THEN NoPoint ELSE Max(valid)
  BY DEF Inspect, LastValidPoint
<1>2. /\ rep.status = IF BaselineMissing(inv) # {} \/ (failures # {} /\ late) THEN "FAILED"
                          ELSE IF failures # {} THEN "PENDING" ELSE "HEALTHY"
      /\ rep.due = due
  BY DEF Inspect
<1> HIDE DEF point
<1>3. valid \in SUBSET RowTimes /\ \A t \in RowTimes : t \in valid <=> RowValid(inv, c, t)
  OBVIOUS
<1> HIDE DEF valid
<1>4. IF valid = {} THEN point = NoPoint ELSE point \in valid /\ \A t \in valid : t <= point
  BY <1>1, <1>3, NewestRow
<1>5. ASSUME rep.status = "HEALTHY", c \in Manual PROVE inv[c][Baseline] = "protected"
  BY <1>2, <1>5 DEF BaselineMissing
<1>6. ASSUME rep.status = "HEALTHY", rep.due
      PROVE  point >= Window /\ \A t \in RowTimes : t > point => inv[c][t] = "absent"
  <2>1. ~Failing(inv, c) BY <1>2, <1>6
  <2>2. rows # {} /\ RowValid(inv, c, Max(rows)) /\ ~(Max(rows) < Window) BY <2>1 DEF Failing
  <2>3. rows \in SUBSET RowTimes BY DEF Scheduled
  <2>4. Max(rows) \in rows /\ \A t \in rows : t <= Max(rows) BY <2>2, <2>3, NewestRow
  <2>5. Max(rows) \in RowTimes /\ Max(rows) \in valid BY <1>3, <2>2, <2>3, <2>4
  <2>6. point \in RowTimes /\ Max(rows) <= point BY <1>3, <1>4, <2>5
  <2>7. point >= Window BY <2>2, <2>5, <2>6 DEF Window, RowTimes
  <2>8. ASSUME NEW t \in RowTimes, t > point, inv[c][t] # "absent" PROVE FALSE
    <3>1. t \in rows BY <2>7, <2>8, <2>6 DEF Scheduled, Baseline, Window, RowTimes
    <3> QED BY <2>4, <2>5, <2>6, <2>8, <3>1 DEF RowTimes
  <2> QED BY <2>7, <2>8
<1> QED BY <1>4, <1>5, <1>6 DEF TrueOf, valid, point

Receipts ==
    [status : {"none", "HEALTHY", "FAILED", "PENDING", "WARNING", "OK", "CRITICAL", "ERROR",
               "one-test"},
     event : {"none", "BASELINE", "RECOVERED", "STATUS_CHANGED", "HEALTHY", "FAILED", "WARNING",
              "OK", "CRITICAL", "ERROR", "one-test"},
     sequence : Nat,
     delivery : {"none", "BASELINE", "NO_ALERT", "ATTEMPTED", "SENT", "UNCERTAIN", "DISABLED",
                 "NOT_SENT", "RETRIES_EXHAUSTED"},
     attempts : Nat]

LEMMA AttemptUpdate ==
    ASSUME NEW p \in Receipts, NEW q,
           q = [p EXCEPT !.attempts = @ + 1, !.delivery = "ATTEMPTED"]
    PROVE  /\ q \in Receipts /\ q.attempts = p.attempts + 1 /\ q.delivery = "ATTEMPTED"
           /\ q.sequence = p.sequence
<1>1. p.attempts + 1 \in Nat BY DEF Receipts
<1> QED BY <1>1 DEF Receipts

\* Between the two saves the receipt says ATTEMPTED, and the process knows what
\* the server took for it.  Refusals are counted among the attempts, and while a
\* further one may come there is room for it.
MailerInv ==
    /\ receipt \in Receipts /\ accepted \in Nat /\ refusals \in Nat
    /\ mailer \in {"idle", "submitting", "acknowledged", "unknown", "disabled", "refused"}
    /\ mailer # "idle" => receipt.delivery = "ATTEMPTED"
    /\ mailer \in {"submitting", "disabled", "refused"} => accepted = 0
    /\ mailer = "acknowledged" => accepted = 1
    /\ refusals <= receipt.attempts
    /\ mailer = "submitting" => refusals < receipt.attempts
    /\ mailer \in {"submitting", "disabled"} => refusals < MaxMailAttempts
    /\ receipt.delivery \in {"NOT_SENT", "DISABLED"} => refusals < MaxMailAttempts

\* The two ways a check saves its receipt.
LEMMA SettleKeeps ==
    ASSUME MailerInv, OneMailPerReceipt, mailer = "idle", NEW r, Settle(r),
           \/ r = receipt
           \/ \E s \in {"HEALTHY", "WARNING", "CRITICAL", "ERROR", "OK"} :
              \E e \in {<<"BASELINE", "BASELINE">>, <<"STATUS_CHANGED", "NO_ALERT">>} :
                 r = Numbered(s, e[1], e[2])
    PROVE  (MailerInv /\ OneMailPerReceipt)'
<1> USE DEF MailerInv, OneMailPerReceipt, Receipts, Settle, Recount, MaxMailAttempts
<1>1. CASE r = receipt BY <1>1
<1>2. ASSUME NEW s \in {"HEALTHY", "WARNING", "CRITICAL", "ERROR", "OK"},
             NEW e \in {"BASELINE", "STATUS_CHANGED"}, NEW d \in {"BASELINE", "NO_ALERT"},
             r = Numbered(s, e, d)
      PROVE  (MailerInv /\ OneMailPerReceipt)'
  <2>1. receipt.sequence + 1 \in Nat /\ receipt.sequence + 1 # receipt.sequence OBVIOUS
  <2>2. /\ receipt'.sequence = receipt.sequence + 1 /\ receipt'.delivery = d
        /\ receipt'.attempts = 0 /\ receipt'.status = s /\ receipt'.event = e
    BY <1>2 DEF Numbered
  <2>3. receipt' \in Receipts BY <1>2, <2>1 DEF Numbered
  <2>4. accepted' = 0 /\ refusals' = 0 BY <1>2, <2>1 DEF Numbered
  <2> QED BY <2>2, <2>3, <2>4
<1> QED BY <1>1, <1>2

LEMMA BeginSendKeeps ==
    ASSUME MailerInv, OneMailPerReceipt, mailer = "idle", NEW r, BeginSend(r),
           \/ r = receipt /\ receipt.delivery \in {"NOT_SENT", "DISABLED"}
           \/ \E s \in {"HEALTHY", "WARNING", "CRITICAL", "ERROR", "OK", "FAILED", "PENDING", "one-test"} :
              \E e \in {"RECOVERED", "HEALTHY", "FAILED", "WARNING", "OK", "CRITICAL", "ERROR", "one-test"} :
                 r = Numbered(s, e, "ATTEMPTED")
    PROVE  (MailerInv /\ OneMailPerReceipt)'
<1> USE DEF MailerInv, OneMailPerReceipt, BeginSend, Recount, MaxMailAttempts
<1>1. CASE r = receipt /\ receipt.delivery \in {"NOT_SENT", "DISABLED"}
  <2>1. receipt' = [receipt EXCEPT !.attempts = @ + 1, !.delivery = "ATTEMPTED"]
        /\ UNCHANGED <<accepted, refusals>> /\ mailer' = "submitting"
    BY <1>1
  <2>2. accepted = 0 BY <1>1
  <2>3. receipt.attempts \in Nat BY DEF Receipts
  <2>4. /\ receipt' \in Receipts /\ receipt'.attempts = receipt.attempts + 1
        /\ receipt'.delivery = "ATTEMPTED"
    BY <2>1, AttemptUpdate
  <2> QED BY <1>1, <2>1, <2>2, <2>3, <2>4
<1>2. ASSUME NEW s \in {"HEALTHY", "WARNING", "CRITICAL", "ERROR", "OK", "FAILED", "PENDING", "one-test"},
             NEW e \in {"RECOVERED", "HEALTHY", "FAILED", "WARNING", "OK", "CRITICAL", "ERROR", "one-test"},
             r = Numbered(s, e, "ATTEMPTED")
      PROVE  (MailerInv /\ OneMailPerReceipt)'
  <2>1. receipt.sequence + 1 \in Nat /\ receipt.sequence + 1 # receipt.sequence BY DEF Receipts
  <2>2. r \in Receipts /\ r.attempts = 0 /\ r.sequence = receipt.sequence + 1
    BY <1>2, <2>1 DEF Numbered, Receipts
  <2>3. receipt' \in Receipts /\ receipt'.delivery = "ATTEMPTED" /\ receipt'.attempts = 1
    <3>1. receipt' = [r EXCEPT !.attempts = @ + 1, !.delivery = "ATTEMPTED"] OBVIOUS
    <3>2. receipt' \in Receipts /\ receipt'.delivery = "ATTEMPTED"
          /\ receipt'.attempts = r.attempts + 1
      BY <2>2, <3>1, AttemptUpdate
    <3> QED BY <2>2, <3>2
  <2>4. accepted' = 0 /\ refusals' = 0 /\ mailer' = "submitting" BY <2>1, <2>2
  <2> QED BY <2>3, <2>4
<1> QED BY <1>1, <1>2

LEMMA CoreTransitionKeeps ==
    ASSUME MailerInv, OneMailPerReceipt, mailer = "idle", NEW r,
           r.status \in {"HEALTHY", "FAILED", "PENDING"}, NEW due \in BOOLEAN, CoreTransition(r, due)
    PROVE  (MailerInv /\ OneMailPerReceipt)'
<1>1. \/ Unsent(due) /\ BeginSend(receipt)
      \/ Settle(receipt)
      \/ Settle(Numbered("HEALTHY", "BASELINE", "BASELINE"))
      \/ \E e \in {"FAILED", "RECOVERED"} : BeginSend(Numbered(r.status, e, "ATTEMPTED"))
  BY DEF CoreTransition
<1>2. CASE Unsent(due) /\ BeginSend(receipt) BY <1>2, BeginSendKeeps DEF Unsent
<1>3. CASE Settle(receipt) BY <1>3, SettleKeeps
<1>4. CASE Settle(Numbered("HEALTHY", "BASELINE", "BASELINE")) BY <1>4, SettleKeeps
<1>5. ASSUME NEW e \in {"FAILED", "RECOVERED"}, BeginSend(Numbered(r.status, e, "ATTEMPTED"))
      PROVE  (MailerInv /\ OneMailPerReceipt)'
  BY <1>5, BeginSendKeeps
<1> QED BY <1>1, <1>2, <1>3, <1>4, <1>5

LEMMA CapacityCheckKeeps ==
    ASSUME MailerInv, OneMailPerReceipt, CapacityCheck PROVE (MailerInv /\ OneMailPerReceipt)'
<1> DEFINE Statuses == {"ERROR", "CRITICAL", "WARNING", "OK"}
<1>1. {CapacityStatus(a) : a \in Available} \cup {"ERROR"} \subseteq Statuses
  BY DEF CapacityStatus
<1>2. PICK new \in Statuses, due \in BOOLEAN :
         LET old == receipt.status
             event == IF new = old THEN "none" ELSE CapacityEvent(old, new)
             baseline == old = "none" /\ new = "OK"
         IN  IF event # "none" /\ ~baseline
                THEN BeginSend(Numbered(new, event, "ATTEMPTED"))
                ELSE IF Unsent(due) THEN BeginSend(receipt)
                ELSE Settle(CASE new = old -> receipt
                              [] baseline -> Numbered(new, "BASELINE", "BASELINE")
                              [] OTHER -> Numbered(new, "STATUS_CHANGED", "NO_ALERT"))
  BY <1>1 DEF CapacityCheck
<1>3. CapacityEvent(receipt.status, new) \in Statuses \cup {"none", "RECOVERED"}
  BY DEF CapacityEvent
<1>4. mailer = "idle" BY DEF CapacityCheck
<1>5. \/ \E e \in Statuses \cup {"RECOVERED"} : BeginSend(Numbered(new, e, "ATTEMPTED"))
      \/ Unsent(due) /\ BeginSend(receipt)
      \/ Settle(receipt)
      \/ Settle(Numbered(new, "BASELINE", "BASELINE"))
      \/ Settle(Numbered(new, "STATUS_CHANGED", "NO_ALERT"))
  BY <1>2, <1>3
<1>6. ASSUME NEW e \in Statuses \cup {"RECOVERED"}, BeginSend(Numbered(new, e, "ATTEMPTED"))
      PROVE  (MailerInv /\ OneMailPerReceipt)'
  BY <1>4, <1>6, BeginSendKeeps
<1>7. CASE Unsent(due) /\ BeginSend(receipt) BY <1>4, <1>7, BeginSendKeeps DEF Unsent
<1>8. CASE Settle(receipt) BY <1>4, <1>8, SettleKeeps
<1>9. CASE Settle(Numbered(new, "BASELINE", "BASELINE")) BY <1>4, <1>9, SettleKeeps
<1>10. CASE Settle(Numbered(new, "STATUS_CHANGED", "NO_ALERT")) BY <1>4, <1>10, SettleKeeps
<1> QED BY <1>5, <1>6, <1>7, <1>8, <1>9, <1>10

LEMMA NotifyKeeps ==
    ASSUME MailerInv, OneMailPerReceipt, DbNotify \/ TestMail PROVE (MailerInv /\ OneMailPerReceipt)'
<1>1. mailer = "idle" BY DEF DbNotify, TestMail
<1>2. \/ Settle(Numbered("HEALTHY", "BASELINE", "BASELINE"))
      \/ \E k \in {"HEALTHY", "WARNING", "FAILED", "one-test"} : BeginSend(Numbered(k, k, "ATTEMPTED"))
      \/ BeginSend(receipt) /\ receipt.delivery \in {"NOT_SENT", "DISABLED"}
  BY DEF DbNotify, TestMail, NotifyNew, NotifyAgain
<1>3. CASE Settle(Numbered("HEALTHY", "BASELINE", "BASELINE")) BY <1>1, <1>3, SettleKeeps
<1>4. ASSUME NEW k \in {"HEALTHY", "WARNING", "FAILED", "one-test"},
             BeginSend(Numbered(k, k, "ATTEMPTED"))
      PROVE  (MailerInv /\ OneMailPerReceipt)'
  BY <1>1, <1>4, BeginSendKeeps
<1>5. CASE BeginSend(receipt) /\ receipt.delivery \in {"NOT_SENT", "DISABLED"}
  BY <1>1, <1>5, BeginSendKeeps
<1> QED BY <1>2, <1>3, <1>4, <1>5

LEMMA MailerStep ==
    MailerInv /\ OneMailPerReceipt /\ [MonitorsNext]_monitorVars => (MailerInv /\ OneMailPerReceipt)'
<1> SUFFICES ASSUME MailerInv, OneMailPerReceipt, [MonitorsNext]_monitorVars
             PROVE  (MailerInv /\ OneMailPerReceipt)'
  OBVIOUS
<1>1. CASE CoreCheck
  <2>1. mailer = "idle" BY <1>1 DEF CoreCheck
  <2>2. \/ Settle(receipt)
        \/ \E due \in BOOLEAN : \E r :
              r.status \in {"HEALTHY", "FAILED", "PENDING"} /\ CoreTransition(r, due)
    <3>1. \A inv, due, late : Inspect(inv, due, late).status \in {"HEALTHY", "FAILED", "PENDING"}
      BY DEF Inspect
    <3>2. \A skewed : Unavailable(skewed).status = "FAILED" BY DEF Unavailable
    <3>3. PICK due \in BOOLEAN :
             \/ \E inv \in Inventories, first, late \in BOOLEAN :
                   \/ Settle(receipt)
                   \/ CoreTransition(Inspect(inv, first, late), due)
             \/ \E skewed \in BOOLEAN : CoreTransition(Unavailable(skewed), due)
      BY <1>1, Zenon DEF CoreCheck
    <3> QED BY <3>1, <3>2, <3>3
  <2> QED BY <2>1, <2>2, SettleKeeps, CoreTransitionKeeps
<1>2. CASE CapacityCheck BY <1>2, CapacityCheckKeeps
<1>3. CASE DbNotify \/ TestMail BY <1>3, NotifyKeeps
<1>4. CASE Submit
  <2>1. /\ mailer = "submitting" /\ receipt' = receipt /\ accepted = 0
        /\ refusals \in Nat /\ refusals < MaxMailAttempts /\ receipt.delivery = "ATTEMPTED"
        /\ receipt.attempts \in Nat /\ refusals < receipt.attempts
    BY <1>4 DEF Submit, MailerInv, Receipts
  <2>2. CASE mailer' = "refused" /\ refusals' = refusals + 1 /\ UNCHANGED accepted
    BY <2>1, <2>2 DEF MailerInv, OneMailPerReceipt, MaxMailAttempts
  <2>3. CASE /\ mailer' \in {"acknowledged", "unknown", "disabled", "idle"} /\ UNCHANGED refusals
             /\ accepted' \in {0, 1} /\ (mailer' = "acknowledged" => accepted' = 1)
             /\ (mailer' = "disabled" => accepted' = 0)
    BY <2>1, <2>3 DEF MailerInv, OneMailPerReceipt, MaxMailAttempts
  <2> QED BY <1>4, <2>1, <2>2, <2>3 DEF Submit
<1>5. CASE SaveOutcome
  <2>1. /\ mailer \in {"acknowledged", "unknown", "disabled", "refused"}
        /\ receipt' = [receipt EXCEPT !.delivery = Outcome] /\ mailer' = "idle"
        /\ UNCHANGED <<accepted, refusals>>
    BY <1>5 DEF SaveOutcome
  <2>2. /\ Outcome \in {"SENT", "UNCERTAIN", "DISABLED", "NOT_SENT", "RETRIES_EXHAUSTED"}
        /\ Outcome = "SENT" => mailer = "acknowledged"
        /\ Outcome \in {"DISABLED", "NOT_SENT", "RETRIES_EXHAUSTED"} => mailer \in {"disabled", "refused"}
        /\ Outcome = "DISABLED" => mailer = "disabled"
        /\ Outcome = "NOT_SENT" => receipt.attempts < MaxMailAttempts
    BY <2>1 DEF Outcome, MailerInv, Receipts, MaxMailAttempts
  <2>3. receipt' \in Receipts /\ receipt'.delivery = Outcome /\ receipt'.attempts = receipt.attempts
    BY <2>1, <2>2 DEF MailerInv, Receipts
  <2>4. refusals \in Nat /\ receipt.attempts \in Nat BY DEF MailerInv, Receipts
  <2> QED BY <2>1, <2>2, <2>3, <2>4 DEF MailerInv, OneMailPerReceipt, MaxMailAttempts
<1>6. CASE MonitorKilled BY <1>6 DEF MonitorKilled, MailerInv, OneMailPerReceipt
<1>7. CASE UNCHANGED monitorVars BY <1>7 DEF monitorVars, MailerInv, OneMailPerReceipt
<1> QED BY <1>1, <1>2, <1>3, <1>4, <1>5, <1>6, <1>7 DEF MonitorsNext

LEMMA CoreReportStep ==
    CoreReportIsTrue /\ [MonitorsNext]_monitorVars => CoreReportIsTrue'
<1> SUFFICES ASSUME CoreReportIsTrue, [MonitorsNext]_monitorVars PROVE CoreReportIsTrue' OBVIOUS
<1>0. /\ CoreReportIsTrue <=> \A inv \in seen : \A c \in Cts : TrueOf(report, inv, c)
      /\ CoreReportIsTrue' <=> \A inv \in seen' : \A c \in Cts : TrueOf(report', inv, c)
  BY DEF CoreReportIsTrue, TrueOf
<1>1. CASE UNCHANGED <<report, seen>> BY <1>0, <1>1
<1>2. ASSUME NEW inv \in Inventories, NEW first \in BOOLEAN, NEW late \in BOOLEAN,
             report' = Inspect(inv, first, late), seen' = {inv}
      PROVE  CoreReportIsTrue'
  <2>1. \A c \in Cts : TrueOf(report', inv, c) BY <1>2, InspectIsTrue
  <2> QED BY <1>0, <1>2, <2>1
<1>3. ASSUME NEW skewed \in BOOLEAN, report' = Unavailable(skewed), UNCHANGED seen
      PROVE  CoreReportIsTrue'
  <2>1. /\ report'.status = "FAILED"
        /\ report'.evidence # "UNAVAILABLE" =>
             report.evidence # "UNAVAILABLE" /\ report'.points = report.points
    BY <1>3 DEF Unavailable
  <2>2. \A inv, c : TrueOf(report, inv, c) => TrueOf(report', inv, c) BY <2>1 DEF TrueOf
  <2> QED BY <1>0, <1>3, <2>2
<1>4. CASE CoreCheck
  BY <1>2, <1>3, <1>4 DEF CoreCheck
<1>5. CASE UNCHANGED monitorVars BY <1>1, <1>5 DEF monitorVars
<1> QED BY <1>1, <1>4, <1>5 DEF MonitorsNext, CapacityCheck, DbNotify, TestMail, Submit, SaveOutcome,
        MonitorKilled

\* At most one mail is taken for a receipt and at most three are refused, however
\* often notify() finds mail switched off; its delivery state is true of it, and
\* the core report is what the last inventory bears out, for any inventories,
\* thresholds and numbers of containers.
THEOREM MonitorsAreTrue == MonitorsSpec => []MonitorsTellTheTruth
<1>1. MonitorsInit => MailerInv /\ OneMailPerReceipt /\ CoreReportIsTrue
  BY DEF MonitorsInit, MailerInv, OneMailPerReceipt, CoreReportIsTrue, Nothing, Receipts,
     MaxMailAttempts
<1>2. MailerInv /\ OneMailPerReceipt /\ CoreReportIsTrue => MonitorsTellTheTruth
  BY DEF MonitorsTellTheTruth
<1> QED BY <1>1, <1>2, MailerStep, CoreReportStep, PTL DEF MonitorsSpec

-----------------------------------------------------------------------------
(* The import of health results.                                           *)

Policies == [valid : BOOLEAN, issued : Nat, expires : Nat]
HopRec == [policy : Policies, lastCheck : Nat, reports : [Sources -> {"none", "earlier", "last"}],
           result : {"none", "HEALTHY", "OBSERVER_ERROR"}, bundle : Nat, by : Nat]
ImportRec == [pc : {"idle", "check", "fetch", "reports", "verified", "refused", "failed"},
              now : Nat, number : Nat, policy : Policies, todo : SUBSET Sources]

TransportTypes ==
    /\ time \in Nat /\ imports \in Nat /\ attestation \in Policies
    /\ hop \in [Hops -> HopRec] /\ import \in [Hops -> ImportRec]

\* What an import has done so far at its hop.
HopInv(h) ==
    /\ import[h].pc \in {"check", "fetch", "reports", "refused", "failed"} => ~hop[h].policy.valid
    /\ import[h].pc \in {"fetch", "reports"} => hop[h].lastCheck = import[h].now
    /\ import[h].pc = "reports" /\ import[h].policy.valid =>
          /\ import[h].policy \in granted
          /\ import[h].policy.issued <= import[h].now /\ import[h].now <= import[h].policy.expires
    /\ hop[h].by <= imports
    /\ import[h].pc # "idle" => hop[h].by < import[h].number /\ import[h].number <= imports
    /\ import[h].pc \in {"reports", "verified"} =>
          /\ hop[h].bundle = import[h].number
          /\ \A s \in Sources : s \in import[h].todo \/ hop[h].reports[s] = "last"
    /\ import[h].pc = "verified" => import[h].todo = {}
    /\ hop[h].policy.valid =>
          /\ hop[h].policy \in granted
          /\ hop[h].policy.issued <= hop[h].lastCheck /\ hop[h].lastCheck <= hop[h].policy.expires
    /\ hop[h].result = "HEALTHY" /\ hop[h].by = hop[h].bundle =>
          \A s \in Sources : hop[h].reports[s] = "last"

TransportInv ==
    /\ TransportTypes
    /\ attestation.valid => attestation \in granted
    /\ \A h \in Hops : HopInv(h)

\* The hop an import is not at keeps its part.
LEMMA OtherHop ==
    ASSUME TransportInv, NEW g \in Hops, hop'[g] = hop[g], import'[g] = import[g],
           granted \subseteq granted', imports' \in Nat, imports <= imports'
    PROVE  HopInv(g)'
<1>1. HopInv(g) /\ hop[g] \in HopRec /\ import[g] \in ImportRec /\ imports \in Nat
  BY DEF TransportInv, TransportTypes
<1>2. hop[g].by \in Nat /\ import[g].number \in Nat BY <1>1 DEF HopRec, ImportRec
<1> QED BY <1>1, <1>2 DEF HopInv

\* One import step touches its own hop only.
LEMMA ImportFrame ==
    ASSUME TransportInv, NEW h \in Hops, ImportNext(h)
    PROVE  /\ UNCHANGED <<time, attestation, granted>>
           /\ imports' \in Nat /\ imports <= imports'
           /\ \A g \in Hops \ {h} : hop'[g] = hop[g] /\ import'[g] = import[g]
<1> USE DEF ImportNext, ImportStarts, ImportChecksClock, ImportFetches, ImportWritesReport,
        ImportWritesPolicy, ImportRefused, ImportWritesResult, ImportKilled, SetImport, Goto
<1>1. hop \in [Hops -> HopRec] /\ import \in [Hops -> ImportRec] /\ imports \in Nat
  BY DEF TransportInv, TransportTypes
<1>2. UNCHANGED <<time, attestation, granted>> OBVIOUS
<1>3. imports' \in {imports, imports + 1} OBVIOUS
<1>4. \A g \in Hops \ {h} : import'[g] = import[g] BY <1>1
<1>5. \A g \in Hops \ {h} : hop'[g] = hop[g] BY <1>1
<1> QED BY <1>1, <1>2, <1>3, <1>4, <1>5

\* What a reader answers with was issued by the gateway, if it is a permission.
LEMMA CollectedIsGranted ==
    ASSUME TransportInv, NEW h \in Hops
    PROVE  /\ Collected(h) \in Policies
           /\ Collected(h).valid => Collected(h) \in granted
<1>1. InvalidPolicy \in Policies /\ ~InvalidPolicy.valid BY DEF InvalidPolicy, Policies
<1>2. 1 \in Hops BY DEF Hops
<1>3. /\ attestation \in Policies /\ hop[1].policy \in Policies
      /\ attestation.valid => attestation \in granted
      /\ hop[1].policy.valid => hop[1].policy \in granted
  BY <1>2 DEF TransportInv, TransportTypes, HopInv, HopRec
<1> QED BY <1>1, <1>3 DEF Collected

LEMMA ImportRecords ==
    /\ InvalidPolicy \in Policies /\ ~InvalidPolicy.valid
    /\ Idle \in ImportRec /\ Idle.pc = "idle"
<1>1. InvalidPolicy \in Policies /\ ~InvalidPolicy.valid BY DEF InvalidPolicy, Policies
<1>2. Idle \in ImportRec /\ Idle.pc = "idle" BY <1>1 DEF Idle, ImportRec
<1> QED BY <1>1, <1>2

LEMMA ImportStep ==
    ASSUME TransportInv, NEW h \in Hops, ImportNext(h)
    PROVE  hop'[h] \in HopRec /\ import'[h] \in ImportRec /\ HopInv(h)'
<1>0. /\ hop \in [Hops -> HopRec] /\ import \in [Hops -> ImportRec] /\ imports \in Nat /\ time \in Nat
      /\ hop[h] \in HopRec /\ import[h] \in ImportRec
  BY DEF TransportInv, TransportTypes
<1>01. /\ hop[h].by \in Nat /\ import[h].number \in Nat /\ import[h].now \in Nat
       /\ import[h].policy \in Policies /\ import[h].todo \in SUBSET Sources
  BY <1>0 DEF HopRec, ImportRec
<1>02. HopInv(h) BY DEF TransportInv
<1>1. UNCHANGED granted BY ImportFrame
<1> USE DEF SetImport, Goto
<1>2. CASE ImportStarts(h)
  <2>1. /\ hop'[h] = [hop[h] EXCEPT !.policy = InvalidPolicy]
        /\ import'[h] = [Idle EXCEPT !.pc = "check", !.now = time, !.number = imports + 1]
        /\ imports' = imports + 1
    BY <1>0, <1>2 DEF ImportStarts
  <2>2. imports + 1 \in Nat BY <1>0
  <2>3. /\ import'[h] \in ImportRec /\ import'[h].pc = "check" /\ import'[h].number = imports + 1
    BY <1>0, <2>1, <2>2, ImportRecords DEF ImportRec
  <2>4. hop'[h] \in HopRec /\ ~hop'[h].policy.valid /\ hop'[h].by = hop[h].by
        /\ hop'[h].result = hop[h].result /\ hop'[h].bundle = hop[h].bundle
        /\ hop'[h].reports = hop[h].reports
    BY <1>0, <2>1, ImportRecords DEF HopRec
  <2>5. hop[h].by \in Nat BY <1>0 DEF HopRec
  <2> QED BY <1>0, <1>01, <1>02, ImportRecords, <1>1, <2>1, <2>3, <2>4, <2>5 DEF HopInv
<1>3. CASE ImportKilled(h)
  <2>1. hop'[h] = hop[h] /\ import'[h] = Idle /\ imports' = imports
    BY <1>0, <1>3 DEF ImportKilled
  <2> QED BY <1>0, <1>01, <1>02, ImportRecords, <1>1, <2>1 DEF HopInv
<1>4. CASE ImportChecksClock(h)
  <2>1. imports' = imports /\ import[h].pc = "check" BY <1>4 DEF ImportChecksClock
  <2>2. CASE import[h].now < hop[h].lastCheck
    <3>1. hop'[h] = hop[h] /\ import'[h] = Idle BY <1>0, <1>4, <2>2 DEF ImportChecksClock
    <3> QED BY <1>0, <1>01, <1>02, ImportRecords, <1>1, <2>1, <3>1 DEF HopInv
  <2>3. CASE ~(import[h].now < hop[h].lastCheck)
    <3>1. /\ hop'[h] = [hop[h] EXCEPT !.lastCheck = import[h].now]
          /\ import'[h] = [import[h] EXCEPT !.pc = "fetch"]
      BY <1>0, <1>4, <2>3 DEF ImportChecksClock
    <3>2. import'[h] \in ImportRec /\ import'[h].pc = "fetch" /\ import'[h].now = import[h].now
          /\ import'[h].number = import[h].number
      BY <1>0, <3>1 DEF ImportRec
    <3>3. hop'[h] \in HopRec /\ hop'[h].lastCheck = import[h].now /\ hop'[h].by = hop[h].by
        /\ hop'[h].policy = hop[h].policy
        /\ hop'[h].result = hop[h].result /\ hop'[h].bundle = hop[h].bundle
        /\ hop'[h].reports = hop[h].reports
      BY <1>0, <1>01, <3>1 DEF HopRec
    <3> QED BY <1>0, <1>01, <1>02, ImportRecords, <1>1, <2>1, <3>2, <3>3 DEF HopInv
  <2> QED BY <2>2, <2>3
<1>5. ASSUME hop'[h] = hop[h], import'[h] = [import[h] EXCEPT !.pc = "refused"],
             imports' = imports, import[h].pc \in {"fetch", "reports"}
      PROVE  hop'[h] \in HopRec /\ import'[h] \in ImportRec /\ HopInv(h)'
  <2>1. import'[h] \in ImportRec /\ import'[h].pc = "refused" /\ import'[h].number = import[h].number
    BY <1>0, <1>5 DEF ImportRec
  <2> QED BY <1>0, <1>01, <1>02, ImportRecords, <1>1, <1>5, <2>1 DEF HopInv
<1>6. CASE ImportFetches(h)
  <2>1. imports' = imports /\ import[h].pc = "fetch" BY <1>6 DEF ImportFetches
  <2>2. \/ /\ \E sane \in BOOLEAN : BundleSane(Collected(h), import[h].now, sane)
           /\ import'[h] = [import[h] EXCEPT !.pc = "reports", !.policy = Collected(h),
                                             !.todo = Sources]
           /\ hop'[h] = [hop[h] EXCEPT !.bundle = import[h].number,
                  !.reports = [s \in Sources |-> IF @[s] = "none" THEN "none" ELSE "earlier"]]
        \/ hop'[h] = hop[h] /\ import'[h] = [import[h] EXCEPT !.pc = "refused"]
    BY <1>0, <1>6 DEF ImportFetches
  <2>3. ASSUME PolicySane(Collected(h), import[h].now),
               import'[h] = [import[h] EXCEPT !.pc = "reports", !.policy = Collected(h),
                                             !.todo = Sources],
               hop'[h] = [hop[h] EXCEPT !.bundle = import[h].number,
                  !.reports = [s \in Sources |-> IF @[s] = "none" THEN "none" ELSE "earlier"]]
        PROVE  hop'[h] \in HopRec /\ import'[h] \in ImportRec /\ HopInv(h)'
    <3>1. Collected(h) \in Policies /\ (Collected(h).valid => Collected(h) \in granted)
      BY CollectedIsGranted
    <3>2. Collected(h).valid => Collected(h).issued <= import[h].now /\ import[h].now <= Collected(h).expires
      BY <2>3 DEF PolicySane
    <3>3. /\ import'[h] \in ImportRec /\ import'[h].pc = "reports" /\ import'[h].policy = Collected(h)
          /\ import'[h].todo = Sources /\ import'[h].now = import[h].now
          /\ import'[h].number = import[h].number
      BY <1>0, <2>3, <3>1 DEF ImportRec
    <3>4. [s \in Sources |-> IF hop[h].reports[s] = "none" THEN "none" ELSE "earlier"]
             \in [Sources -> {"none", "earlier", "last"}]
      OBVIOUS
    <3>5. /\ hop'[h] \in HopRec /\ hop'[h].bundle = import[h].number /\ hop'[h].by = hop[h].by
          /\ hop'[h].policy = hop[h].policy /\ hop'[h].lastCheck = hop[h].lastCheck
      BY <1>0, <1>01, <2>3, <3>4 DEF HopRec
    <3>6. hop[h].by < import[h].number /\ hop[h].by \in Nat /\ import[h].number \in Nat
      BY <1>01, <1>02, <2>1 DEF HopInv
    <3> QED BY <1>0, <1>01, <1>02, ImportRecords, <1>1, <2>1, <3>1, <3>2, <3>3, <3>5, <3>6 DEF HopInv
  <2> QED BY <1>5, <2>1, <2>2, <2>3 DEF BundleSane
<1>7. CASE ImportWritesReport(h)
  <2>1. imports' = imports /\ import[h].pc = "reports" BY <1>7 DEF ImportWritesReport
  <2>2. PICK s \in import[h].todo :
          \/ /\ hop' = [hop EXCEPT ![h].reports[s] = "last"]
             /\ import' = [import EXCEPT ![h].todo = @ \ {s}]
          \/ import' = [import EXCEPT ![h].pc = "refused"] /\ hop' = hop
    BY <1>7 DEF ImportWritesReport
  <2>3. CASE import' = [import EXCEPT ![h].pc = "refused"] /\ hop' = hop
    BY <1>0, <1>5, <2>1, <2>3
  <2>4. ASSUME hop' = [hop EXCEPT ![h].reports[s] = "last"], import' = [import EXCEPT ![h].todo = @ \ {s}]
        PROVE  hop'[h] \in HopRec /\ import'[h] \in ImportRec /\ HopInv(h)'
    <3>1. hop'[h] = [hop[h] EXCEPT !.reports = [hop[h].reports EXCEPT ![s] = "last"]]
          /\ import'[h] = [import[h] EXCEPT !.todo = import[h].todo \ {s}]
      BY <1>0, <2>4
    <3>2. s \in Sources /\ hop[h].reports \in [Sources -> {"none", "earlier", "last"}]
      BY <1>0 DEF ImportRec, HopRec
    <3>3. [hop[h].reports EXCEPT ![s] = "last"] \in [Sources -> {"none", "earlier", "last"}]
      BY <3>2
    <3>4. /\ hop'[h] \in HopRec /\ hop'[h].reports = [hop[h].reports EXCEPT ![s] = "last"]
          /\ hop'[h].by = hop[h].by /\ hop'[h].bundle = hop[h].bundle /\ hop'[h].policy = hop[h].policy
          /\ hop'[h].lastCheck = hop[h].lastCheck /\ hop'[h].result = hop[h].result
      BY <1>0, <3>1, <3>3 DEF HopRec
    <3>5. /\ import'[h] \in ImportRec /\ import'[h].todo = import[h].todo \ {s}
          /\ import'[h].pc = import[h].pc /\ import'[h].policy = import[h].policy
          /\ import'[h].now = import[h].now /\ import'[h].number = import[h].number
      BY <1>0, <1>01, <3>1 DEF ImportRec
    <3>6. \A x \in Sources : hop'[h].reports[x] = IF x = s THEN "last" ELSE hop[h].reports[x]
      BY <3>2, <3>4
    <3> QED BY <1>0, <1>01, <1>02, ImportRecords, <1>1, <2>1, <3>4, <3>5, <3>6 DEF HopInv
  <2> QED BY <2>2, <2>3, <2>4
<1>8. CASE ImportWritesPolicy(h)
  <2>1. imports' = imports /\ import[h].pc = "reports" /\ import[h].todo = {}
    BY <1>8 DEF ImportWritesPolicy
  <2>2. \/ hop'[h] = hop[h] /\ import'[h] = [import[h] EXCEPT !.pc = "refused"]
        \/ /\ hop'[h] = [hop[h] EXCEPT !.policy = import[h].policy]
           /\ import'[h] = [import[h] EXCEPT !.pc = "verified"]
    BY <1>0, <1>8 DEF ImportWritesPolicy
  <2>3. ASSUME hop'[h] = [hop[h] EXCEPT !.policy = import[h].policy],
               import'[h] = [import[h] EXCEPT !.pc = "verified"]
        PROVE  hop'[h] \in HopRec /\ import'[h] \in ImportRec /\ HopInv(h)'
    <3>1. /\ import'[h] \in ImportRec /\ import'[h].pc = "verified" /\ import'[h].todo = import[h].todo
          /\ import'[h].number = import[h].number
      BY <1>0, <2>3 DEF ImportRec
    <3>2. /\ hop'[h] \in HopRec /\ hop'[h].policy = import[h].policy
          /\ hop'[h].lastCheck = hop[h].lastCheck /\ hop'[h].by = hop[h].by
          /\ hop'[h].bundle = hop[h].bundle /\ hop'[h].reports = hop[h].reports
          /\ hop'[h].result = hop[h].result
      BY <1>0, <1>01, <2>3 DEF HopRec
    <3> QED BY <1>0, <1>01, <1>02, ImportRecords, <1>1, <2>1, <3>1, <3>2 DEF HopInv
  <2> QED BY <1>5, <2>1, <2>2, <2>3
<1>9. CASE ImportRefused(h)
  <2>1. /\ imports' = imports /\ import[h].pc = "refused"
        /\ hop'[h] = [hop[h] EXCEPT !.policy = InvalidPolicy]
        /\ import'[h] = [import[h] EXCEPT !.pc = "failed"]
    BY <1>0, <1>9 DEF ImportRefused
  <2>2. import'[h] \in ImportRec /\ import'[h].pc = "failed" /\ import'[h].number = import[h].number
    BY <1>0, <2>1 DEF ImportRec
  <2>3. hop'[h] \in HopRec /\ ~hop'[h].policy.valid /\ hop'[h].by = hop[h].by
        /\ hop'[h].result = hop[h].result /\ hop'[h].bundle = hop[h].bundle
        /\ hop'[h].reports = hop[h].reports
    BY <1>0, <2>1, ImportRecords DEF HopRec
  <2> QED BY <1>0, <1>01, <1>02, ImportRecords, <1>1, <2>1, <2>2, <2>3 DEF HopInv
<1>10. CASE ImportWritesResult(h)
  <2>1. imports' = imports /\ import[h].pc \in {"verified", "failed"} /\ import'[h] = Idle
    BY <1>0, <1>10 DEF ImportWritesResult
  <2>2. \/ hop'[h] = [hop[h] EXCEPT !.policy = InvalidPolicy]
        \/ hop'[h] = [hop[h] EXCEPT
              !.result = IF import[h].pc = "verified" THEN "HEALTHY" ELSE "OBSERVER_ERROR",
              !.by = import[h].number]
    BY <1>0, <1>10 DEF ImportWritesResult
  <2>3. CASE hop'[h] = [hop[h] EXCEPT !.policy = InvalidPolicy]
    <3>1. hop'[h] \in HopRec /\ ~hop'[h].policy.valid /\ hop'[h].by = hop[h].by
        /\ hop'[h].result = hop[h].result /\ hop'[h].bundle = hop[h].bundle
        /\ hop'[h].reports = hop[h].reports
      BY <1>0, <2>3, ImportRecords DEF HopRec
    <3> QED BY <1>0, <1>01, <1>02, ImportRecords, <1>1, <2>1, <3>1 DEF HopInv
  <2>4. ASSUME hop'[h] = [hop[h] EXCEPT
              !.result = IF import[h].pc = "verified" THEN "HEALTHY" ELSE "OBSERVER_ERROR",
              !.by = import[h].number]
        PROVE  hop'[h] \in HopRec /\ import'[h] \in ImportRec /\ HopInv(h)'
    <3>1. import[h].number \in Nat /\ import[h].number <= imports BY <1>01, <1>02, <2>1 DEF HopInv
    <3>2. /\ hop'[h] \in HopRec /\ hop'[h].by = import[h].number
          /\ hop'[h].result = IF import[h].pc = "verified" THEN "HEALTHY" ELSE "OBSERVER_ERROR"
          /\ hop'[h].policy = hop[h].policy /\ hop'[h].lastCheck = hop[h].lastCheck
          /\ hop'[h].bundle = hop[h].bundle /\ hop'[h].reports = hop[h].reports
      BY <1>0, <2>4, <3>1 DEF HopRec
    <3> QED BY <1>0, <1>01, <1>02, ImportRecords, <1>1, <2>1, <3>1, <3>2 DEF HopInv
  <2> QED BY <2>2, <2>3, <2>4
<1> QED BY <1>2, <1>3, <1>4, <1>6, <1>7, <1>8, <1>9, <1>10 DEF ImportNext

LEMMA TransportStep == TransportInv /\ [TransportNext]_transportVars => TransportInv'
<1> SUFFICES ASSUME TransportInv, [TransportNext]_transportVars PROVE TransportInv' OBVIOUS
<1>0. TransportTypes BY DEF TransportInv
<1>1. ASSUME UNCHANGED <<hop, import, imports>>, granted \subseteq granted', time' \in Nat,
             attestation' \in Policies, attestation'.valid => attestation' \in granted'
      PROVE  TransportInv'
  <2>1. \A g \in Hops : HopInv(g)' BY <1>0, <1>1, OtherHop DEF TransportTypes
  <2> QED BY <1>0, <1>1, <2>1 DEF TransportInv, TransportTypes
<1>2. CASE ClockMoves
  <2>1. time' \in Nat BY <1>2 DEF ClockMoves
  <2> QED BY <1>0, <1>1, <1>2, <2>1 DEF ClockMoves, TransportInv, TransportTypes
<1>3. CASE GatewayIssues
  <2>1. PICK d \in 1 .. Validity :
           attestation' = [valid |-> TRUE, issued |-> time, expires |-> time + d]
    BY <1>3 DEF GatewayIssues
  <2>2. time \in Nat /\ time + d \in Nat BY <1>0 DEF TransportTypes
  <2>3. attestation' \in Policies BY <2>1, <2>2 DEF Policies
  <2> QED BY <1>0, <1>1, <1>3, <2>2, <2>3 DEF GatewayIssues, TransportTypes
<1>4. CASE GatewayRevokes
  BY <1>0, <1>1, <1>4, ImportRecords DEF GatewayRevokes, TransportTypes
<1>5. ASSUME NEW h \in Hops, ImportNext(h) PROVE TransportInv'
  <2>1. hop'[h] \in HopRec /\ import'[h] \in ImportRec /\ HopInv(h)' BY <1>5, ImportStep
  <2>2. /\ UNCHANGED <<time, attestation, granted>> /\ imports' \in Nat /\ imports <= imports'
        /\ \A g \in Hops \ {h} : hop'[g] = hop[g] /\ import'[g] = import[g]
    BY <1>5, ImportFrame
  <2>3. \A g \in Hops \ {h} : HopInv(g)' BY <2>2, OtherHop
  <2>4. DOMAIN hop' = Hops /\ DOMAIN import' = Hops
        /\ hop' = [g \in Hops |-> hop'[g]] /\ import' = [g \in Hops |-> import'[g]]
    BY <1>0, <1>5 DEF TransportTypes, ImportNext, ImportStarts, ImportChecksClock, ImportFetches,
       ImportWritesReport, ImportWritesPolicy, ImportRefused, ImportWritesResult, ImportKilled,
       SetImport, Goto
  <2>5. hop' \in [Hops -> HopRec] /\ import' \in [Hops -> ImportRec]
    BY <1>0, <2>1, <2>2, <2>4 DEF TransportTypes
  <2> QED BY <1>0, <2>1, <2>2, <2>3, <2>5 DEF TransportInv, TransportTypes
<1>6. CASE UNCHANGED transportVars
  BY <1>0, <1>1, <1>6 DEF transportVars, TransportInv, TransportTypes
<1> QED BY <1>2, <1>3, <1>4, <1>5, <1>6 DEF TransportNext

\* Over both hops, and for any validity, age and interleaving of imports: a
\* permission on disk was issued and alive when the last import began, and a
\* HEALTHY result stands on the bundle it was written for.
THEOREM ImportsHold == TransportSpec => []ImportsAreVerified
<1>1. TransportInit => TransportInv
  <2> SUFFICES ASSUME TransportInit PROVE TransportInv OBVIOUS
  <2>1. TransportTypes
    BY ImportRecords DEF TransportInit, TransportTypes, HopRec, NoReports, Never
  <2>2. ASSUME NEW h \in Hops PROVE HopInv(h)
    <3>1. /\ import[h] = Idle /\ hop[h].policy = InvalidPolicy /\ hop[h].by = 0
          /\ hop[h].result = "none" /\ imports = 0
      BY DEF TransportInit
    <3> QED BY <3>1, ImportRecords DEF HopInv
  <2> QED BY <2>1, <2>2, ImportRecords DEF TransportInv, TransportInit
<1>2. TransportInv => ImportsAreVerified
  BY DEF TransportInv, HopInv, ImportsAreVerified, PermissionIsCurrent, ResultCoversBundle
<1> QED BY <1>1, <1>2, TransportStep, PTL DEF TransportSpec

-----------------------------------------------------------------------------
(* lib/production_network.py: validate_config and firewall_plan.           *)

\* No rule of the list matches.
Passes(r, p) == \A k \in DOMAIN r : ~Matches(r[k], p)

\* The first rule that matches.
FirstHit(r, p, k) ==
    /\ k \in DOMAIN r /\ Matches(r[k], p)
    /\ \A l \in DOMAIN r : l < k => ~Matches(r[l], p)

\* A list of rules in which a packet that hits has a first hit.
RuleList(r, p) ==
    /\ \E S : r \in Seq(S)
    /\ Passes(r, p) \/ \E k \in DOMAIN r : FirstHit(r, p, k)

\* The first rule that matches decides.
LEMMA VerdictIsFirst ==
    ASSUME NEW r, NEW p, RuleList(r, p)
    PROVE  /\ Passes(r, p) => Verdict(r, p) = "RETURN"
           /\ \A k \in DOMAIN r : FirstHit(r, p, k) => ~Passes(r, p) /\ Verdict(r, p) = r[k].t
<1>1. Passes(r, p) => Verdict(r, p) = "RETURN" BY DEF Passes, Verdict
<1>2. ASSUME NEW k \in DOMAIN r, FirstHit(r, p, k) PROVE ~Passes(r, p) /\ Verdict(r, p) = r[k].t
  <2> DEFINE hits == {x \in DOMAIN r : Matches(r[x], p)}
             least == CHOOSE x \in hits : \A l \in hits : x <= l
  <2>1. DOMAIN r \subseteq Nat
    <3>1. PICK S : r \in Seq(S) BY DEF RuleList
    <3> QED BY <3>1
  <2>2. k \in hits /\ \A l \in hits : k <= l BY <1>2, <2>1 DEF FirstHit
  <2>3. least \in hits /\ \A l \in hits : least <= l BY <2>2
  <2>4. least = k BY <2>1, <2>2, <2>3
  <2>5. Verdict(r, p) = IF hits = {} THEN "RETURN" ELSE r[least].t BY DEF Verdict
  <2>6. ~Passes(r, p) BY <1>2 DEF Passes, FirstHit
  <2> QED BY <2>2, <2>4, <2>5, <2>6
<1> QED BY <1>1, <1>2

\* What a concatenation is, element by element.
LEMMA ConcatIs ==
    ASSUME NEW S, NEW r \in Seq(S), NEW q \in Seq(S)
    PROVE  /\ r \o q \in Seq(S) /\ Len(r) \in Nat /\ Len(q) \in Nat
           /\ DOMAIN r = 1..Len(r) /\ DOMAIN q = 1..Len(q)
           /\ DOMAIN (r \o q) = 1..(Len(r) + Len(q)) /\ Len(r \o q) = Len(r) + Len(q)
           /\ \A k \in 1..Len(r) : (r \o q)[k] = r[k]
           /\ \A k \in 1..Len(q) : (r \o q)[Len(r) + k] = q[k]
OBVIOUS

\* A packet that passes the first list is decided by the second.
LEMMA ConcatDecides ==
    ASSUME NEW r, NEW q, NEW p, RuleList(r, p), RuleList(q, p)
    PROVE  /\ RuleList(r \o q, p)
           /\ Passes(r \o q, p) <=> Passes(r, p) /\ Passes(q, p)
           /\ Verdict(r \o q, p) = IF Passes(r, p) THEN Verdict(q, p) ELSE Verdict(r, p)
<1>1. PICK S : r \in Seq(S) BY DEF RuleList
<1>2. PICK T : q \in Seq(T) BY DEF RuleList
<1>3. r \in Seq(S \cup T) /\ q \in Seq(S \cup T) BY <1>1, <1>2
<1> DEFINE n == Len(r)
           m == Len(q)
           z == r \o q
<1>4. /\ z \in Seq(S \cup T) /\ n \in Nat /\ m \in Nat
      /\ DOMAIN r = 1..n /\ DOMAIN q = 1..m /\ DOMAIN z = 1..(n + m)
      /\ \A k \in 1..n : z[k] = r[k]
      /\ \A k \in 1..m : z[n + k] = q[k]
  BY <1>3, ConcatIs
<1> HIDE DEF n, m, z
<1>5. Passes(z, p) <=> Passes(r, p) /\ Passes(q, p)
  <2>1. \A k \in 1..n : k \in 1..(n + m) BY <1>4
  <2>2. \A k \in 1..m : n + k \in 1..(n + m) BY <1>4
  <2>3. \A k \in 1..(n + m) : k \in 1..n \/ \E l \in 1..m : k = n + l
    <3>1. TAKE k \in 1..(n + m)
    <3>2. k > n => k - n \in 1..m /\ k = n + (k - n) BY <1>4
    <3>3. k <= n => k \in 1..n BY <1>4
    <3> QED BY <3>2, <3>3, <1>4
  <2>4. ASSUME Passes(z, p) PROVE Passes(r, p) BY <2>1, <2>4, <1>4 DEF Passes
  <2>5. ASSUME Passes(z, p) PROVE Passes(q, p) BY <2>2, <2>5, <1>4 DEF Passes
  <2>6. ASSUME Passes(r, p), Passes(q, p) PROVE Passes(z, p)
    <3>1. ASSUME NEW k \in DOMAIN z PROVE ~Matches(z[k], p)
      <4>1. CASE k \in 1..n BY <4>1, <2>6, <1>4 DEF Passes
      <4>2. ASSUME NEW l \in 1..m, k = n + l PROVE ~Matches(z[k], p) BY <4>2, <2>6, <1>4 DEF Passes
      <4> QED BY <4>1, <4>2, <2>3, <1>4
    <3> QED BY <3>1 DEF Passes
  <2> QED BY <2>4, <2>5, <2>6
<1>6. ASSUME NEW k \in DOMAIN r, FirstHit(r, p, k) PROVE k \in DOMAIN z /\ FirstHit(z, p, k) /\ z[k] = r[k]
  BY <1>4, <1>6 DEF FirstHit
<1>7. ASSUME Passes(r, p), NEW k \in DOMAIN q, FirstHit(q, p, k)
      PROVE n + k \in DOMAIN z /\ FirstHit(z, p, n + k) /\ z[n + k] = q[k]
  <2>1. n + k \in DOMAIN z /\ z[n + k] = q[k] /\ Matches(z[n + k], p) BY <1>4, <1>7 DEF FirstHit
  <2>2. ASSUME NEW l \in DOMAIN z, l < n + k PROVE ~Matches(z[l], p)
    <3>1. CASE l <= n BY <3>1, <1>4, <1>7 DEF Passes
    <3>2. CASE l > n
      <4>1. l - n \in DOMAIN q /\ l - n < k /\ l = n + (l - n) BY <3>2, <2>2, <1>4
      <4> QED BY <4>1, <1>4, <1>7 DEF FirstHit
    <3> QED BY <3>1, <3>2, <1>4
  <2> QED BY <2>1, <2>2 DEF FirstHit
<1>8. RuleList(z, p)
  <2>1. \E X : z \in Seq(X) BY <1>4
  <2>2. CASE Passes(r, p) /\ Passes(q, p) BY <2>1, <2>2, <1>5 DEF RuleList
  <2>3. CASE ~Passes(r, p)
    <3>1. PICK k \in DOMAIN r : FirstHit(r, p, k) BY <2>3 DEF RuleList
    <3> QED BY <3>1, <1>6, <2>1 DEF RuleList
  <2>4. CASE Passes(r, p) /\ ~Passes(q, p)
    <3>1. PICK k \in DOMAIN q : FirstHit(q, p, k) BY <2>4 DEF RuleList
    <3> QED BY <3>1, <1>7, <2>1, <2>4 DEF RuleList
  <2> QED BY <2>2, <2>3, <2>4
<1>9. Verdict(z, p) = IF Passes(r, p) THEN Verdict(q, p) ELSE Verdict(r, p)
  <2>2. CASE Passes(r, p) /\ Passes(q, p) BY <2>2, <1>5, <1>8, VerdictIsFirst
  <2>3. CASE ~Passes(r, p)
    <3>1. PICK k \in DOMAIN r : FirstHit(r, p, k) BY <2>3 DEF RuleList
    <3>2. Verdict(r, p) = r[k].t BY <3>1, VerdictIsFirst
    <3>3. Verdict(z, p) = z[k].t BY <3>1, <1>6, <1>8, VerdictIsFirst
    <3> QED BY <3>1, <3>2, <3>3, <1>6, <2>3
  <2>4. CASE Passes(r, p) /\ ~Passes(q, p)
    <3>1. PICK k \in DOMAIN q : FirstHit(q, p, k) BY <2>4 DEF RuleList
    <3>2. Verdict(q, p) = q[k].t BY <3>1, VerdictIsFirst
    <3>3. n + k \in DOMAIN z /\ FirstHit(z, p, n + k) /\ z[n + k] = q[k] BY <3>1, <1>7, <2>4
    <3>4. Verdict(z, p) = z[n + k].t BY <3>3, <1>8, VerdictIsFirst
    <3> QED BY <3>2, <3>3, <3>4, <2>4
  <2> QED BY <2>2, <2>3, <2>4
<1> QED BY <1>5, <1>8, <1>9 DEF z

\* Short lists, rule by rule.
LEMMA EmptyDecides ==
    ASSUME NEW p
    PROVE  RuleList(<<>>, p) /\ Passes(<<>>, p) /\ Verdict(<<>>, p) = "RETURN"
<1>1. <<>> \in Seq({}) /\ DOMAIN <<>> = {} OBVIOUS
<1>2. Passes(<<>>, p) BY <1>1 DEF Passes
<1> QED BY <1>1, <1>2, VerdictIsFirst DEF RuleList

LEMMA OneDecides ==
    ASSUME NEW p, NEW a
    PROVE  /\ RuleList(<<a>>, p)
           /\ Passes(<<a>>, p) <=> ~Matches(a, p)
           /\ Verdict(<<a>>, p) = IF Matches(a, p) THEN a.t ELSE "RETURN"
<1> DEFINE r == <<a>>
<1>1. r \in Seq({a}) /\ DOMAIN r = 1..1 /\ r[1] = a OBVIOUS
<1> HIDE DEF r
<1>2. Passes(r, p) <=> ~Matches(a, p) BY <1>1 DEF Passes
<1>3. Matches(a, p) => FirstHit(r, p, 1) BY <1>1 DEF FirstHit
<1>4. RuleList(r, p) BY <1>1, <1>2, <1>3 DEF RuleList
<1>5. Verdict(r, p) = IF Matches(a, p) THEN a.t ELSE "RETURN"
  BY <1>1, <1>2, <1>3, <1>4, VerdictIsFirst
<1> QED BY <1>2, <1>4, <1>5 DEF r
\* Longer ones, by taking off the first rule.
LEMMA SameList ==
    ASSUME NEW S, NEW r \in Seq(S), NEW q \in Seq(S), Len(r) = Len(q),
           \A k \in 1..Len(r) : r[k] = q[k]
    PROVE  r = q
OBVIOUS

LEMMA PushDecides ==
    ASSUME NEW p, NEW S, NEW a \in S, NEW q \in Seq(S), NEW r \in Seq(S), RuleList(q, p),
           Len(r) = Len(q) + 1, r[1] = a, \A k \in 1..Len(q) : r[k + 1] = q[k]
    PROVE  /\ RuleList(r, p)
           /\ Passes(r, p) <=> ~Matches(a, p) /\ Passes(q, p)
           /\ Verdict(r, p) = IF Matches(a, p) THEN a.t ELSE Verdict(q, p)
<1> DEFINE o == <<a>>
           z == o \o q
<1>1. o \in Seq(S) /\ Len(o) = 1 /\ o[1] = a OBVIOUS
<1>2. RuleList(o, p) /\ (Passes(o, p) <=> ~Matches(a, p)) /\ (Matches(a, p) => Verdict(o, p) = a.t)
  BY OneDecides
<1> HIDE DEF o
<1>3. z \in Seq(S) /\ Len(z) = Len(q) + 1 /\ z[1] = a /\ \A k \in 1..Len(q) : z[k + 1] = q[k]
  <2>1. /\ z \in Seq(S) /\ Len(q) \in Nat /\ Len(z) = Len(o) + Len(q)
        /\ \A k \in 1..Len(o) : z[k] = o[k]
        /\ \A k \in 1..Len(q) : z[Len(o) + k] = q[k]
    <3>1. o \in Seq(S) BY <1>1
    <3>2. Len(q) \in Nat OBVIOUS
    <3>3. z \in Seq(S) BY <3>1, ConcatIs
    <3>4. Len(z) = Len(o) + Len(q) BY <3>1, ConcatIs
    <3>5. \A k \in 1..Len(o) : z[k] = o[k] BY <3>1, ConcatIs
    <3>6. \A k \in 1..Len(q) : z[Len(o) + k] = q[k] BY <3>1, ConcatIs
    <3> QED BY <3>2, <3>3, <3>4, <3>5, <3>6
  <2>2. \A k \in 1..Len(q) : k + 1 = Len(o) + k BY <1>1, <2>1
  <2>3. 1 \in 1..Len(o) BY <1>1
  <2> HIDE DEF z
  <2> QED BY <2>1, <2>2, <2>3, <1>1
<1>4. /\ RuleList(z, p) /\ (Passes(z, p) <=> Passes(o, p) /\ Passes(q, p))
      /\ Verdict(z, p) = IF Passes(o, p) THEN Verdict(q, p) ELSE Verdict(o, p)
  BY <1>2, ConcatDecides
<1> HIDE DEF z
<1>5. \A k \in 1..Len(r) : r[k] = z[k]
  <2> TAKE k \in 1..Len(r)
  <2>1. CASE k = 1 BY <2>1, <1>3
  <2>2. CASE k # 1
    <3>1. Len(q) \in Nat OBVIOUS
    <3>2. k - 1 \in 1..Len(q) /\ k = (k - 1) + 1 BY <2>2, <3>1
    <3> QED BY <3>2, <1>3
  <2> QED BY <2>1, <2>2
<1>6. r = z BY <1>3, <1>5, SameList
<1> QED BY <1>2, <1>4, <1>6

LEMMA TwoDecide ==
    ASSUME NEW p, NEW a, NEW b
    PROVE  /\ RuleList(<<a, b>>, p)
           /\ Passes(<<a, b>>, p) <=> ~Matches(a, p) /\ ~Matches(b, p)
           /\ Verdict(<<a, b>>, p) = IF Matches(a, p) THEN a.t ELSE IF Matches(b, p) THEN b.t ELSE "RETURN"
<1> DEFINE r == <<a, b>>
           q == <<b>>
<1>1. r \in Seq({a, b}) /\ Len(r) = 2 /\ r[1] = a /\ r[2] = b OBVIOUS
<1>2. q \in Seq({a, b}) /\ Len(q) = 1 /\ q[1] = b OBVIOUS
<1>3. /\ RuleList(q, p)
      /\ Passes(q, p) <=> ~Matches(b, p)
      /\ Verdict(q, p) = IF Matches(b, p) THEN b.t ELSE "RETURN"
  BY OneDecides
<1> HIDE DEF r, q
<1>4. \A k \in 1..Len(q) : r[k + 1] = q[k] BY <1>1, <1>2
<1>5. /\ RuleList(r, p)
      /\ Passes(r, p) <=> ~Matches(a, p) /\ Passes(q, p)
      /\ Verdict(r, p) = IF Matches(a, p) THEN a.t ELSE Verdict(q, p)
  <2>1. a \in {a, b} OBVIOUS
  <2>2. Len(r) = Len(q) + 1 /\ r[1] = a BY <1>1, <1>2
  <2> QED BY <2>1, <2>2, <1>1, <1>2, <1>3, <1>4, PushDecides
<1> QED BY <1>3, <1>5 DEF r

LEMMA ThreeDecide ==
    ASSUME NEW p, NEW a, NEW b, NEW c
    PROVE  /\ RuleList(<<a, b, c>>, p)
           /\ Passes(<<a, b, c>>, p) <=> ~Matches(a, p) /\ ~Matches(b, p) /\ ~Matches(c, p)
           /\ Verdict(<<a, b, c>>, p) = IF Matches(a, p) THEN a.t ELSE IF Matches(b, p) THEN b.t ELSE
                                        IF Matches(c, p) THEN c.t ELSE "RETURN"
<1> DEFINE r == <<a, b, c>>
           q == <<b, c>>
<1>1. r \in Seq({a, b, c}) /\ Len(r) = 3 /\ r[1] = a /\ r[2] = b /\ r[3] = c OBVIOUS
<1>2. q \in Seq({a, b, c}) /\ Len(q) = 2 /\ q[1] = b /\ q[2] = c OBVIOUS
<1>3. /\ RuleList(q, p)
      /\ Passes(q, p) <=> ~Matches(b, p) /\ ~Matches(c, p)
      /\ Verdict(q, p) = IF Matches(b, p) THEN b.t ELSE IF Matches(c, p) THEN c.t ELSE "RETURN"
  BY TwoDecide
<1> HIDE DEF r, q
<1>4. \A k \in 1..Len(q) : r[k + 1] = q[k] BY <1>1, <1>2
<1>5. /\ RuleList(r, p)
      /\ Passes(r, p) <=> ~Matches(a, p) /\ Passes(q, p)
      /\ Verdict(r, p) = IF Matches(a, p) THEN a.t ELSE Verdict(q, p)
  <2>1. a \in {a, b, c} OBVIOUS
  <2>2. Len(r) = Len(q) + 1 /\ r[1] = a BY <1>1, <1>2
  <2> QED BY <2>1, <2>2, <1>1, <1>2, <1>3, <1>4, PushDecides
<1> QED BY <1>3, <1>5 DEF r

LEMMA FourDecide ==
    ASSUME NEW p, NEW a, NEW b, NEW c, NEW d
    PROVE  /\ RuleList(<<a, b, c, d>>, p)
           /\ Passes(<<a, b, c, d>>, p) <=> ~Matches(a, p) /\ ~Matches(b, p) /\ ~Matches(c, p) /\ ~Matches(d, p)
           /\ Verdict(<<a, b, c, d>>, p) = IF Matches(a, p) THEN a.t ELSE IF Matches(b, p) THEN b.t ELSE
                                           IF Matches(c, p) THEN c.t ELSE IF Matches(d, p) THEN d.t ELSE "RETURN"
<1> DEFINE r == <<a, b, c, d>>
           q == <<b, c, d>>
<1>1. r \in Seq({a, b, c, d}) /\ Len(r) = 4 /\ r[1] = a /\ r[2] = b /\ r[3] = c /\ r[4] = d OBVIOUS
<1>2. q \in Seq({a, b, c, d}) /\ Len(q) = 3 /\ q[1] = b /\ q[2] = c /\ q[3] = d OBVIOUS
<1>3. /\ RuleList(q, p)
      /\ Passes(q, p) <=> ~Matches(b, p) /\ ~Matches(c, p) /\ ~Matches(d, p)
      /\ Verdict(q, p) = IF Matches(b, p) THEN b.t ELSE IF Matches(c, p) THEN c.t ELSE
                         IF Matches(d, p) THEN d.t ELSE "RETURN"
  BY ThreeDecide
<1> HIDE DEF r, q
<1>4. \A k \in 1..Len(q) : r[k + 1] = q[k] BY <1>1, <1>2
<1>5. /\ RuleList(r, p)
      /\ Passes(r, p) <=> ~Matches(a, p) /\ Passes(q, p)
      /\ Verdict(r, p) = IF Matches(a, p) THEN a.t ELSE Verdict(q, p)
  <2>1. a \in {a, b, c, d} OBVIOUS
  <2>2. Len(r) = Len(q) + 1 /\ r[1] = a BY <1>1, <1>2
  <2> QED BY <2>1, <2>2, <1>1, <1>2, <1>3, <1>4, PushDecides
<1> QED BY <1>3, <1>5 DEF r

LEMMA FiveDecide ==
    ASSUME NEW p, NEW a, NEW b, NEW c, NEW d, NEW e
    PROVE  /\ RuleList(<<a, b, c, d, e>>, p)
           /\ Passes(<<a, b, c, d, e>>, p) <=> ~Matches(a, p) /\ ~Matches(b, p) /\ ~Matches(c, p) /\ ~Matches(d, p) /\ ~Matches(e, p)
           /\ Verdict(<<a, b, c, d, e>>, p) = IF Matches(a, p) THEN a.t ELSE IF Matches(b, p) THEN b.t ELSE
                                              IF Matches(c, p) THEN c.t ELSE IF Matches(d, p) THEN d.t ELSE
                                              IF Matches(e, p) THEN e.t ELSE "RETURN"
<1> DEFINE r == <<a, b, c, d, e>>
           q == <<b, c, d, e>>
<1>1. r \in Seq({a, b, c, d, e}) /\ Len(r) = 5 /\ r[1] = a /\ r[2] = b /\ r[3] = c /\ r[4] = d /\ r[5] = e OBVIOUS
<1>2. q \in Seq({a, b, c, d, e}) /\ Len(q) = 4 /\ q[1] = b /\ q[2] = c /\ q[3] = d /\ q[4] = e OBVIOUS
<1>3. /\ RuleList(q, p)
      /\ Passes(q, p) <=> ~Matches(b, p) /\ ~Matches(c, p) /\ ~Matches(d, p) /\ ~Matches(e, p)
      /\ Verdict(q, p) = IF Matches(b, p) THEN b.t ELSE IF Matches(c, p) THEN c.t ELSE
                         IF Matches(d, p) THEN d.t ELSE IF Matches(e, p) THEN e.t ELSE "RETURN"
  BY FourDecide
<1> HIDE DEF r, q
<1>4. \A k \in 1..Len(q) : r[k + 1] = q[k] BY <1>1, <1>2
<1>5. /\ RuleList(r, p)
      /\ Passes(r, p) <=> ~Matches(a, p) /\ Passes(q, p)
      /\ Verdict(r, p) = IF Matches(a, p) THEN a.t ELSE Verdict(q, p)
  <2>1. a \in {a, b, c, d, e} OBVIOUS
  <2>2. Len(r) = Len(q) + 1 /\ r[1] = a BY <1>1, <1>2
  <2> QED BY <2>1, <2>2, <1>1, <1>2, <1>3, <1>4, PushDecides
<1> QED BY <1>3, <1>5 DEF r


\* Rules that are there under a condition.
LEMMA WhenDecides ==
    ASSUME NEW p, NEW b \in BOOLEAN, NEW r, RuleList(r, p)
    PROVE  /\ RuleList(When(b, r), p)
           /\ Passes(When(b, r), p) <=> ~b \/ Passes(r, p)
           /\ Verdict(When(b, r), p) = IF b THEN Verdict(r, p) ELSE "RETURN"
<1>1. CASE b BY <1>1 DEF When
<1>2. CASE ~b
  <2>1. When(b, r) = <<>> BY <1>2 DEF When
  <2> QED BY <1>2, <2>1, EmptyDecides
<1> QED BY <1>1, <1>2

BmcPort(c, family, p) == c.bmc /\ p.nf \in family /\ "bmc" \in {p.i, p.o}

\* Nothing is forwarded to or from the BMC port.
LEMMA BmcForwardDecides ==
    ASSUME NEW p, NEW c, c.bmc \in BOOLEAN, NEW family
    PROVE  /\ RuleList(BmcForward(c, family), p)
           /\ Passes(BmcForward(c, family), p) <=> ~BmcPort(c, family, p)
           /\ BmcPort(c, family, p) => Verdict(BmcForward(c, family), p) = "DROP"
<1> DEFINE a == Drop([nf |-> family, i |-> {"bmc"}])
           b == Drop([nf |-> family, o |-> {"bmc"}])
<1>1. Matches(a, p) <=> p.nf \in family /\ p.i = "bmc" BY DEF Matches, Drop
<1>2. Matches(b, p) <=> p.nf \in family /\ p.o = "bmc" BY DEF Matches, Drop
<1>3. a.t = "DROP" /\ b.t = "DROP" BY DEF Drop
<1>4. BmcForward(c, family) = When(c.bmc, <<a, b>>) BY DEF BmcForward
<1> HIDE DEF a, b
<1>5. /\ RuleList(<<a, b>>, p)
      /\ Passes(<<a, b>>, p) <=> ~Matches(a, p) /\ ~Matches(b, p)
      /\ Verdict(<<a, b>>, p) = IF Matches(a, p) THEN a.t ELSE IF Matches(b, p) THEN b.t ELSE "RETURN"
  BY TwoDecide
<1>6. /\ RuleList(When(c.bmc, <<a, b>>), p)
      /\ Passes(When(c.bmc, <<a, b>>), p) <=> ~c.bmc \/ Passes(<<a, b>>, p)
      /\ Verdict(When(c.bmc, <<a, b>>), p) = IF c.bmc THEN Verdict(<<a, b>>, p) ELSE "RETURN"
  BY <1>5, WhenDecides
<1> QED BY <1>1, <1>2, <1>3, <1>4, <1>5, <1>6 DEF BmcPort

\* New connections of the uplink that a transit lets through.
DnatHit(service, port, p) ==
    /\ p.nf = "ipv4" /\ p.i = "uplink" /\ p.o = "pinfra" /\ p.s = service.source
    /\ p.d = service.destination /\ p.p = "tcp" /\ p.dport = port /\ p.ct = "NEW"
    /\ p.orig = <<"campus1", port>>
RelayHit(c, p) ==
    /\ p.nf = "ipv4" /\ p.i = "uplink" /\ p.s = c.transit.source /\ p.ct = "NEW"
    /\ \/ p.o = "pguest" /\ p.d = "vm" /\ p.p \in {"tcp", "udp"}
       \/ p.o = "pinfra" /\ p.d = c.transit.destination /\ p.p = "tcp" /\ p.dport = 8080
TransitHit(c, p) ==
    \/ "ingress" \in c.has /\ (DnatHit(c.ingress, 24080, p) \/ DnatHit(c.ingress, 24443, p))
    \/ "ssh" \in c.has /\ DnatHit(c.ssh, 2224, p)
    \/ "relay_transit" \in c.has /\ RelayHit(c, p)

\* The rule groups of the forward chain.
LEMMA DnatForwardMatches ==
    ASSUME NEW p, NEW service, NEW port
    PROVE  /\ Matches(DnatForward(service, port), p) <=> DnatHit(service, port, p)
           /\ DnatForward(service, port).t = "RETURN"
<1>1. DnatForward(service, port).t = "RETURN" BY DEF DnatForward, Return
<1>2. Matches(DnatForward(service, port), p) <=> DnatHit(service, port, p)
  BY DEF DnatForward, Return, Matches, DnatHit, V4
<1> QED BY <1>1, <1>2

LEMMA TransitDecides ==
    ASSUME NEW p, NEW c
    PROVE  /\ RuleList(TransitRules(c), p)
           /\ Passes(TransitRules(c), p) <=> ~TransitHit(c, p)
           /\ Verdict(TransitRules(c), p) = "RETURN"
<1> DEFINE a1 == DnatForward(c.ingress, 24080)
           a2 == DnatForward(c.ingress, 24443)
           a3 == DnatForward(c.ssh, 2224)
           a4 == Return([nf |-> V4, i |-> {"uplink"}, o |-> {"pguest"}, s |-> {c.transit.source},
                   d |-> {"vm"}, p |-> {"tcp", "udp"}, ct |-> {"NEW"}])
           a5 == Return([nf |-> V4, i |-> {"uplink"}, o |-> {"pinfra"}, s |-> {c.transit.source},
                   d |-> {c.transit.destination}, p |-> {"tcp"}, dport |-> {8080},
                   ct |-> {"NEW"}])
           b1 == "ingress" \in c.has
           b2 == "ssh" \in c.has
           b3 == "relay_transit" \in c.has
           r1 == When(b1, <<a1, a2>>)
           r2 == When(b2, <<a3>>)
           r3 == When(b3, <<a4, a5>>)
<1>1. TransitRules(c) = r1 \o r2 \o r3 BY DEF TransitRules
<1>2. Matches(a4, p) \/ Matches(a5, p) <=> RelayHit(c, p)
  <2>1. Matches(a4, p) <=> /\ p.nf = "ipv4" /\ p.i = "uplink" /\ p.o = "pguest" /\ p.s = c.transit.source
                           /\ p.d = "vm" /\ p.p \in {"tcp", "udp"} /\ p.ct = "NEW"
    BY DEF Matches, Return, V4
  <2>2. Matches(a5, p) <=> /\ p.nf = "ipv4" /\ p.i = "uplink" /\ p.o = "pinfra" /\ p.s = c.transit.source
                           /\ p.d = c.transit.destination /\ p.p = "tcp" /\ p.dport = 8080 /\ p.ct = "NEW"
    BY DEF Matches, Return, V4
  <2> HIDE DEF a4, a5
  <2> QED BY <2>1, <2>2 DEF RelayHit
<1>3. a4.t = "RETURN" /\ a5.t = "RETURN" BY DEF Return
<1>4. /\ a1.t = "RETURN" /\ a2.t = "RETURN" /\ a3.t = "RETURN"
      /\ Matches(a1, p) <=> DnatHit(c.ingress, 24080, p)
      /\ Matches(a2, p) <=> DnatHit(c.ingress, 24443, p)
      /\ Matches(a3, p) <=> DnatHit(c.ssh, 2224, p)
  BY DnatForwardMatches
<1>5. b1 \in BOOLEAN /\ b2 \in BOOLEAN /\ b3 \in BOOLEAN OBVIOUS
<1> HIDE DEF a1, a2, a3, a4, a5
<1>6. /\ RuleList(r1, p) /\ Verdict(r1, p) = "RETURN"
      /\ Passes(r1, p) <=> ~(b1 /\ (Matches(a1, p) \/ Matches(a2, p)))
  <2>1. /\ RuleList(<<a1, a2>>, p) /\ Verdict(<<a1, a2>>, p) = "RETURN"
        /\ Passes(<<a1, a2>>, p) <=> ~Matches(a1, p) /\ ~Matches(a2, p)
    BY <1>4, TwoDecide
  <2> HIDE DEF b1
  <2> QED BY <1>5, <2>1, WhenDecides
<1>7. /\ RuleList(r2, p) /\ Verdict(r2, p) = "RETURN"
      /\ Passes(r2, p) <=> ~(b2 /\ Matches(a3, p))
  <2>1. /\ RuleList(<<a3>>, p) /\ Verdict(<<a3>>, p) = "RETURN"
        /\ Passes(<<a3>>, p) <=> ~Matches(a3, p)
    BY <1>4, OneDecides
  <2> HIDE DEF b2
  <2> QED BY <1>5, <2>1, WhenDecides
<1>8. /\ RuleList(r3, p) /\ Verdict(r3, p) = "RETURN"
      /\ Passes(r3, p) <=> ~(b3 /\ (Matches(a4, p) \/ Matches(a5, p)))
  <2>1. /\ RuleList(<<a4, a5>>, p) /\ Verdict(<<a4, a5>>, p) = "RETURN"
        /\ Passes(<<a4, a5>>, p) <=> ~Matches(a4, p) /\ ~Matches(a5, p)
    BY <1>3, TwoDecide
  <2> HIDE DEF b3
  <2> QED BY <1>5, <2>1, WhenDecides
<1>9. /\ Passes(TransitRules(c), p) <=> Passes(r1, p) /\ Passes(r2, p) /\ Passes(r3, p)
      /\ RuleList(TransitRules(c), p) /\ Verdict(TransitRules(c), p) = "RETURN"
  <2> HIDE DEF r1, r2, r3
  <2>1. /\ RuleList(r1 \o r2, p) /\ Verdict(r1 \o r2, p) = "RETURN"
        /\ Passes(r1 \o r2, p) <=> Passes(r1, p) /\ Passes(r2, p)
    BY <1>6, <1>7, ConcatDecides
  <2> DEFINE r12 == r1 \o r2
  <2> HIDE DEF r12
  <2>2. /\ RuleList(r12 \o r3, p) /\ Verdict(r12 \o r3, p) = "RETURN"
        /\ Passes(r12 \o r3, p) <=> Passes(r12, p) /\ Passes(r3, p)
    BY <2>1, <1>8, ConcatDecides DEF r12
  <2> QED BY <1>1, <2>1, <2>2 DEF r12
<1> HIDE DEF r1, r2, r3
<1> QED BY <1>2, <1>4, <1>6, <1>7, <1>8, <1>9 DEF TransitHit

BackupHit(c, p) ==
    /\ "backup" \in c.has /\ p.nf = "ipv4" /\ p.p = "tcp"
    /\ \/ /\ p.i = "pinfra" /\ p.o = "mesh" /\ p.s = c.backup.source
          /\ p.d = c.backup.destination /\ p.dport = 8007
       \/ /\ p.i = "mesh" /\ p.o = "pinfra" /\ p.s = c.backup.destination
          /\ p.d = c.backup.source /\ p.sport = 8007 /\ p.ct = "ESTABLISHED"

LEMMA BackupDecides ==
    ASSUME NEW p, NEW c
    PROVE  /\ RuleList(BackupRules(c), p)
           /\ Passes(BackupRules(c), p) <=> ~BackupHit(c, p)
           /\ Verdict(BackupRules(c), p) = "RETURN"
<1> DEFINE a == Return([nf |-> V4, i |-> {"pinfra"}, o |-> {"mesh"}, s |-> {c.backup.source},
                        d |-> {c.backup.destination}, p |-> {"tcp"}, dport |-> {8007}])
           b == Return([nf |-> V4, i |-> {"mesh"}, o |-> {"pinfra"}, s |-> {c.backup.destination},
                        d |-> {c.backup.source}, p |-> {"tcp"}, sport |-> {8007}, ct |-> Replies])
           has == "backup" \in c.has
<1>1. Matches(a, p) <=> /\ p.nf = "ipv4" /\ p.i = "pinfra" /\ p.o = "mesh" /\ p.s = c.backup.source
                        /\ p.d = c.backup.destination /\ p.p = "tcp" /\ p.dport = 8007
  BY DEF Matches, Return, V4
<1>2. Matches(b, p) <=> /\ p.nf = "ipv4" /\ p.i = "mesh" /\ p.o = "pinfra" /\ p.s = c.backup.destination
                        /\ p.d = c.backup.source /\ p.p = "tcp" /\ p.sport = 8007 /\ p.ct = "ESTABLISHED"
  BY DEF Matches, Return, V4, Replies
<1>3. a.t = "RETURN" /\ b.t = "RETURN" BY DEF Return
<1>4. BackupRules(c) = When(has, <<a, b>>) BY DEF BackupRules
<1>5. has \in BOOLEAN OBVIOUS
<1> HIDE DEF a, b
<1>6. /\ RuleList(<<a, b>>, p) /\ Verdict(<<a, b>>, p) = "RETURN"
      /\ Passes(<<a, b>>, p) <=> ~Matches(a, p) /\ ~Matches(b, p)
  BY <1>3, TwoDecide
<1>7. BackupHit(c, p) <=> has /\ (Matches(a, p) \/ Matches(b, p)) BY <1>1, <1>2 DEF BackupHit
<1> HIDE DEF has
<1> QED BY <1>4, <1>5, <1>6, <1>7, WhenDecides

\* What the forward chain means for a packet, rule group by rule group.
Within(p) == p.i = p.o /\ p.i \in VNets
Crosses(p) == p.i \in VNets \/ p.o \in VNets
SshOverRelay(c, p) ==
    /\ "relay_transit" \in c.has /\ p.i = "uplink" /\ p.o = "pguest" /\ p.s = c.transit.source
    /\ p.d = "vm" /\ p.p \in {"tcp", "udp"} /\ p.dport = 22
Between(c, p) ==
    \/ p.i = "pguest" /\ p.o = "pinfra" /\ p.ct = "ESTABLISHED"
    \/ p.i = "pinfra" /\ p.o = "pguest" /\ p.s \in {c.proxy, c.sshgw, c.relay}
ForwardVerdict(c, active, p) ==
    IF BmcPort(c, V4, p) THEN "DROP"
    ELSE IF p.nf = "ipv4" /\ Within(p) THEN "RETURN"
    ELSE IF p.nf = "ipv4" /\ p.i = "pguest" /\ p.d \in NodeAddresses THEN "DROP"
    ELSE IF active /\ p.nf = "ipv4" /\ SshOverRelay(c, p) THEN "DROP"
    ELSE IF p.nf = "ipv4" /\ p.i = "uplink" /\ p.o \in VNets /\ p.ct = "ESTABLISHED" THEN "RETURN"
    ELSE IF active /\ p.nf = "ipv4" /\ p.i \in VNets /\ p.o = "uplink" THEN "RETURN"
    ELSE IF active /\ TransitHit(c, p) THEN "RETURN"
    ELSE IF p.nf = "ipv4" /\ Between(c, p) THEN "RETURN"
    ELSE IF active /\ BackupHit(c, p) THEN "RETURN"
    ELSE IF p.nf = "ipv4" /\ Crosses(p) THEN "DROP"
    ELSE IF BmcPort(c, V6, p) THEN "DROP"
    ELSE IF p.nf = "ipv6" /\ Within(p) THEN "RETURN"
    ELSE IF p.nf = "ipv6" /\ Crosses(p) THEN "DROP" ELSE "RETURN"

\* The forward chain, the two families included, is that chain of conditions.
LEMMA ForwardDecides ==
    ASSUME NEW p, NEW c, c.bmc \in BOOLEAN, NEW active \in BOOLEAN
    PROVE  Verdict(ForwardRules(c, active), p) = ForwardVerdict(c, active, p)
<1> DEFINE a1 == Return([nf |-> V4, i |-> {"pguest"}, o |-> {"pguest"}])
           a2 == Return([nf |-> V4, i |-> {"pinfra"}, o |-> {"pinfra"}])
           a3 == Drop([nf |-> V4, i |-> {"pguest"}, d |-> NodeAddresses])
           a4 == Drop([nf |-> V4, i |-> {"uplink"}, o |-> {"pguest"}, s |-> {c.transit.source},
                       d |-> {"vm"}, p |-> {"tcp", "udp"}, dport |-> {22}])
           a5 == Return([nf |-> V4, i |-> {"uplink"}, o |-> VNets, ct |-> Replies])
           a6 == Return([nf |-> V4, i |-> VNets, o |-> {"uplink"}])
           a7 == Return([nf |-> V4, i |-> {"pguest"}, o |-> {"pinfra"}, ct |-> Replies])
           a8 == Return([nf |-> V4, i |-> {"pinfra"}, o |-> {"pguest"}, s |-> {c.proxy, c.sshgw, c.relay}])
           a9 == Drop([nf |-> V4, i |-> VNets])
           a10 == Drop([nf |-> V4, o |-> VNets])
           d1 == Return([nf |-> V6, i |-> {"pguest"}, o |-> {"pguest"}])
           d2 == Return([nf |-> V6, i |-> {"pinfra"}, o |-> {"pinfra"}])
           d3 == Drop([nf |-> V6, i |-> VNets])
           d4 == Drop([nf |-> V6, o |-> VNets])
           relayed == "relay_transit" \in c.has /\ active
           f1 == BmcForward(c, V4)
           f2 == <<a1, a2, a3>>
           f3 == When(relayed, <<a4>>)
           f4 == <<a5>>
           f5 == When(active, <<a6>> \o TransitRules(c))
           f6 == <<a7, a8>>
           f7 == When(active, BackupRules(c))
           f8 == <<a9, a10>>
           f9 == BmcForward(c, V6)
           f10 == <<d1, d2, d3, d4>>
<1>1. ForwardRules(c, active) = f1 \o f2 \o f3 \o f4 \o f5 \o f6 \o f7 \o f8 \o f9 \o f10
  BY DEF ForwardRules
<1>2. /\ Matches(a1, p) \/ Matches(a2, p) <=> p.nf = "ipv4" /\ Within(p)
      /\ Matches(a3, p) <=> p.nf = "ipv4" /\ p.i = "pguest" /\ p.d \in NodeAddresses
      /\ a1.t = "RETURN" /\ a2.t = "RETURN" /\ a3.t = "DROP"
  <2>1. Matches(a1, p) <=> p.nf = "ipv4" /\ p.i = "pguest" /\ p.o = "pguest" BY DEF Matches, Return, V4
  <2>2. Matches(a2, p) <=> p.nf = "ipv4" /\ p.i = "pinfra" /\ p.o = "pinfra" BY DEF Matches, Return, V4
  <2>3. Matches(a3, p) <=> p.nf = "ipv4" /\ p.i = "pguest" /\ p.d \in NodeAddresses BY DEF Matches, Drop, V4
  <2>4. a1.t = "RETURN" /\ a2.t = "RETURN" /\ a3.t = "DROP" BY DEF Return, Drop
  <2> HIDE DEF a1, a2, a3
  <2> QED BY <2>1, <2>2, <2>3, <2>4 DEF Within, VNets
<1>3. /\ relayed /\ Matches(a4, p) <=> active /\ p.nf = "ipv4" /\ SshOverRelay(c, p)
      /\ a4.t = "DROP"
  <2>1. Matches(a4, p) <=> /\ p.nf = "ipv4" /\ p.i = "uplink" /\ p.o = "pguest" /\ p.s = c.transit.source
                           /\ p.d = "vm" /\ p.p \in {"tcp", "udp"} /\ p.dport = 22
    BY DEF Matches, Drop, V4
  <2>2. a4.t = "DROP" BY DEF Drop
  <2> HIDE DEF a4
  <2> QED BY <2>1, <2>2 DEF SshOverRelay
<1>4. /\ Matches(a5, p) <=> p.nf = "ipv4" /\ p.i = "uplink" /\ p.o \in VNets /\ p.ct = "ESTABLISHED"
      /\ a5.t = "RETURN"
  <2>1. Matches(a5, p) <=> p.nf = "ipv4" /\ p.i = "uplink" /\ p.o \in VNets /\ p.ct = "ESTABLISHED"
    BY DEF Matches, Return, V4, Replies
  <2>2. a5.t = "RETURN" BY DEF Return
  <2> QED BY <2>1, <2>2
<1>5. /\ Matches(a6, p) <=> p.nf = "ipv4" /\ p.i \in VNets /\ p.o = "uplink"
      /\ a6.t = "RETURN"
  <2>1. Matches(a6, p) <=> p.nf = "ipv4" /\ p.i \in VNets /\ p.o = "uplink" BY DEF Matches, Return, V4
  <2>2. a6.t = "RETURN" BY DEF Return
  <2> QED BY <2>1, <2>2
<1>6. /\ Matches(a7, p) \/ Matches(a8, p) <=> p.nf = "ipv4" /\ Between(c, p)
      /\ a7.t = "RETURN" /\ a8.t = "RETURN"
  <2>1. Matches(a7, p) <=> p.nf = "ipv4" /\ p.i = "pguest" /\ p.o = "pinfra" /\ p.ct = "ESTABLISHED"
    BY DEF Matches, Return, V4, Replies
  <2>2. Matches(a8, p) <=> p.nf = "ipv4" /\ p.i = "pinfra" /\ p.o = "pguest" /\ p.s \in {c.proxy, c.sshgw, c.relay}
    BY DEF Matches, Return, V4
  <2>3. a7.t = "RETURN" /\ a8.t = "RETURN" BY DEF Return
  <2> HIDE DEF a7, a8
  <2> QED BY <2>1, <2>2, <2>3 DEF Between
<1>7. /\ Matches(a9, p) \/ Matches(a10, p) <=> p.nf = "ipv4" /\ Crosses(p)
      /\ a9.t = "DROP" /\ a10.t = "DROP"
  <2>1. Matches(a9, p) <=> p.nf = "ipv4" /\ p.i \in VNets BY DEF Matches, Drop, V4
  <2>2. Matches(a10, p) <=> p.nf = "ipv4" /\ p.o \in VNets BY DEF Matches, Drop, V4
  <2>3. a9.t = "DROP" /\ a10.t = "DROP" BY DEF Drop
  <2> HIDE DEF a9, a10
  <2> QED BY <2>1, <2>2, <2>3 DEF Crosses
<1>8. /\ Matches(d1, p) \/ Matches(d2, p) <=> p.nf = "ipv6" /\ Within(p)
      /\ Matches(d3, p) \/ Matches(d4, p) <=> p.nf = "ipv6" /\ Crosses(p)
      /\ d1.t = "RETURN" /\ d2.t = "RETURN" /\ d3.t = "DROP" /\ d4.t = "DROP"
  <2>1. Matches(d1, p) <=> p.nf = "ipv6" /\ p.i = "pguest" /\ p.o = "pguest" BY DEF Matches, Return, V6
  <2>2. Matches(d2, p) <=> p.nf = "ipv6" /\ p.i = "pinfra" /\ p.o = "pinfra" BY DEF Matches, Return, V6
  <2>3. Matches(d3, p) <=> p.nf = "ipv6" /\ p.i \in VNets BY DEF Matches, Drop, V6
  <2>4. Matches(d4, p) <=> p.nf = "ipv6" /\ p.o \in VNets BY DEF Matches, Drop, V6
  <2>5. d1.t = "RETURN" /\ d2.t = "RETURN" /\ d3.t = "DROP" /\ d4.t = "DROP" BY DEF Drop, Return
  <2> HIDE DEF d1, d2, d3, d4
  <2> QED BY <2>1, <2>2, <2>3, <2>4, <2>5 DEF Within, Crosses, VNets
<1>9. relayed \in BOOLEAN OBVIOUS
<1> HIDE DEF a1, a2, a3, a4, a5, a6, a7, a8, a9, a10, d1, d2, d3, d4
<1>11. /\ RuleList(f1, p) /\ (Passes(f1, p) <=> ~BmcPort(c, V4, p))
       /\ ~Passes(f1, p) => Verdict(f1, p) = "DROP"
  BY BmcForwardDecides
<1>12. /\ RuleList(f2, p) /\ (Passes(f2, p) <=> ~Matches(a1, p) /\ ~Matches(a2, p) /\ ~Matches(a3, p))
       /\ ~Passes(f2, p) => Verdict(f2, p) = IF Matches(a1, p) \/ Matches(a2, p) THEN "RETURN" ELSE "DROP"
  BY <1>2, ThreeDecide
<1>13. /\ RuleList(f3, p) /\ (Passes(f3, p) <=> ~(relayed /\ Matches(a4, p)))
       /\ ~Passes(f3, p) => Verdict(f3, p) = "DROP"
  <2>1. /\ RuleList(<<a4>>, p) /\ (Passes(<<a4>>, p) <=> ~Matches(a4, p))
        /\ Matches(a4, p) => Verdict(<<a4>>, p) = "DROP"
    BY <1>3, OneDecides
  <2> HIDE DEF relayed
  <2> QED BY <2>1, <1>9, WhenDecides
<1>14. /\ RuleList(f4, p) /\ (Passes(f4, p) <=> ~Matches(a5, p)) /\ Verdict(f4, p) = "RETURN"
  BY <1>4, OneDecides
<1>15. /\ RuleList(f5, p) /\ Verdict(f5, p) = "RETURN"
       /\ Passes(f5, p) <=> ~(active /\ (Matches(a6, p) \/ TransitHit(c, p)))
  <2>1. /\ RuleList(<<a6>>, p) /\ (Passes(<<a6>>, p) <=> ~Matches(a6, p)) /\ Verdict(<<a6>>, p) = "RETURN"
    BY <1>5, OneDecides
  <2>2. /\ RuleList(TransitRules(c), p) /\ (Passes(TransitRules(c), p) <=> ~TransitHit(c, p))
        /\ Verdict(TransitRules(c), p) = "RETURN"
    BY TransitDecides
  <2> DEFINE x == <<a6>>
             y == TransitRules(c)
             z == x \o y
  <2> HIDE DEF x, y
  <2>3. RuleList(z, p) /\ (Passes(z, p) <=> Passes(x, p) /\ Passes(y, p)) /\ Verdict(z, p) = "RETURN"
    BY <2>1, <2>2, ConcatDecides DEF x, y
  <2> HIDE DEF z
  <2>4. f5 = When(active, z) BY DEF x, y, z
  <2> QED BY <2>1, <2>2, <2>3, <2>4, WhenDecides DEF x, y
<1>16. /\ RuleList(f6, p) /\ (Passes(f6, p) <=> ~Matches(a7, p) /\ ~Matches(a8, p))
       /\ Verdict(f6, p) = "RETURN"
  BY <1>6, TwoDecide
<1>17. /\ RuleList(f7, p) /\ (Passes(f7, p) <=> ~(active /\ BackupHit(c, p))) /\ Verdict(f7, p) = "RETURN"
  <2>1. /\ RuleList(BackupRules(c), p) /\ (Passes(BackupRules(c), p) <=> ~BackupHit(c, p))
        /\ Verdict(BackupRules(c), p) = "RETURN"
    BY BackupDecides
  <2> QED BY <2>1, WhenDecides
<1>18. /\ RuleList(f8, p) /\ (Passes(f8, p) <=> ~Matches(a9, p) /\ ~Matches(a10, p))
       /\ ~Passes(f8, p) => Verdict(f8, p) = "DROP"
  BY <1>7, TwoDecide
<1>19. /\ RuleList(f9, p) /\ (Passes(f9, p) <=> ~BmcPort(c, V6, p))
       /\ ~Passes(f9, p) => Verdict(f9, p) = "DROP"
  BY BmcForwardDecides
<1>20. /\ RuleList(f10, p)
       /\ Verdict(f10, p) = IF Matches(d1, p) \/ Matches(d2, p) THEN "RETURN" ELSE
                            IF Matches(d3, p) \/ Matches(d4, p) THEN "DROP" ELSE "RETURN"
  BY <1>8, FourDecide
<1> HIDE DEF f1, f2, f3, f4, f5, f6, f7, f8, f9, f10, relayed
<1> DEFINE z1 == f1
           z2 == z1 \o f2
           z3 == z2 \o f3
           z4 == z3 \o f4
           z5 == z4 \o f5
           z6 == z5 \o f6
           z7 == z6 \o f7
           z8 == z7 \o f8
           z9 == z8 \o f9
           z10 == z9 \o f10
<1> HIDE DEF z2, z3, z4, z5, z6, z7, z8, z9, z10
<1>30. /\ RuleList(z2, p) /\ (Passes(z2, p) <=> Passes(z1, p) /\ Passes(f2, p))
       /\ Verdict(z2, p) = IF Passes(z1, p) THEN Verdict(f2, p) ELSE Verdict(z1, p)
  BY <1>11, <1>12, ConcatDecides DEF z2
<1>31. /\ RuleList(z3, p) /\ (Passes(z3, p) <=> Passes(z2, p) /\ Passes(f3, p))
       /\ Verdict(z3, p) = IF Passes(z2, p) THEN Verdict(f3, p) ELSE Verdict(z2, p)
  BY <1>30, <1>13, ConcatDecides DEF z3
<1>32. /\ RuleList(z4, p) /\ (Passes(z4, p) <=> Passes(z3, p) /\ Passes(f4, p))
       /\ Verdict(z4, p) = IF Passes(z3, p) THEN Verdict(f4, p) ELSE Verdict(z3, p)
  BY <1>31, <1>14, ConcatDecides DEF z4
<1>33. /\ RuleList(z5, p) /\ (Passes(z5, p) <=> Passes(z4, p) /\ Passes(f5, p))
       /\ Verdict(z5, p) = IF Passes(z4, p) THEN Verdict(f5, p) ELSE Verdict(z4, p)
  BY <1>32, <1>15, ConcatDecides DEF z5
<1>34. /\ RuleList(z6, p) /\ (Passes(z6, p) <=> Passes(z5, p) /\ Passes(f6, p))
       /\ Verdict(z6, p) = IF Passes(z5, p) THEN Verdict(f6, p) ELSE Verdict(z5, p)
  BY <1>33, <1>16, ConcatDecides DEF z6
<1>35. /\ RuleList(z7, p) /\ (Passes(z7, p) <=> Passes(z6, p) /\ Passes(f7, p))
       /\ Verdict(z7, p) = IF Passes(z6, p) THEN Verdict(f7, p) ELSE Verdict(z6, p)
  BY <1>34, <1>17, ConcatDecides DEF z7
<1>36. /\ RuleList(z8, p) /\ (Passes(z8, p) <=> Passes(z7, p) /\ Passes(f8, p))
       /\ Verdict(z8, p) = IF Passes(z7, p) THEN Verdict(f8, p) ELSE Verdict(z7, p)
  BY <1>35, <1>18, ConcatDecides DEF z8
<1>37. /\ RuleList(z9, p) /\ (Passes(z9, p) <=> Passes(z8, p) /\ Passes(f9, p))
       /\ Verdict(z9, p) = IF Passes(z8, p) THEN Verdict(f9, p) ELSE Verdict(z8, p)
  BY <1>36, <1>19, ConcatDecides DEF z9
<1>38. /\ RuleList(z10, p) /\ (Passes(z10, p) <=> Passes(z9, p) /\ Passes(f10, p))
       /\ Verdict(z10, p) = IF Passes(z9, p) THEN Verdict(f10, p) ELSE Verdict(z9, p)
  BY <1>37, <1>20, ConcatDecides DEF z10
<1>50. ForwardRules(c, active) = z10 BY <1>1 DEF z2, z3, z4, z5, z6, z7, z8, z9, z10
<1>51. Verdict(z10, p) =
         IF ~Passes(f1, p) THEN Verdict(f1, p) ELSE IF ~Passes(f2, p) THEN Verdict(f2, p)
         ELSE IF ~Passes(f3, p) THEN Verdict(f3, p) ELSE IF ~Passes(f4, p) THEN Verdict(f4, p)
         ELSE IF ~Passes(f5, p) THEN Verdict(f5, p) ELSE IF ~Passes(f6, p) THEN Verdict(f6, p)
         ELSE IF ~Passes(f7, p) THEN Verdict(f7, p) ELSE IF ~Passes(f8, p) THEN Verdict(f8, p)
         ELSE IF ~Passes(f9, p) THEN Verdict(f9, p) ELSE Verdict(f10, p)
  BY <1>30, <1>31, <1>32, <1>33, <1>34, <1>35, <1>36, <1>37, <1>38
<1> QED BY <1>2, <1>3, <1>4, <1>5, <1>6, <1>7, <1>8, <1>11, <1>12, <1>13, <1>14, <1>15, <1>16, <1>17,
           <1>18, <1>19, <1>20, <1>50, <1>51 DEF ForwardVerdict

\* The BMC port answers and is not spoken to.
LEMMA BmcInputDecides ==
    ASSUME NEW p, NEW c, c.bmc \in BOOLEAN, NEW family
    PROVE  /\ RuleList(BmcInput(c, family), p)
           /\ Passes(BmcInput(c, family), p) <=> ~(c.bmc /\ p.nf \in family /\ p.i = "bmc")
           /\ ~Passes(BmcInput(c, family), p) =>
                 Verdict(BmcInput(c, family), p) = IF p.ct = "ESTABLISHED" THEN "RETURN" ELSE "DROP"
<1> DEFINE a == Return([nf |-> family, i |-> {"bmc"}, ct |-> Replies])
           b == Drop([nf |-> family, i |-> {"bmc"}])
<1>1. Matches(a, p) <=> p.nf \in family /\ p.i = "bmc" /\ p.ct = "ESTABLISHED"
  BY DEF Matches, Return, Replies
<1>2. Matches(b, p) <=> p.nf \in family /\ p.i = "bmc" BY DEF Matches, Drop
<1>3. a.t = "RETURN" /\ b.t = "DROP" BY DEF Drop, Return
<1>4. BmcInput(c, family) = When(c.bmc, <<a, b>>) BY DEF BmcInput
<1> HIDE DEF a, b
<1>5. /\ RuleList(<<a, b>>, p)
      /\ Passes(<<a, b>>, p) <=> ~Matches(a, p) /\ ~Matches(b, p)
      /\ Verdict(<<a, b>>, p) = IF Matches(a, p) THEN a.t ELSE IF Matches(b, p) THEN b.t ELSE "RETURN"
  BY TwoDecide
<1>6. /\ RuleList(When(c.bmc, <<a, b>>), p)
      /\ Passes(When(c.bmc, <<a, b>>), p) <=> ~c.bmc \/ Passes(<<a, b>>, p)
      /\ Verdict(When(c.bmc, <<a, b>>), p) = IF c.bmc THEN Verdict(<<a, b>>, p) ELSE "RETURN"
  BY <1>5, WhenDecides
<1> QED BY <1>1, <1>2, <1>3, <1>4, <1>5, <1>6

\* What the input chain means for a packet.
Tunnel(p) == p.p = "udp" /\ p.dport = 4789
ToPort(p, ports) == p.nf = "ipv4" /\ p.d = "campus1" /\ p.p = "tcp" /\ p.dport \in ports
BmcReply(p) == IF p.ct = "ESTABLISHED" THEN "RETURN" ELSE "DROP"
InputVerdict(c, p) ==
    IF Tunnel(p) THEN (IF p.i = "mesh" /\ p.s = "mesh2" THEN "RETURN" ELSE "DROP")
    ELSE IF c.bmc /\ p.nf = "ipv4" /\ p.i = "bmc" THEN BmcReply(p)
    ELSE IF p.nf = "ipv4" /\ p.i = "pguest" THEN
             (IF p.ct = "ESTABLISHED" \/ p.p = "icmp" THEN "RETURN" ELSE "DROP")
    ELSE IF p.nf = "ipv4" /\ p.i = "pinfra" /\ p.p = "tcp" /\ p.dport \in {22, 8006, 3128, 111} THEN
             (IF p.s = c.api /\ p.dport = 8006 THEN "RETURN" ELSE "DROP")
    ELSE IF "ingress" \in c.has /\ ToPort(p, {24080, 24443}) THEN "DROP"
    ELSE IF "ssh" \in c.has /\ ToPort(p, {2224}) THEN "DROP"
    ELSE IF c.bmc /\ p.nf = "ipv6" /\ p.i = "bmc" THEN BmcReply(p)
    ELSE IF p.nf = "ipv6" /\ p.i \in VNets THEN "DROP" ELSE "RETURN"

\* The input chain is that chain of conditions.
LEMMA InputDecides ==
    ASSUME NEW p, NEW c, c.bmc \in BOOLEAN
    PROVE  Verdict(InputRules(c), p) = InputVerdict(c, p)
<1> DEFINE a1 == Return([i |-> {"mesh"}, s |-> {"mesh2"}, p |-> {"udp"}, dport |-> {4789}])
           a2 == Drop([p |-> {"udp"}, dport |-> {4789}])
           b1 == Return([nf |-> V4, i |-> {"pguest"}, ct |-> Replies])
           b2 == Return([nf |-> V4, i |-> {"pguest"}, p |-> {"icmp"}])
           b3 == Drop([nf |-> V4, i |-> {"pguest"}])
           b4 == Return([nf |-> V4, i |-> {"pinfra"}, s |-> {c.api}, p |-> {"tcp"}, dport |-> {8006}])
           b5 == Drop([nf |-> V4, i |-> {"pinfra"}, p |-> {"tcp"}, dport |-> {22, 8006, 3128, 111}])
           d1 == Drop([nf |-> V4, d |-> {"campus1"}, p |-> {"tcp"}, dport |-> {24080, 24443}])
           d2 == Drop([nf |-> V4, d |-> {"campus1"}, p |-> {"tcp"}, dport |-> {2224}])
           d3 == Drop([nf |-> V6, i |-> VNets])
           ingress == "ingress" \in c.has
           ssh == "ssh" \in c.has
           f1 == <<a1, a2>>
           f2 == BmcInput(c, V4)
           f3 == <<b1, b2, b3, b4, b5>>
           f4 == When(ingress, <<d1>>)
           f5 == When(ssh, <<d2>>)
           f6 == BmcInput(c, V6)
           f7 == <<d3>>
<1>1. InputRules(c) = f1 \o f2 \o f3 \o f4 \o f5 \o f6 \o f7 BY DEF InputRules
<1>2. /\ Matches(a1, p) <=> Tunnel(p) /\ p.i = "mesh" /\ p.s = "mesh2"
      /\ Matches(a2, p) <=> Tunnel(p)
      /\ a1.t = "RETURN" /\ a2.t = "DROP"
  <2>1. Matches(a1, p) <=> p.p = "udp" /\ p.dport = 4789 /\ p.i = "mesh" /\ p.s = "mesh2"
    BY DEF Matches, Return
  <2>2. Matches(a2, p) <=> p.p = "udp" /\ p.dport = 4789 BY DEF Matches, Drop
  <2>3. a1.t = "RETURN" /\ a2.t = "DROP" BY DEF Return, Drop
  <2> HIDE DEF a1, a2
  <2> QED BY <2>1, <2>2, <2>3 DEF Tunnel
<1>3. /\ Matches(b1, p) <=> p.nf = "ipv4" /\ p.i = "pguest" /\ p.ct = "ESTABLISHED"
      /\ Matches(b2, p) <=> p.nf = "ipv4" /\ p.i = "pguest" /\ p.p = "icmp"
      /\ Matches(b3, p) <=> p.nf = "ipv4" /\ p.i = "pguest"
      /\ b1.t = "RETURN" /\ b2.t = "RETURN" /\ b3.t = "DROP"
  <2>1. Matches(b1, p) <=> p.nf = "ipv4" /\ p.i = "pguest" /\ p.ct = "ESTABLISHED"
    BY DEF Matches, Return, V4, Replies
  <2>2. Matches(b2, p) <=> p.nf = "ipv4" /\ p.i = "pguest" /\ p.p = "icmp" BY DEF Matches, Return, V4
  <2>3. Matches(b3, p) <=> p.nf = "ipv4" /\ p.i = "pguest" BY DEF Matches, Drop, V4
  <2>4. b1.t = "RETURN" /\ b2.t = "RETURN" /\ b3.t = "DROP" BY DEF Return, Drop
  <2> HIDE DEF b1, b2, b3
  <2> QED BY <2>1, <2>2, <2>3, <2>4
<1>4. /\ Matches(b4, p) <=> p.nf = "ipv4" /\ p.i = "pinfra" /\ p.s = c.api /\ p.p = "tcp" /\ p.dport = 8006
      /\ Matches(b5, p) <=> p.nf = "ipv4" /\ p.i = "pinfra" /\ p.p = "tcp" /\ p.dport \in {22, 8006, 3128, 111}
      /\ b4.t = "RETURN" /\ b5.t = "DROP"
  <2>1. Matches(b4, p) <=> p.nf = "ipv4" /\ p.i = "pinfra" /\ p.s = c.api /\ p.p = "tcp" /\ p.dport = 8006
    BY DEF Matches, Return, V4
  <2>2. Matches(b5, p) <=> p.nf = "ipv4" /\ p.i = "pinfra" /\ p.p = "tcp" /\ p.dport \in {22, 8006, 3128, 111}
    BY DEF Matches, Drop, V4
  <2>3. b4.t = "RETURN" /\ b5.t = "DROP" BY DEF Return, Drop
  <2> HIDE DEF b4, b5
  <2> QED BY <2>1, <2>2, <2>3
<1>5. /\ Matches(d1, p) <=> ToPort(p, {24080, 24443})
      /\ Matches(d2, p) <=> ToPort(p, {2224})
      /\ Matches(d3, p) <=> p.nf = "ipv6" /\ p.i \in VNets
      /\ d1.t = "DROP" /\ d2.t = "DROP" /\ d3.t = "DROP"
  <2>1. Matches(d1, p) <=> ToPort(p, {24080, 24443}) BY DEF Matches, Drop, V4, ToPort
  <2>2. Matches(d2, p) <=> ToPort(p, {2224}) BY DEF Matches, Drop, V4, ToPort
  <2>3. Matches(d3, p) <=> p.nf = "ipv6" /\ p.i \in VNets BY DEF Matches, Drop, V6
  <2>4. d1.t = "DROP" /\ d2.t = "DROP" /\ d3.t = "DROP" BY DEF Drop
  <2> HIDE DEF d1, d2, d3
  <2> QED BY <2>1, <2>2, <2>3, <2>4
<1>6. ingress \in BOOLEAN /\ ssh \in BOOLEAN OBVIOUS
<1> HIDE DEF a1, a2, b1, b2, b3, b4, b5, d1, d2, d3
<1>11. /\ RuleList(f1, p) /\ (Passes(f1, p) <=> ~Tunnel(p))
       /\ ~Passes(f1, p) => Verdict(f1, p) = IF p.i = "mesh" /\ p.s = "mesh2" THEN "RETURN" ELSE "DROP"
  BY <1>2, TwoDecide
<1>12. /\ RuleList(f2, p) /\ (Passes(f2, p) <=> ~(c.bmc /\ p.nf = "ipv4" /\ p.i = "bmc"))
       /\ ~Passes(f2, p) => Verdict(f2, p) = BmcReply(p)
  BY BmcInputDecides DEF V4, BmcReply
<1>13. /\ RuleList(f3, p)
       /\ Passes(f3, p) <=> ~(\/ p.nf = "ipv4" /\ p.i = "pguest"
                              \/ p.nf = "ipv4" /\ p.i = "pinfra" /\ p.p = "tcp" /\ p.dport \in {22, 8006, 3128, 111})
       /\ ~Passes(f3, p) =>
             Verdict(f3, p) = IF p.i = "pguest"
                              THEN (IF p.ct = "ESTABLISHED" \/ p.p = "icmp" THEN "RETURN" ELSE "DROP")
                              ELSE (IF p.s = c.api /\ p.dport = 8006 THEN "RETURN" ELSE "DROP")
  <2>1. /\ RuleList(f3, p)
        /\ Passes(f3, p) <=> ~Matches(b1, p) /\ ~Matches(b2, p) /\ ~Matches(b3, p) /\ ~Matches(b4, p) /\ ~Matches(b5, p)
        /\ Verdict(f3, p) = IF Matches(b1, p) THEN b1.t ELSE IF Matches(b2, p) THEN b2.t ELSE
                            IF Matches(b3, p) THEN b3.t ELSE IF Matches(b4, p) THEN b4.t ELSE
                            IF Matches(b5, p) THEN b5.t ELSE "RETURN"
    BY FiveDecide
  <2> HIDE DEF f3
  <2> QED BY <2>1, <1>3, <1>4
<1>14. /\ RuleList(f4, p) /\ (Passes(f4, p) <=> ~(ingress /\ Matches(d1, p)))
       /\ ~Passes(f4, p) => Verdict(f4, p) = "DROP"
  <2>1. /\ RuleList(<<d1>>, p) /\ (Passes(<<d1>>, p) <=> ~Matches(d1, p))
        /\ Matches(d1, p) => Verdict(<<d1>>, p) = "DROP"
    BY <1>5, OneDecides
  <2> HIDE DEF ingress
  <2> QED BY <2>1, <1>6, WhenDecides
<1>15. /\ RuleList(f5, p) /\ (Passes(f5, p) <=> ~(ssh /\ Matches(d2, p)))
       /\ ~Passes(f5, p) => Verdict(f5, p) = "DROP"
  <2>1. /\ RuleList(<<d2>>, p) /\ (Passes(<<d2>>, p) <=> ~Matches(d2, p))
        /\ Matches(d2, p) => Verdict(<<d2>>, p) = "DROP"
    BY <1>5, OneDecides
  <2> HIDE DEF ssh
  <2> QED BY <2>1, <1>6, WhenDecides
<1>16. /\ RuleList(f6, p) /\ (Passes(f6, p) <=> ~(c.bmc /\ p.nf = "ipv6" /\ p.i = "bmc"))
       /\ ~Passes(f6, p) => Verdict(f6, p) = BmcReply(p)
  BY BmcInputDecides DEF V6, BmcReply
<1>17. /\ RuleList(f7, p)
       /\ Verdict(f7, p) = IF p.nf = "ipv6" /\ p.i \in VNets THEN "DROP" ELSE "RETURN"
  BY <1>5, OneDecides
<1> HIDE DEF f1, f2, f3, f4, f5, f6, f7
<1> DEFINE z2 == f1 \o f2
           z3 == z2 \o f3
           z4 == z3 \o f4
           z5 == z4 \o f5
           z6 == z5 \o f6
           z7 == z6 \o f7
<1> HIDE DEF z2, z3, z4, z5, z6, z7
<1>22. /\ RuleList(z2, p) /\ (Passes(z2, p) <=> Passes(f1, p) /\ Passes(f2, p))
       /\ Verdict(z2, p) = IF Passes(f1, p) THEN Verdict(f2, p) ELSE Verdict(f1, p)
  BY <1>11, <1>12, ConcatDecides DEF z2
<1>23. /\ RuleList(z3, p) /\ (Passes(z3, p) <=> Passes(z2, p) /\ Passes(f3, p))
       /\ Verdict(z3, p) = IF Passes(z2, p) THEN Verdict(f3, p) ELSE Verdict(z2, p)
  BY <1>22, <1>13, ConcatDecides DEF z3
<1>24. /\ RuleList(z4, p) /\ (Passes(z4, p) <=> Passes(z3, p) /\ Passes(f4, p))
       /\ Verdict(z4, p) = IF Passes(z3, p) THEN Verdict(f4, p) ELSE Verdict(z3, p)
  BY <1>23, <1>14, ConcatDecides DEF z4
<1>25. /\ RuleList(z5, p) /\ (Passes(z5, p) <=> Passes(z4, p) /\ Passes(f5, p))
       /\ Verdict(z5, p) = IF Passes(z4, p) THEN Verdict(f5, p) ELSE Verdict(z4, p)
  BY <1>24, <1>15, ConcatDecides DEF z5
<1>26. /\ RuleList(z6, p) /\ (Passes(z6, p) <=> Passes(z5, p) /\ Passes(f6, p))
       /\ Verdict(z6, p) = IF Passes(z5, p) THEN Verdict(f6, p) ELSE Verdict(z5, p)
  BY <1>25, <1>16, ConcatDecides DEF z6
<1>27. /\ RuleList(z7, p) /\ (Passes(z7, p) <=> Passes(z6, p) /\ Passes(f7, p))
       /\ Verdict(z7, p) = IF Passes(z6, p) THEN Verdict(f7, p) ELSE Verdict(z6, p)
  BY <1>26, <1>17, ConcatDecides DEF z7
<1>30. InputRules(c) = z7 BY <1>1 DEF z2, z3, z4, z5, z6, z7
<1>31. Verdict(z7, p) =
         IF ~Passes(f1, p) THEN Verdict(f1, p) ELSE IF ~Passes(f2, p) THEN Verdict(f2, p)
         ELSE IF ~Passes(f3, p) THEN Verdict(f3, p) ELSE IF ~Passes(f4, p) THEN Verdict(f4, p)
         ELSE IF ~Passes(f5, p) THEN Verdict(f5, p) ELSE IF ~Passes(f6, p) THEN Verdict(f6, p)
         ELSE Verdict(f7, p)
  BY <1>22, <1>23, <1>24, <1>25, <1>26, <1>27
<1> QED BY <1>5, <1>11, <1>12, <1>13, <1>14, <1>15, <1>16, <1>17, <1>30, <1>31 DEF InputVerdict

\* What the chains let through is the policy.
LEMMA ForwardIsPolicy ==
    ASSUME NEW c, c.bmc \in BOOLEAN, ValidateConfig(c), NEW active \in BOOLEAN,
           NEW p, p.nf \in {"ipv4", "ipv6"}, ForwardVerdict(c, active, p) = "RETURN"
    PROVE  ForwardPolicy(c, active, p)
<1>1. ~BmcPort(c, V4, p) /\ ~BmcPort(c, V6, p)
  <2>1. V4 \cap V6 = {} BY DEF V4, V6
  <2> QED BY <2>1 DEF ForwardVerdict, BmcPort, Within, Crosses, TransitHit, DnatHit, RelayHit, BackupHit,
                 Between, SshOverRelay, VNets, V4, V6
<1>2. c.bmc => "bmc" \notin {p.i, p.o} BY <1>1 DEF BmcPort, V4, V6
<1>3. CASE p.nf = "ipv6" /\ Crosses(p)
  <2>1. Within(p) BY <1>3 DEF ForwardVerdict, TransitHit, DnatHit, RelayHit, BackupHit
  <2> QED BY <2>1, <1>2 DEF ForwardPolicy, Within
<1>4. CASE ~Crosses(p) BY <1>4, <1>2 DEF ForwardPolicy, Crosses
<1>5. CASE p.nf = "ipv4" /\ Crosses(p)
  <2>1. Within(p) => p.i = p.o BY DEF Within
  <2>2. p.i = "uplink" /\ p.o \in VNets /\ p.ct = "ESTABLISHED" => MayEnter(c, active, p) /\ p.i \notin VNets
    BY DEF MayEnter, VNets
  <2>3. p.i \in VNets /\ p.o = "uplink" /\ active /\ ~(p.i = "pguest" /\ p.d \in NodeAddresses)
          => MayLeave(c, active, p) /\ p.o \notin VNets
    BY DEF MayLeave, VNets
  <2>4. Between(c, p) => MayEnter(c, active, p) /\ MayLeave(c, active, p)
    BY DEF Between, MayEnter, MayLeave, VNets
  <2>5. active /\ TransitHit(c, p) /\ ~SshOverRelay(c, p) => MayEnter(c, active, p) /\ p.i \notin VNets
    BY DEF TransitHit, DnatHit, RelayHit, SshOverRelay, MayEnter, VNets, Outside,
           ValidateConfig, ValidIngress, ValidSshTransit, ValidRelayTransit
  <2>6. active /\ BackupHit(c, p) =>
          /\ p.o \in VNets => MayEnter(c, active, p)
          /\ p.i \in VNets => MayLeave(c, active, p)
    BY DEF BackupHit, MayEnter, MayLeave, VNets, Outside, ValidateConfig, ValidBackup
  <2>7. \/ Within(p)
        \/ p.i = "uplink" /\ p.o \in VNets /\ p.ct = "ESTABLISHED"
        \/ p.i \in VNets /\ p.o = "uplink" /\ active /\ ~(p.i = "pguest" /\ p.d \in NodeAddresses)
        \/ active /\ TransitHit(c, p) /\ ~SshOverRelay(c, p)
        \/ Between(c, p) \/ (active /\ BackupHit(c, p))
    BY <1>5, <1>1 DEF ForwardVerdict
  <2> QED BY <2>1, <2>2, <2>3, <2>4, <2>5, <2>6, <2>7, <1>2, <1>5 DEF ForwardPolicy
<1> QED BY <1>3, <1>4, <1>5

LEMMA InputIsPolicy ==
    ASSUME NEW c, c.bmc \in BOOLEAN, NEW p, p.nf \in {"ipv4", "ipv6"}, InputVerdict(c, p) = "RETURN"
    PROVE  InputPolicy(c, p)
BY DEF InputPolicy, InputVerdict, Tunnel, ToPort, BmcReply, VNets

\* The packets to the published ports, before and after their redirection.
LEMMA KnockIs ==
    ASSUME NEW x
    PROVE  /\ Knock(x).nf = "ipv4" /\ Knock(x).i = "uplink" /\ Knock(x).o = "local"
           /\ Knock(x).s = x.of.source /\ Knock(x).d = "campus1" /\ Knock(x).p = "tcp"
           /\ Knock(x).dport = x.port /\ Knock(x).ct = "NEW"
BY DEF Knock

Redirected(service, p) ==
    [p EXCEPT !.o = "pinfra", !.d = service.destination, !.orig = <<p.d, p.dport>>]

LEMMA RedirectedIs ==
    ASSUME NEW x, NEW service
    PROVE  LET q == Redirected(service, Knock(x)) IN
           /\ q.nf = "ipv4" /\ q.i = "uplink" /\ q.o = "pinfra" /\ q.s = x.of.source
           /\ q.d = service.destination /\ q.p = "tcp" /\ q.dport = x.port /\ q.ct = "NEW"
           /\ q.orig = <<"campus1", x.port>>
BY DEF Redirected, Knock

\* A published port is reached with the role and refused without it.
LEMMA PublishedIsReached ==
    ASSUME NEW c, c.bmc \in BOOLEAN, NEW active \in BOOLEAN, NEW x \in Published(c)
    PROVE  Reached(c, active, x, Dnat(c, active, Knock(x)))
<1> DEFINE k == Knock(x)
           q == Dnat(c, active, k)
<1>1. \/ "ingress" \in c.has /\ x.of = c.ingress /\ x.port \in {24080, 24443}
      \/ "ssh" \in c.has /\ x.of = c.ssh /\ x.port = 2224
  BY DEF Published
<1>2. /\ k.nf = "ipv4" /\ k.i = "uplink" /\ k.o = "local" /\ k.s = x.of.source
      /\ k.d = "campus1" /\ k.p = "tcp" /\ k.dport = x.port /\ k.ct = "NEW"
  BY KnockIs
<1>3. CASE ~active
  <2>1. q = k BY <1>3 DEF Dnat
  <2>2. InputVerdict(c, k) = "DROP"
    <3> HIDE DEF k
    <3> QED BY <1>1, <1>2 DEF InputVerdict, Tunnel, ToPort, VNets
  <2>3. Verdict(InputRules(c), k) = "DROP" BY <2>2, InputDecides
  <2> QED BY <2>1, <2>3, <1>2, <1>3 DEF Reached
<1>4. CASE active
  <2>1. q = Redirected(x.of, k)
    <3> HIDE DEF k
    <3>1. CASE "ingress" \in c.has /\ x.of = c.ingress /\ x.port \in {24080, 24443}
      BY <3>1, <1>2, <1>4 DEF Dnat, Redirected
    <3>2. CASE "ssh" \in c.has /\ x.of = c.ssh /\ x.port = 2224
      BY <3>2, <1>2, <1>4 DEF Dnat, Redirected
    <3> QED BY <1>1, <3>1, <3>2
  <2>2. /\ q.nf = "ipv4" /\ q.i = "uplink" /\ q.o = "pinfra" /\ q.s = x.of.source
        /\ q.d = x.of.destination /\ q.p = "tcp" /\ q.dport = x.port /\ q.ct = "NEW"
        /\ q.orig = <<"campus1", x.port>>
    BY <2>1, RedirectedIs
  <2> HIDE DEF q
  <2>3. TransitHit(c, q) BY <1>1, <2>2 DEF TransitHit, DnatHit
  <2>4. ForwardVerdict(c, active, q) = "RETURN"
    BY <2>2, <2>3, <1>4 DEF ForwardVerdict, BmcPort, SshOverRelay, Within, VNets
  <2>5. Verdict(ForwardRules(c, active), q) = "RETURN" BY <2>4, ForwardDecides
  <2> QED BY <2>2, <2>5, <1>4 DEF q, Reached
<1> QED BY <1>3, <1>4

\* What is installed was validated.
PlanIsValid ==
    \/ plan = <<>>
    \/ \E c \in Candidates, active \in BOOLEAN : plan = <<c, active>> /\ ValidateConfig(c)

LEMMA PlanImpliesPolicy == PlanIsValid => PolicyHolds
<1> SUFFICES ASSUME PlanIsValid, plan # <<>> PROVE PolicyHolds BY DEF PolicyHolds
<1>1. PICK c \in Candidates, active \in BOOLEAN : plan = <<c, active>> /\ ValidateConfig(c)
  BY DEF PlanIsValid
<1>2. plan[1] = c /\ plan[2] = active BY <1>1
<1>3. c.bmc \in BOOLEAN BY FirewallAssumption
<1>4. ASSUME NEW p \in Packets
      PROVE  /\ Verdict(ForwardRules(c, active), p) = "RETURN" => ForwardPolicy(c, active, p)
             /\ Verdict(InputRules(c), p) = "RETURN" => InputPolicy(c, p)
  <2>1. p.nf \in {"ipv4", "ipv6"} BY FirewallAssumption
  <2>2. Verdict(ForwardRules(c, active), p) = ForwardVerdict(c, active, p) BY <1>3, ForwardDecides
  <2>3. Verdict(InputRules(c), p) = InputVerdict(c, p) BY <1>3, InputDecides
  <2> QED BY <2>1, <2>2, <2>3, <1>1, <1>3, ForwardIsPolicy, InputIsPolicy
<1>5. ASSUME NEW x \in Published(c) PROVE Reached(c, active, x, Dnat(c, active, Knock(x)))
  BY <1>3, PublishedIsReached
<1>6. \A p \in Packets :
        /\ p.o # "local" /\ Verdict(ForwardRules(c, active), p) = "RETURN" => ForwardPolicy(c, active, p)
        /\ p.o = "local" /\ Verdict(InputRules(c), p) = "RETURN" => InputPolicy(c, p)
  BY <1>4
<1>7. \A x \in Published(c) : Reached(c, active, x, Dnat(c, active, Knock(x))) BY <1>5
<1> QED BY <1>2, <1>6, <1>7 DEF PolicyHolds

(* The rules firewall_plan makes of any configuration that validate_config *)
(* accepts, with the gateway role or without it, let through what the      *)
(* policy names and nothing else: PolicyHolds for every set of candidates  *)
(* and packets.                                                            *)
THEOREM PlansKeepThePolicy == FirewallSpec => []PolicyHolds
<1>1. FirewallInit => PlanIsValid BY DEF FirewallInit, PlanIsValid
<1>2. PlanIsValid /\ [FirewallNext]_plan => PlanIsValid'
  BY DEF PlanIsValid, FirewallNext, InstallPlan, RemovePlan
<1> QED BY <1>1, <1>2, PlanImpliesPolicy, PTL DEF FirewallSpec
=============================================================================
