-------------------------- MODULE HealthTransport --------------------------
(***************************************************************************)
(* Health results carried over two SSH hops.  Hop 1 imports the gateway    *)
(* host's results to the collector, hop 2 the collector's to the observer. *)
(* health-result-reader.py answers a hop from the files on its host;       *)
(* health-result-importer.py validates the answer and replaces the files   *)
(* on its own.  Besides the reports a hop carries an attestation, the      *)
(* permission to probe with the diagnostic identity, which the gateway     *)
(* issues for a short time and which each hop must revoke before anything  *)
(* of an import can fail.                                                  *)
(*                                                                         *)
(* A tick of the clock is longer than the 30 s a remote clock may be       *)
(* ahead.  The issuer is outside the repository: it writes a valid         *)
(* attestation for at most Validity ticks, or an invalid one.              *)
(***************************************************************************)
EXTENDS Naturals, FiniteSets

CONSTANTS
    Sources,        \* reports of a bundle
    Validity,       \* 180 s: the longest life of an attestation
    MaxAge,         \* 120 s: the oldest bundle an importer takes
    MaxTime,        \* bound: ticks of the clock
    MaxImports      \* bound: imports of both hops together

VARIABLES
    time,
    attestation,    \* the gateway's own file
    granted,        \* every valid attestation the gateway has issued
    hop,            \* files of each importer: policy, last_check, reports, result
                    \* (and the imports that passed last and that wrote the result)
    import,         \* the process of each importer
    imports

transportVars == <<time, attestation, granted, hop, import, imports>>

Hops == 1 .. 2

Never == 0          \* no import yet; the clock starts at 1

\* Its times are the moment it was written, which no later check depends on:
\* a bundle whose reader wrote one is itself refused when it is of the future.
InvalidPolicy == [valid |-> FALSE, issued |-> 0, expires |-> 0]

\* A report on disk: none, of the last bundle that passed, or of one before.
NoReports == [s \in Sources |-> "none"]

Idle == [pc |-> "idle", now |-> 0, number |-> 0, policy |-> InvalidPolicy,
         todo |-> {}]

TransportInit ==
    /\ time = 1
    /\ attestation = InvalidPolicy
    /\ granted = {}
    /\ hop = [h \in Hops |-> [policy |-> InvalidPolicy, lastCheck |-> Never,
                              reports |-> NoReports, result |-> "none", bundle |-> 0, by |-> 0]]
    /\ import = [h \in Hops |-> Idle]
    /\ imports = 0

\* The clock runs, and may be set back.
ClockMoves ==
    /\ time' \in {time + 1, time - 1} \cap 1 .. MaxTime
    /\ UNCHANGED <<attestation, granted, hop, import, imports>>

GatewayIssues ==
    /\ attestation' \in
         {[valid |-> TRUE, issued |-> time, expires |-> time + d] : d \in 1 .. Validity}
    /\ granted' = granted \cup {attestation'}
    /\ UNCHANGED <<time, hop, import, imports>>

GatewayRevokes ==
    /\ attestation.valid
    /\ attestation' = InvalidPolicy
    /\ UNCHANGED <<time, granted, hop, import, imports>>

-----------------------------------------------------------------------------
\* sanitize_policy(): raises unless this holds.
PolicySane(p, now) ==
    /\ p.issued <= now
    /\ IF p.valid
       THEN now <= p.expires /\ p.expires - p.issued \in 1 .. Validity
       ELSE p.expires = p.issued

\* collect(): the answer at this moment.  What a reader cannot vouch for it
\* replaces, a report by an observer error and a policy by an invalid one.
Collected(h) ==
    LET file == IF h = 1 THEN attestation ELSE hop[1].policy
    IN  IF PolicySane(file, time) THEN file ELSE InvalidPolicy

\* inspect_envelope(): the importer judges the answer by its own clock, read
\* before it took its lock.  A report it cannot accept refuses the bundle.
BundleSane(policy, now, reportsSane) ==
    /\ time <= now /\ now <= time + MaxAge
    /\ reportsSane
    /\ PolicySane(policy, now)

SetImport(h, r) == import' = [import EXCEPT ![h] = r]
Goto(h, pc) == import' = [import EXCEPT ![h].pc = pc]

\* MUTANT of ImportStarts: the old permission stands until the import has its answer.
ImportStartsUnrevoked(h) ==
    /\ import[h].pc = "idle"
    /\ imports < MaxImports
    /\ SetImport(h, [Idle EXCEPT !.pc = "check", !.now = time, !.number = imports + 1])
    /\ imports' = imports + 1
    /\ UNCHANGED <<time, attestation, granted, hop>>

\* run(): the lock is taken or the import does not start.  The previous
\* permission is revoked before validation or remote I/O.
ImportStarts(h) ==
    /\ import[h].pc = "idle"
    /\ imports < MaxImports
    /\ hop' = [hop EXCEPT ![h].policy = InvalidPolicy]
    /\ SetImport(h, [Idle EXCEPT !.pc = "check", !.now = time, !.number = imports + 1])
    /\ imports' = imports + 1
    /\ UNCHANGED <<time, attestation, granted>>

\* state.json: a clock that moved backwards ends the import.
ImportChecksClock(h) ==
    /\ import[h].pc = "check"
    /\ IF import[h].now < hop[h].lastCheck
       THEN SetImport(h, Idle) /\ UNCHANGED hop
       ELSE /\ hop' = [hop EXCEPT ![h].lastCheck = import[h].now]
            /\ Goto(h, "fetch")
    /\ UNCHANGED <<time, attestation, granted, imports>>

\* bounded_process() and inspect_envelope(): a complete valid bundle, or a
\* failure (refused SSH, timeout, too large, a bad field).
ImportFetches(h) ==
    /\ import[h].pc = "fetch"
    /\ \E answered, reportsSane \in BOOLEAN :
         IF answered /\ BundleSane(Collected(h), import[h].now, reportsSane)
         THEN /\ SetImport(h, [import[h] EXCEPT !.pc = "reports",
                                 !.policy = Collected(h), !.todo = Sources])
              /\ hop' = [hop EXCEPT ![h].bundle = import[h].number,
                           ![h].reports =
                             [s \in Sources |-> IF @[s] = "none" THEN "none" ELSE "earlier"]]
         ELSE Goto(h, "refused") /\ UNCHANGED hop
    /\ UNCHANGED <<time, attestation, granted, imports>>

\* One file after the other; a write that fails refuses the import with the
\* files before it already replaced.
ImportWritesReport(h) ==
    /\ import[h].pc = "reports" /\ import[h].todo # {}
    /\ \E s \in import[h].todo :
         \/ /\ hop' = [hop EXCEPT ![h].reports[s] = "last"]
            /\ import' = [import EXCEPT ![h].todo = @ \ {s}]
         \/ /\ Goto(h, "refused")
            /\ UNCHANGED hop
    /\ UNCHANGED <<time, attestation, granted, imports>>

ImportWritesPolicy(h) ==
    /\ import[h].pc = "reports" /\ import[h].todo = {}
    /\ \/ /\ hop' = [hop EXCEPT ![h].policy = import[h].policy]
          /\ Goto(h, "verified")
       \/ /\ Goto(h, "refused")
          /\ UNCHANGED hop
    /\ UNCHANGED <<time, attestation, granted, imports>>

\* The except branch: the policy is invalid, the result an observer error.
ImportRefused(h) ==
    /\ import[h].pc = "refused"
    /\ hop' = [hop EXCEPT ![h].policy = InvalidPolicy]
    /\ Goto(h, "failed")
    /\ UNCHANGED <<time, attestation, granted, imports>>

\* result.json; when it cannot be written the permission goes again.
ImportWritesResult(h) ==
    /\ import[h].pc \in {"verified", "failed"}
    /\ \/ hop' = [hop EXCEPT
             ![h].result = IF import[h].pc = "verified" THEN "HEALTHY" ELSE "OBSERVER_ERROR",
             ![h].by = import[h].number]
       \/ hop' = [hop EXCEPT ![h].policy = InvalidPolicy]
    /\ SetImport(h, Idle)
    /\ UNCHANGED <<time, attestation, granted, imports>>

ImportKilled(h) ==
    /\ import[h].pc # "idle"
    /\ SetImport(h, Idle)
    /\ UNCHANGED <<time, attestation, granted, hop, imports>>

ImportNext(h) ==
    \/ ImportStarts(h)
    \/ ImportChecksClock(h)
    \/ ImportFetches(h)
    \/ ImportWritesReport(h)
    \/ ImportWritesPolicy(h)
    \/ ImportRefused(h)
    \/ ImportWritesResult(h)
    \/ ImportKilled(h)

TransportNext ==
    \/ ClockMoves
    \/ GatewayIssues
    \/ GatewayRevokes
    \/ \E h \in Hops : ImportNext(h)

TransportSpec == TransportInit /\ [][TransportNext]_transportVars

-----------------------------------------------------------------------------
(***************************************************************************)
(* A permission on disk at either hop is one the gateway issued, to the    *)
(* tick, however many readers and importers passed it on, and the last     *)
(* import that began there began while it was alive: an import that was    *)
(* refused, cut short or answered by an older file leaves none behind      *)
(* (health-result-importer.py: "Revoke the previous permission before      *)
(* validation or remote I/O").                                             *)
(***************************************************************************)
PermissionIsCurrent ==
    \A h \in Hops :
      LET p == hop[h].policy
      IN  p.valid => /\ p \in granted
                     /\ p.issued <= hop[h].lastCheck
                     /\ hop[h].lastCheck <= p.expires

\* "The complete bundle is validated before any selected result changes":
\* until another import passes its validation, a HEALTHY result stands on
\* reports that are all of the bundle it was written for.
ResultCoversBundle ==
    \A h \in Hops :
      (hop[h].result = "HEALTHY" /\ hop[h].by = hop[h].bundle)
        => \A s \in Sources : hop[h].reports[s] = "last"

\* Neither a permission nor a HEALTHY result outlives what the last import
\* verified (the two formulas above).
ImportsAreVerified ==
    PermissionIsCurrent /\ ResultCoversBundle
=============================================================================
