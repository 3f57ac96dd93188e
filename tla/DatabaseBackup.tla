--------------------------- MODULE DatabaseBackup ---------------------------
(***************************************************************************)
(* scripts/lib/db_pbs_backup.py and scripts/verify-production-backup.py:   *)
(* the database's recovery points on a Proxmox Backup Server.              *)
(*                                                                         *)
(* A point is a pair of snapshots of one epoch: the data, and a proof that *)
(* is published only after the data was read back.  The backup job makes   *)
(* them and retires old pairs; the monitor and the release verifier read   *)
(* them from another host, without a lock, while it does.  Epochs are      *)
(* seconds of a clock that may be stepped back.  Any call may fail, with   *)
(* or without effect, and the job may be killed between any two steps.     *)
(*                                                                         *)
(* Left out: the source and configuration checks, which refuse a run       *)
(* before it changes anything, and the keep-daily and keep-weekly rules    *)
(* (PBS selects what to keep; keep-last stands for all three).             *)
(***************************************************************************)
EXTENDS Naturals, FiniteSets, FiniteSetsExt, Functions

CONSTANTS
    Keep,           \* --keep-last
    WarningAge,     \* WARNING_AGE: a point this old is no longer HEALTHY
    FailedAge,      \* FAILED_AGE
    ReleaseAge,     \* maximum_point_age_seconds of the verifier
    MaxEpoch,       \* bound: the clock
    MaxMishaps      \* bound: kills, clock steps and changes by others together

ASSUME BackupAssumption ==
    /\ Keep \in Nat \ {0} /\ WarningAge \in Nat \ {0} /\ ReleaseAge \in Nat
    /\ FailedAge \in Nat /\ WarningAge < FailedAge
    /\ MaxEpoch \in Nat \ {0} /\ MaxMishaps \in Nat

VARIABLES
    now,        \* the wall clock
    data,       \* epoch -> [body, print, failed], the data snapshots
    proofs,     \* epoch -> [print, verified], the proof snapshots
    checkpoint, \* checkpoint.json: 0, or the epoch of the last point
    spool,      \* [id, epoch, status], the local attempts
    backup,     \* the job: [pc, id, epoch, print, remove, pairs]
    reader,     \* the monitor or the verifier: [who, pc, epoch, receipt, result, harm]
    harm,       \* changes by others so far
    mishaps     \* counter for the bound

backupVars == <<now, data, proofs, checkpoint, spool, backup, reader, harm, mishaps>>

Readers == {"monitor", "verifier"}
NoBackup == [pc |-> "idle", id |-> 0, epoch |-> 0, print |-> 0, remove |-> {},
             pairs |-> {}]
NoReceipt == [print |-> 0, verified |-> 0]
NoReader == [who |-> "none", pc |-> "idle", epoch |-> 0, receipt |-> NoReceipt,
             result |-> "none", harm |-> 0]

BackupInit ==
    /\ now = 1 /\ data = <<>> /\ proofs = <<>> /\ checkpoint = 0 /\ spool = {}
    /\ backup = NoBackup /\ reader = NoReader
    /\ harm = 0 /\ mishaps = 0

-----------------------------------------------------------------------------
Stored(snapshots, e, value) == [x \in DOMAIN snapshots \cup {e} |->
                                   IF x = e THEN value ELSE snapshots[x]]
Without(snapshots, e) == Restrict(snapshots, DOMAIN snapshots \ {e})

Step(from, to) == backup.pc = from /\ backup' = [backup EXCEPT !.pc = to]
Mishap == mishaps < MaxMishaps /\ mishaps' = mishaps + 1
KeepServer == UNCHANGED <<data, proofs>>
KeepOthers == UNCHANGED <<now, reader, harm, mishaps>>

\* manifest_fingerprint: the identity of a snapshot whose verification the
\* server does not report as failed.
ManifestFingerprint(s) == ~s.failed

\* run_backup takes the job's lock; clean_owned_failed_spool accepts every
\* attempt before it removes any, and keeps the newest.
BackupBegins ==
    /\ Step("idle", "clean")
    /\ \A a \in spool : a.status # "NONE"
    /\ KeepServer /\ UNCHANGED <<checkpoint, spool>> /\ KeepOthers

NewestAttempt == CHOOSE a \in spool : \A b \in spool : b.epoch <= a.epoch

CleanOwnedFailedSpool ==
    /\ Step("clean", "make")
    /\ spool' = IF spool = {} THEN {} ELSE {NewestAttempt}
    /\ KeepServer /\ UNCHANGED checkpoint /\ KeepOthers

\* The attempt's directory, and the epoch, taken before the dump.
MakeAttempt ==
    /\ backup.pc = "make"
    /\ LET id == CHOOSE i \in {1, 2} : \A a \in spool : a.id # i IN
       /\ backup' = [NoBackup EXCEPT !.pc = "named", !.id = id, !.epoch = now]
       /\ spool' = spool \cup {[id |-> id, epoch |-> now, status |-> "NONE"]}
    /\ KeepServer /\ UNCHANGED checkpoint /\ KeepOthers

Marked(status) ==
    {IF a.id = backup.id THEN [a EXCEPT !.status = status] ELSE a : a \in spool}

\* attempt.json, then the dump, the roles and the payload's manifest.
DumpDatabase ==
    /\ Step("named", "dumped")
    /\ spool' = Marked("STARTED")
    /\ KeepServer /\ UNCHANGED checkpoint /\ KeepOthers

\* A manifest nobody has seen: the signature covers what was uploaded.
FreshPrint == CHOOSE p \in 1..(2 * MaxEpoch + 3) :
    /\ \A e \in DOMAIN data : data[e].print # p
    /\ \A e \in DOMAIN proofs : proofs[e].print # p
    /\ p \notin {backup.print, reader.receipt.print}

\* client.backup: a snapshot of this epoch that is already there is refused.
\* The upload may arrive damaged; that is for the read-back to find.
UploadData(body) ==
    /\ Step("dumped", "uploaded")
    /\ backup.epoch \notin DOMAIN data
    /\ data' = Stored(data, backup.epoch, [body |-> body, print |-> FreshPrint, failed |-> FALSE])
    /\ UNCHANGED <<proofs, checkpoint, spool>> /\ KeepOthers

\* MUTANT of ReadBack: the fingerprint of the committed manifest is enough.
ReadBackManifest ==
    /\ backup.pc = "uploaded" /\ backup.epoch \in DOMAIN data
    /\ ManifestFingerprint(data[backup.epoch])
    /\ backup' = [backup EXCEPT !.pc = "verified", !.print = data[backup.epoch].print]
    /\ UNCHANGED <<checkpoint, spool>> /\ KeepServer /\ KeepOthers

\* The manifest is fingerprinted, the archive restored and compared with the
\* payload.
ReadBack ==
    /\ backup.pc = "uploaded" /\ backup.epoch \in DOMAIN data
    /\ ManifestFingerprint(data[backup.epoch]) /\ data[backup.epoch].body = "ok"
    /\ backup' = [backup EXCEPT !.pc = "verified", !.print = data[backup.epoch].print]
    /\ UNCHANGED <<checkpoint, spool>> /\ KeepServer /\ KeepOthers

\* backup_receipt: the proof.
PublishProof ==
    /\ Step("verified", "published")
    /\ backup.epoch \notin DOMAIN proofs
    /\ proofs' = Stored(proofs, backup.epoch, [print |-> backup.print, verified |-> now])
    /\ UNCHANGED <<data, checkpoint, spool>> /\ KeepOthers

\* The receipt is read back; the checkpoint moves only forward.
SaveCheckpoint ==
    /\ Step("published", "saved")
    /\ backup.epoch \in DOMAIN proofs /\ checkpoint < backup.epoch
    /\ checkpoint' = backup.epoch
    /\ UNCHANGED spool /\ KeepServer /\ KeepOthers

-----------------------------------------------------------------------------
\* Retention.

\* External: PBS keeps the newest proofs.
Newest(epochs) == {e \in epochs : Cardinality({x \in epochs : x > e}) < Keep}

\* The preview has to keep the new point; what of the rest has data is listed
\* once, before any pair goes.
PrunePreview ==
    /\ backup.pc = "saved" /\ backup.epoch \in Newest(DOMAIN proofs)
    /\ LET remove == DOMAIN proofs \ Newest(DOMAIN proofs)
       IN  backup' = [backup EXCEPT !.pc = "prune", !.remove = remove,
                                    !.pairs = remove \cap DOMAIN data]
    /\ UNCHANGED <<checkpoint, spool>> /\ KeepServer /\ KeepOthers

\* validate_receipt: a clock that stepped back between the dump and the
\* read-back leaves a receipt that no reader accepts.
ValidReceipt(e) == e \in DOMAIN proofs /\ proofs[e].verified >= e

\* A pair goes data first, when its receipt and its manifest agree.
ForgetData(e) ==
    /\ backup.pc = "prune" /\ e \in backup.pairs
    /\ ValidReceipt(e) /\ e \in DOMAIN data
    /\ ManifestFingerprint(data[e]) /\ data[e].print = proofs[e].print
    /\ data' = Without(data, e)
    /\ backup' = [backup EXCEPT !.pairs = @ \ {e}]
    /\ UNCHANGED <<proofs, checkpoint, spool>> /\ KeepOthers

ForgetProof(e) ==
    /\ backup.pc = "prune" /\ e \in backup.remove \ backup.pairs
    /\ ValidReceipt(e)
    /\ proofs' = Without(proofs, e)
    /\ backup' = [backup EXCEPT !.remove = @ \ {e}]
    /\ UNCHANGED <<data, checkpoint, spool>> /\ KeepOthers

\* maintenance.json records a retention that failed anywhere; the backup
\* itself goes on.
EndRetention ==
    /\ backup.pc \in {"saved", "prune"}
    /\ backup' = [backup EXCEPT !.pc = "done", !.remove = {}, !.pairs = {}]
    /\ UNCHANGED <<checkpoint, spool>> /\ KeepServer /\ KeepOthers

RemoveAttempt ==
    /\ backup.pc = "done" /\ backup' = NoBackup
    /\ spool' = {a \in spool : a.id # backup.id}
    /\ KeepServer /\ UNCHANGED checkpoint /\ KeepOthers

\* Any exception inside the attempt: it is kept, and marked.  A call that
\* failed may have had its effect: the steps above may have been taken.
BackupFails ==
    /\ backup.pc \notin {"idle", "clean", "make", "named"} /\ backup' = NoBackup
    /\ spool' = Marked("FAILED_OR_UNCONFIRMED")
    /\ KeepServer /\ UNCHANGED checkpoint /\ KeepOthers

\* A kill leaves everything as it is; one in the middle of a removal leaves
\* a directory without its record, which the next run will not touch.
BackupKilled(torn) ==
    /\ backup.pc # "idle" /\ backup' = NoBackup
    /\ Mishap
    /\ torn => backup.pc \in {"clean", "done"}
    /\ spool' = IF ~torn THEN spool
                ELSE IF backup.pc = "done" THEN Marked("NONE")
                ELSE {IF a = NewestAttempt THEN a ELSE [a EXCEPT !.status = "NONE"] : a \in spool}
    /\ KeepServer /\ UNCHANGED <<checkpoint, now, reader, harm>>

-----------------------------------------------------------------------------
\* freshness and verify, the readers on the other host.  They only read, so
\* one at a time shows what either of them can meet.
KeepJob == UNCHANGED <<now, data, proofs, checkpoint, spool, backup, harm, mishaps>>

Answer(result) == reader' = [NoReader EXCEPT !.result = result]
InRelease(e) == e <= now /\ now - e <= ReleaseAge

\* The newest proof in the listing is the point to look at.
ListProofs(who) ==
    /\ reader.pc = "idle"
    /\ reader' = IF DOMAIN proofs = {} THEN [NoReader EXCEPT !.result = "FAILED"]
                 ELSE [NoReader EXCEPT !.who = who, !.pc = "proofs",
                                       !.epoch = Max(DOMAIN proofs), !.harm = harm]
    /\ KeepJob

\* A second listing has to show its data.  The verifier looks at the age too.
ListData ==
    /\ reader.pc = "proofs"
    /\ IF reader.epoch \in DOMAIN data /\ (reader.who = "verifier" => InRelease(reader.epoch))
       THEN reader' = [reader EXCEPT !.pc = "listed"] ELSE Answer("FAILED")
    /\ KeepJob

\* The receipt is restored and validated.
ReadReceipt ==
    /\ reader.pc = "listed" /\ ValidReceipt(reader.epoch)
    /\ reader.who = "verifier" => proofs[reader.epoch].verified <= now
    /\ reader' = [reader EXCEPT !.pc = "receipt", !.receipt = proofs[reader.epoch]]
    /\ KeepJob

\* The data's current manifest is the one the receipt names.
Agrees ==
    /\ reader.epoch \in DOMAIN data /\ ManifestFingerprint(data[reader.epoch])
    /\ data[reader.epoch].print = reader.receipt.print

\* The point or its read-back lies in the future.
ClockMovedBackwards == reader.epoch > now \/ reader.receipt.verified > now

\* MUTANT of Judge: the data is there, whatever its manifest.
JudgePresent ==
    /\ reader.who = "monitor" /\ reader.pc = "receipt" /\ reader.epoch \in DOMAIN data
    /\ Answer(IF ClockMovedBackwards \/ now - reader.epoch >= FailedAge THEN "FAILED"
              ELSE IF now - reader.epoch >= WarningAge THEN "WARNING" ELSE "HEALTHY")
    /\ KeepJob

\* freshness ends: the data's manifest, and only then the clock.
Judge ==
    /\ reader.who = "monitor" /\ reader.pc = "receipt" /\ reader.epoch \in DOMAIN data
    /\ Answer(IF ClockMovedBackwards \/ ~Agrees \/ now - reader.epoch >= FailedAge THEN "FAILED"
              ELSE IF now - reader.epoch >= WarningAge THEN "WARNING" ELSE "HEALTHY")
    /\ KeepJob

\* The verifier restores the payload and compares it with the receipt.
VerifyPayload ==
    /\ reader.who = "verifier" /\ reader.pc = "receipt" /\ Agrees
    /\ data[reader.epoch].body = "ok"
    /\ reader' = [reader EXCEPT !.pc = "restored"]
    /\ KeepJob

\* The manifest and the age a second time.
VerifyEnds ==
    /\ reader.pc = "restored" /\ Agrees /\ InRelease(reader.epoch)
    /\ Answer("VERIFIED")
    /\ KeepJob

\* Any call may fail, find its snapshot gone, or run out of time.
ReaderFails == reader.pc # "idle" /\ Answer("FAILED") /\ KeepJob

-----------------------------------------------------------------------------
\* External: time, and what others do to the server: a snapshot is removed,
\* rots, is rewritten, or fails the server's own verification.
Tick ==
    /\ now < MaxEpoch /\ now' = now + 1
    /\ UNCHANGED <<data, proofs, checkpoint, spool, backup, reader, harm, mishaps>>

ClockStepsBack ==
    /\ Mishap /\ now > 1 /\ now' = now - 1
    /\ UNCHANGED <<data, proofs, checkpoint, spool, backup, reader, harm>>

ServerHarm(e, removed, harmed) ==
    /\ Mishap /\ harm' = harm + 1
    /\ data' = IF removed THEN Without(data, e) ELSE [data EXCEPT ![e] = harmed]
    /\ UNCHANGED <<now, proofs, checkpoint, spool, backup, reader>>

BackupNext ==
    \/ BackupBegins \/ CleanOwnedFailedSpool \/ MakeAttempt \/ DumpDatabase
    \/ \E b \in {"ok", "cut"} : UploadData(b)
    \/ ReadBack \/ PublishProof \/ SaveCheckpoint \/ PrunePreview
    \/ \E e \in backup.remove : ForgetData(e) \/ ForgetProof(e)
    \/ EndRetention \/ RemoveAttempt \/ BackupFails
    \/ \E t \in BOOLEAN : BackupKilled(t)
    \/ \E who \in Readers : ListProofs(who)
    \/ ListData \/ ReadReceipt \/ Judge \/ VerifyPayload \/ VerifyEnds \/ ReaderFails
    \/ Tick \/ ClockStepsBack
    \/ \E e \in DOMAIN data :
          \/ ServerHarm(e, TRUE, data[e])
          \/ ServerHarm(e, FALSE, [data[e] EXCEPT !.body = "rot"])
          \/ ServerHarm(e, FALSE, [data[e] EXCEPT !.print = FreshPrint])
          \/ ServerHarm(e, FALSE, [data[e] EXCEPT !.failed = TRUE])

BackupSpec == BackupInit /\ [][BackupNext]_backupVars

-----------------------------------------------------------------------------
(* A proof on the server is never better than its data: data that arrived  *)
(* damaged has no proof, whatever was lost or killed.  The job's own        *)
(* retention never takes the point its checkpoint names, although PBS      *)
(* selects by epoch and a clock stepped back makes a new point an old one; *)
(* and attempts left behind by failures and kills do not pile up.          *)
CheckpointIsRecoverable ==
    /\ \A e \in DOMAIN proofs \cap DOMAIN data :
          data[e].print = proofs[e].print => data[e].body # "cut"
    /\ checkpoint # 0 /\ harm = 0 =>
          checkpoint \in DOMAIN proofs /\ checkpoint \in DOMAIN data
    /\ Cardinality(spool) <= 2

\* The reader answers in this step, in the words its callers act on.
Affirms == reader.pc # "idle" /\ reader'.result \in {"HEALTHY", "VERIFIED"}

(* HEALTHY and VERIFIED are true when they are said, although the reader    *)
(* holds listings and a receipt from before and the job retires pairs in    *)
(* between: the point is still on the server, its manifest is the one its   *)
(* proof names, its upload was whole, it is within the age promised, and    *)
(* for VERIFIED its payload is good.  Harm done while the reader was        *)
(* reading is excepted.                                                     *)
AnswersAreTrue ==
    [][Affirms /\ reader.harm = harm =>
          LET e == reader.epoch
              promised == IF reader.who = "monitor" THEN WarningAge - 1 ELSE ReleaseAge IN
          /\ e <= now /\ now - e <= promised
          /\ e \in DOMAIN proofs /\ e \in DOMAIN data
          /\ data[e].print = proofs[e].print /\ ~data[e].failed
          /\ data[e].body # "cut" /\ (reader.who = "verifier" => data[e].body = "ok")]_backupVars
=============================================================================
