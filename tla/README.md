# Verification of the Pickle infrastructure tools

TLA+ modules for the stateful tools of this repository, TLC configurations that
check them on small instances, and TLAPS proofs of the properties that matter most
for every instance.  Source paths are relative to the repository.

## 1. Inventory

The repository is a set of small programs run by timers, forced SSH commands and
operators on several hosts.  They share no memory.  They meet in files that are
replaced atomically, in an API, in SMTP or a webhook, and in guests changed by one
command after another.  What is hard about them is the same everywhere: a program
may be killed between two commands, an answer may be lost after the effect took
place, a file may be older than what has been seen already, and two programs may
run at the same time up to the lock they share.

| Component | State it keeps | Operations | Meets | Correct when |
| --- | --- | --- | --- | --- |
| Observation sampler (`scripts/lib/observation_runtime.py: sample`) | `state.json` (epoch, last sequence, minute), `latest.json` | reserve a number, probe, publish | the reporter reads `latest.json` over SSH | a number names one sample |
| Observation reporter (`report`, `observation_spool.py`) | checkpoints, quarantine, outbox | drain, import, drain | POSTs to the API | nothing stored is lost, stamped twice or skipped; everything is settled in the end |
| Health monitor (`service-health-monitor.py`, `lib/llm_health.py`) | one track and two mails per source and observer | collect, deliver, publish the summary | probes' reports, SMTP, Discord dispatcher | an event is mailed at most once and while it is true; recovery is stable |
| Deployment (`deploy-environment.py`, `dev-deploy-receiver.py`, `pickle-api-start.py`) | links, releases, webroot and units in guests, receipts, a lock | check, apply with a way back | operators, approvals, backup verifier, services | only whole and approved artifacts, gateway last, true receipts, failures undone |
| Discord alerts (`discord-ops-alerts.py`) | cursors, outbox | collect, enqueue, dispatch | the monitor's two files, a webhook | one alarm per incident, recovery only after its alarm |
| Health result transport (`lib/health_result_transport.py`, `health-result-*.py`) | imported reports, a short-lived permission, `state.json`, `result.json` | read, revoke, import | probes, monitor | a permission or a HEALTHY result never outlives what the last import verified |
| PBS monitors (`pbs-capacity-*.py`, `core-pbs-monitor.py`, `notify` of `lib/db_pbs_backup.py`) | one mail receipt each, the last inventory | probe, compare, notify | PBS, SMTP, Discord dispatcher | a change is mailed at most once, what is said of PBS is so |
| Database backup (`lib/db_pbs_backup.py`, `verify-production-backup.py`) | local attempts, data and proof snapshots, checkpoint | dump, upload, read back, publish, retire; freshness, verify | PBS, deployment | the checkpoint can be restored, the readers' answers are true |
| Production network (`production-network.py`, `verify-production-network.py`) | `state.json`, boot unit, kernel rules, a roll-back timer, per node | prepare, activate, reconcile, commit, rollback, start-guests | kernel, systemd, NetBird, controller | an unconfirmed change goes away, guards come before forwarding, one gateway |
| SDN and its owner file (`production-sdn.py`) | zone, staged edits, OWNER file | claim, stage, apply, settle, remove | Proxmox cluster | no zone without a record of its owner |
| Firewall plan (`lib/production_network.py`) | none; an ordered rule list | validate, plan, match | nft | the order lets through the policy, no more and no less |
| CPU isolation (`lib/cpu_isolation.py`) | plan, journal, cgroup settings | plan, apply, roll back | systemd, Proxmox | a failed apply is undone |
| Bootstrap (`lib/isolated_core.py`, `lib/isolated_services.py`, `lib/candidate_llm.py`) | a manifest, guests, start marker | create, install, close, configure, validate, seed | Proxmox guests | every guest is in the manifest, nothing listens unguarded, the API starts only on a seeded database |
| Registration (`lib/node_registration.py`, `lib/image_registration.py`) | none; the platform's API | check, create, read back | the API | a retry creates nothing twice |
| Smokes, `apply-*.sh`, `create-*.sh`, host configuration | none between runs | straight line | external tools | left to their own checks |

`PROJECT.json` lists every component with its status and every hazard with the line
where it bites.

## 2. Modules

| Module | Content |
| --- | --- |
| `ObservationPipeline` | sampler, reporter, their stores, the API and the faults |
| `ObservationPipelineProofs` | theorems about it |
| `HealthMonitor` | probe, collector, incident track, mails |
| `Incidents`, `IncidentTrack` | what an incident track promises its readers: the abstract specification |
| `HealthMonitorProofs` | theorems about the monitor, that it implements `IncidentTrack` among them |
| `DiscordAlerts` | the dispatcher behind the monitor's files, the webhook |
| `DiscordAlertsProofs` | theorems about it |
| `Deployment` | concurrent deployers, guests, services, operators |
| `DeploymentProofs` | theorems about it |
| `ProductionNetwork` | the modes of `production-network.py` on its nodes, timer, boots, guests, operator |
| `ProductionNetworkProofs` | theorems about it |
| `ProductionSdn` | the SDN apply and removal with the owner file |
| `FirewallPlan` | accepted configurations, the rule lists made of them, a packet's verdict |
| `StartupReadiness` | the checks before a reconcile and the two waits on them |
| `DatabaseBackup` | the backup job, the freshness monitor, the release verifier, the backup server |
| `DatabaseBackupProofs` | theorems about it |
| `PbsMonitors` | the four mail notifiers around PBS |
| `HealthTransport` | reader and importer of two SSH hops |
| `IsolatedBootstrap` | the three container bootstraps and the seed of the first administrator |
| `IsolatedBootstrapProofs` | theorems about it |
| `OperationsProofs` | theorems about `ProductionSdn`, `FirewallPlan`, `StartupReadiness`, `PbsMonitors`, `HealthTransport` |
| `MC...` | constants for TLC; `MCOperations` puts seven jobs without common state side by side |

Mutants (operators whose comment begins with "Mutant" or "MUTANT of") are broken
variants of the definition after them; each shows that a property can fail.  No
specification uses them.

### 2.1 ObservationPipeline

State.  `pstate`, `latest` are the producer's files; `checkpoints`, `blocked`,
`outbox`, `known` the reporter's (`known`: `state.json` exists); `pstray`, `rstray`
say that a killed writer left a temporary file, which makes `_entries` refuse the
store.  `memory` is the running reporter's own copy of the checkpoints, which moves
before the write that may fail.  `rpc`, `round`, `batch`, `attempts`, `reason`,
`current`, `fetched` are `report()`'s control state.  `api` is the API's table.
`published`, `imported`, `epochsUsed` are histories.

Actions follow the statements of `sample()` and `report()` between two points where
the process can be killed or another host can act: `SampleReserve` and
`SamplePublish` are separate because `state.json` is written before the probe;
`PostAcknowledged`, `Checkpoint` and `Unlink` because the reporter may die between
them.  `PostUnanswered` covers every transport error: the API may hold the record or
not.  `PostRejected` is 409 or 422.  The flocks exclude a second copy of a process,
so a run that finds a lock, a stray entry, the same minute or a clock behind is a
stuttering step.

Data.  Epochs are numbers in the order of their UUID strings; a body is a sample and
the receive time, so equality of bodies is equality of SHA-256 digests; byte limits are
folded into the record limit.  `ProducerRestored` stands for a producer directory
brought back from an older copy, the case the code answers with
`SOURCE_SEQUENCE_ROLLBACK_OR_CONFLICT`.

### 2.2 HealthMonitor

State.  `report` is the probe's file, `last`, `track`, `mail` are `state.json`,
`summary` is `summary.json`, `run` is the collector's process; `accepted` and
`lastBad` are histories.  A source has two tracks which share the evidence and nothing
else: `kind` chooses one, `Status` and `SampleAt` are what `observe()` is given for it.

`Collect` is all of `collect()`: evidence, suppression by a lost parent, `observe()`,
the interruption of a stable window, superseding, reservation.  `MailAttempt` saves
`ATTEMPTED`; `MailSent`, `MailRefused`, `MailUncertain` are the outcomes of
`smtp_sender`; `Publish` replaces the summary; `Crash` strikes anywhere.  A run reads
the clock and the reports once, so the surroundings move between runs (`Quiet`).

`IncidentTrack` keeps of a track what its readers use: the number of incidents, the open
one, the one closed last, the last sample's status.  `HealthMonitor` implements it
(`IncidentsAreNumbered`, `Seen` is the refinement mapping) and `DiscordAlerts` takes its
steps as those of its producer, so the two models meet in one specification.

### 2.3 DiscordAlerts

State.  `track`, `era`, `epoch`, `files` are the monitor's files, `signal` the other
sources; `cursor`, `outbox`, `limited` are the dispatcher's `state.json`; `worker` holds
what a run has read, what it may send and what it has tried; `requests` is a history of
what Discord has or may have taken.

`Read` happens before the lock, so a run may act on files another run has seen in a
newer version.  `Begin` is `run()` from the lock to its first save: the tail of confirmed
deliveries, superseding, events, cursors, the outbox limit.  `Attempt` and the five
answers are `dispatch()`, one save each; `MarkInterrupted` resolves what a killed run
left.  Times are abstract: `epoch` orders collections, `era` dates `opened_at` and
`closed_at` (it moves when the monitor's `state.json` is lost and its numbers start
again), and what waits for a retry may be due or not.  Items of a key go out in the
order of their numbers; across keys any order is allowed.

### 2.4 Deployment

State.  `files`, `link`, `running`, `webroot`, `releases`, `backups`, `asides` are the
guests; `manifest`, `approval`, `proof` are operators' files; `receipt` and `lock` are
the host's; `proc` holds a deployer's program counter, its copy of the configuration
(`cfg`, read once) and the artifact to go back to (`previous`).  `before`, `kills`,
`approved` and `current` are histories.  The approval window is looked at three times:
at preflight, under the lock (`Recheck`) and after the backup verifier answered
(`VerifyBackup`, then `ApproveAgain`); `current` records whether the deployment's own
window was open at any time since that answer.

Every command that changes a guest is an action.  The many read-only checks are one
disjunct of `Refused`: they end the deployment before the first change.  Uploads may
leave a torn file or a release directory (`Leftover`).  `Restart` and `ServiceChanges`
let a unit run the new artifact, the old one or none, as a readiness answer alone does
not tell.  `Killed` covers the receiver's deadline, a lost connection and a guest
command that fails where the code has no way back.  All units are managed ones: a
production unit that still runs its fixed artifact is refused by `check_unit` before
any change.

### 2.5 ProductionNetwork, ProductionSdn, FirewallPlan, StartupReadiness

`ProductionNetwork` has per node `state` (`state.json`), `disk` (runtime and boot unit),
`host` (what the kernel runs: chains, priority guard, gateway addresses, forwarding, MTU,
bridge filtering), `timer` and `service` (the transient dead-man timer and the rollback
it started, each with the operation it is for) and `proc`, the process that holds the
node's lock.  A mode of the program is a chain of actions, one for each change another
actor can see: `Prepare` ... `PrepareEnd`, `Activate` or `Reconcile` through
`Reconciling`, `Readiness`, `InstallGuards`, `SetAddresses`, `SetForwarding` to
`ReconcileEnd`, `Commit`, `CommitStopsTimer`, `CommitSave`, `Rollback` ...
`RollbackEnd`, `StartGuests` ... `RecordOutcome`.  `Fails` ends a process anywhere and
undoes nothing; `Reboot` clears the kernel and the transient timer; `MoveOwner`, `Fence`
and `Unfence` are the runbook's manual move of the gateway; NetBird may turn forwarding
on whenever its interface is set again (`SetMeshMtu`).  Read-only checks pass or end the
process.

`ProductionSdn` is one run after another of `production-sdn.py`: cluster check, claim of
the owner file, staging, the asynchronous reload whose answer may be lost, settling, and
the two ways out of an exception.  The zone and its VNets are one object.
`ProductionNetwork!Sdn` lets the zone and the owner file come and go as that module
leaves them.  `FirewallPlan` is pure: `ValidateConfig` is what the tools accept,
`InputRules` and `ForwardRules` are the lists in the order of `firewall_plan`, `Matches`
and `Verdict` what nft makes of them; its two actions install and remove a plan.  In
`StartupReadiness` the world changes between two attempts, and each check answers ready,
absent (worth waiting for) or refused.  The marks are read per rule family: `AcceptMark`
parses `iptables`, and `ip6tables` only when that succeeded, and then compares the two;
`ObservedMark` compares the result with the recorded mark.  The commands of one attempt
are one step.

### 2.6 DatabaseBackup

Epochs are ticks of a clock that may be stepped back.  `data` and `proofs` are the
snapshots on the server by epoch; a body is good, cut by its upload, or rotten later, and
a print is the fingerprint of its manifest.  `backup` is the job between two calls,
`reader` the freshness monitor or the release verifier with what it has listed and
read; readers only read, so one at a time meets everything.  `spool` is the local
attempts with the status of `attempt.json` ("NONE": a directory a kill left without its
record, which every later run refuses).  A call that fails after its effect is the step
followed by `BackupFails`.  `ServerHarm` removes, rots, rewrites or fails a data
snapshot.  With a clock of two ticks the age of `RECOVERY_POINT_TOO_OLD` is not reached;
it differs from WARNING only in the word.

### 2.7 PbsMonitors

A behaviour follows one of four notifiers (`mon`), which have the same shape: decide,
save ATTEMPTED, talk to SMTP, save the outcome.  `CoreCheck` is `inspect` and
`transition` of `core-pbs-monitor.py`, over inventories in which one container's rows
are missing, unprotected, invalid, old or of the future; `CapacityCheck` is the probe's
thresholds and `transition` of `pbs-capacity-monitor.py`; `DbNotify` and `TestMail` are
`notify`.  Whether a retry is due is a free choice.  Kills strike between the two saves.
A notifier that finds ATTEMPTED on disk leaves it to the operator, as the code does.
`notify` limits refusals only: a receipt at DISABLED is tried again without a limit, so
its attempts may pass three (`MaxCounted` is where the model stops counting), while
`refusals`, a history, may not.

### 2.8 HealthTransport

Two hops with the same importer: `ImportStarts` revokes the permission before anything
can fail, `ImportChecksClock`, `ImportFetches` (SSH, size and time limits, the envelope
and its validation by the importer's clock), `ImportWritesReport` one file at a time,
`ImportWritesPolicy`, `ImportRefused`, `ImportWritesResult`; each write may fail and each
step may be the last.  `Collected` is what the reader answers from its host's files.  The
issuer of the permission is outside the repository.

### 2.9 IsolatedBootstrap

The three bootstraps have one shape: a process is at a position, a phase of a role
(`boot[p].at`), and `Following` is the position after it, role after role and then the
closing phases.  `SaveStep`, `CreateStep`, `GuestStep`, `ValidateStep`, `ParkStep` are the
phases, each of which may fail before or after its effect; `FailureStep` is the handler.  `disk` is the
manifest and the temporary file of a failed save, on which every later save of core and
services fails.  `Admin...` is `AdminBootstrap.apply` for two runs that no lock keeps
apart, with `SeedEnds` the application's one-shot, which may end after the host has given
up on it.  Guests are not replaced by others and do not reboot.

## 3. Runs

| Run | Instance | Checks |
| --- | --- | --- |
| ObservationSafety | 1 epoch, numbers to 2, 4 minutes, 2 receive times, producer faults, kills, failed writes | types, one body per sample, nothing lost, exact and monotone watermark |
| ObservationReporterLoss | 2 epochs, one checkpoint, one quarantine slot, the reporter's `state.json` may be lost | the store stays loadable, numbers identify samples |
| ObservationLiveness | 1 epoch, quarantine large enough, kills, failed writes | every stored sample is settled |
| ObservationQuarantineLimit | quarantine of one, no faults | violation, see 6 |
| HealthMonitor | 5 ticks, either track, notifications on or off per run | one mail per event, mails are current, recovery is stable, `IncidentTrack` |
| DiscordIncidents | 1 service key, 4 collections, one loss of the monitor's state, 2 runs, 2 attempts, no confirmed delivery kept | one message per event, recovery only after its alarm and never missed, messages are current |
| DiscordQueue | 2 plain keys, 2 changes, outbox of 2, one confirmed delivery kept | outbox stays loadable, nothing unresolved is dropped |
| DeploymentRace | development, 2 deployers, 2 releases, kills | lock, whole artifacts, gateway last, true receipts, activations undone |
| DeploymentProduction | production, 1 deployer, windows and pins change | only approved artifacts, under a window still open after the backup verifier |
| DeploymentFailure | development, 1 deployer, no kills | violation, see 6 |
| ProductionNetwork | 2 nodes, 2 installations, 1 failed process, 1 reboot, 1 move of the gateway (about 2 million states) | guards before forwarding, one gateway, a rollback leaves the baseline, guests start once per boot and behind the guards, a commit happens under its timer and is never undone |
| Operations | seven jobs, one per behaviour, constants below (about 3.6 million states) | owner record, packet policy, readiness, recoverable checkpoint, true answers, monitors, imports, bootstraps |

Bounds.  Two sequence numbers after zero are enough for an older and a newer record of
an epoch, and a restored producer to reuse one; two receive times tell a second stamp
from the first; `MaxExports` 1 and 2 give a batch that is cut off and one that is not.
Two epochs against one checkpoint reach `CHECKPOINT_LIMIT`.  Five ticks let an incident
open, close after a stable window of two, and open again while a mail of the first one
still waits for its retry; the limits (freshness 2, window 2, skew 1, retry 1) keep the
order of the code's constants (freshness > skew, window > retry).  Four collections let
two incidents open and close, or one before and one after the monitor's state is lost;
`Kept` 0 makes an alarm leave the outbox while its incident is open, as 100 later
deliveries do.  Two runs are symmetric, and two of them already overlap.  Two
deployments are enough for one to work over the remains of the other, or between its
preflight and its lock; two releases give an old and a new artifact, and their
permutation is a symmetry because nothing compares commits.

Two installations on two nodes let one node roll back and be prepared again, or both be
active with the gateway moved between them; one failed process and one reboot strike at
any step of either.  Three SDN runs create, remove or repair after one another.  The
firewall is checked for each feature alone, all together and with an endpoint out of
place, against tcp packets from every interface, address and port the rules name and udp
and icmp packets on the interfaces and ports of the rules for them.  Each rule family may
have no mark, half of one, the recorded one, another, one with PVE's bits or two.  Three
attempts of a wait are one more than the two good readings a mark needs.  A clock of two
ticks with `Keep` 1 gives an old point to retire and a new one, and two mishaps a kill or a
clock step followed by harm on the server.  Three numbered receipts let a notifier fail,
recover and fail again, and five counted attempts are two more than the limit of three;
five values of free space lie on, between and beyond the
thresholds.  Two imports are one on each hop or two on one; three ticks with a
permission of one let it expire between the hops.  Two runs of each bootstrap are two
operators.

`CHECK_DEADLOCK FALSE` stands where the instance really may stop: the clock of
`HealthMonitor` and the sources of `DiscordAlerts` are bounded, and in `ObservationReporterLoss` a reporter that lost
`state.json` beside records refuses to run, as the code does.  The installations, boots
and faults of `ProductionNetwork` are bounded, and the jobs of `Operations` end.

Fairness (`ObservationPipeline!Fairness`).  The timer starts runs for ever and a run
goes on unless it is killed: weak fairness of the run's own steps.  Kills and lost
answers may pre-empt a POST, a checkpoint, a quarantine write or an unlink, so these
get strong fairness: the API is reachable, and the host stays up, often enough.  An
operator clears a stray file: `_entries` refuses the store until then and nothing in the
program removes it.  No fairness is assumed of the sampler.

## 4. Proofs

Every safety invariant and every action property that a passing run checks is also
proved, for all values of the constants that satisfy the named assumption of its module.
The assumptions say that limits are numbers of the size the code's constants have, that
the marks for "nothing" are not values, and little else: `DeploymentAssumption` that no
record of a deployment is `None`, `ReadinessAssumption` what the world may look like,
`BackupAssumption` a clock of at least one tick, `BootstrapAssumption` that 0 is no run
and that the kinds are the three of the code, `FirewallAssumption` that a packet is IPv4
or IPv6 and the BMC switch a Boolean.  Where a theorem needs more the table says so.

`THEOREM Spec => []Inv` always has the same plan: an inductive invariant, stated as named
conjuncts, one step per action, a frame lemma for the steps that leave its variables
alone, and a last step by PTL.  What follows is why each property is not inductive by
itself and what had to be added.

### 4.1 ObservationPipelineProofs

| Theorem | Property | Assumes |
| --- | --- | --- |
| `TypeCorrect` | `TypeOK` | |
| `ImportedIsNeverLost` | `NoImportedSampleLost` | |
| `BodyIsStampedOnce` | `OneBodyPerSample` | `state.json` of the reporter is not lost |
| `WatermarkIsMonotone` | `CheckpointNeverRegresses` | same |
| `WatermarkNeverSkips` | `WatermarkIsExact` | same |
| `NumbersNameOneSample` | `SequenceIdentifiesSample` | the producer's directory is not restored from a copy |
| `StoreLoads` | `StoreStaysLoadable` | |

Both assumptions are needed: a reporter without its state stamps a sample it has delivered
a second time, which the API answers with 409, and a restored producer uses a number again,
which the reporter answers with `SOURCE_SEQUENCE_ROLLBACK_OR_CONFLICT`.

`Unlink` removes a record because of what happened two steps earlier, so `LossInv` adds
that a record in hand at "acked" or "checkpointed" is in the API's table.
`OneBodyPerSample` needs `BodyInv`: the outbox, the quarantine and the batch hold imported
bodies only, an imported body is in the outbox or behind the checkpoint of its epoch in
both the file and the run's copy, and the copy is never behind the file; so a sample for
which `IsNew` holds has no body yet.  `OrderInv` adds the order of the drain: whatever is
before the record in hand, in its epoch, has left the outbox or is quarantined, so the
watermark skips nothing.  `SequenceInv` says that no published number of the current epoch
is above the one in `state.json`, and that epochs not used yet have published nothing.
`LimitInv` carries the limits from the file to the run's own copy, which moves first, and
has a free slot in the quarantine whenever a record is about to enter it.

### 4.2 HealthMonitorProofs

| Theorem | Property |
| --- | --- |
| `ShapesHold`, `HealthTypes` | the files hold values of their types; `HTypeOK` |
| `HealthImplementsIncidents` | `IncidentsAreNumbered`: the refinement of `IncidentTrack` |
| `NoMailTwice` | `OneMailPerEvent` |
| `MailsAreCurrent` | `MailIsCurrent` |
| `RecoveriesAreStable` | `RecoveryIsStable` |

`ObserveSteps` shows that one call of `observe()` is a step of `IncidentTrack` or leaves it
alone; the refinement follows as nothing else touches the track.  `OneMailPerEvent` needs
`Delivered`: incident numbers grow, a mail is never about an incident older than the ones
accepted, and nothing that may still go out was accepted before.  `MailIsCurrent` needs
`Truthful`: whatever may still go out holds of the track; a collection keeps it because it
withdraws exactly the mails its sample contradicts.  `RecoveryIsStable` needs
`WindowSinceBad`: a stable window that is open began after the last bad evidence.

### 4.3 ProductionNetworkProofs

`NetworkInvariant` is the inductive invariant, for any set of nodes;
from it `ForwardsBehindGuards` (`GuardsBeforeForwarding`), `GatewayIsUnique`
(`OneGateway`), `RollbackRestores` (`RolledBackIsBaseline`), `GuestsStartOnce`
(`GuestsStartOncePerBoot`), `GuestsAreFiltered` (`GuestsBehindGuards`), `CommitIsFinal`
(`CommittedIsNeverUndone`), `CommitNeedsItsTimer` (`CommitsUnderItsTimer`).

It says, node by node (`NodeInv`), what the kernel, the files, the timer and the saved state have in
common at every program point of the process that holds the lock.  The point of the
commit theorems is the operation number and the boot: a timer or a rollback that is late
belongs to an operation that is no longer the saved one, and an operation whose timer a
reboot took was prepared in another boot, which the commit refuses.  `OneGateway` is across
nodes: the gateway, and a process on its way to it, belong to the owner on record
(`OwnerOf`), and a fenced node has neither, so the record may move.

### 4.4 DeploymentProofs

`DeploymentInvariant` is the inductive invariant, for any number of deployers, targets and
releases; from it `HolderIsInside` (`DTypeOK`), `ArtifactsAreWhole` (`OnlyWholeArtifacts`),
`ArtifactsAreApproved` (`OnlyApprovedArtifacts`), `GatewayFollows` (`GatewayGoesLast`),
`ReceiptsAreTrue` (`ReceiptIsTrue`), `FailuresAreUndone` (`FailedActivationIsUndone`).

It has who is inside the lock, and for that deployer what it has changed so far, what it
will go back to and that this is whole and approved.  Nothing is claimed of what a killed
deployer left: the next one meets it as it finds it.  `ArtifactsAreApproved` adds
`WindowInv`: only the holder of the lock can be past the verifier, and once it is, its
window was open since.

### 4.5 DiscordAlertsProofs

`AlertsInvariant` is the inductive invariant; from it `StateStaysValid` (`ATypeOK`),
`EventsAreSentOnce` (`OneMessagePerEvent`), `RecoveriesArePaired` (`RecoveryFollowsAlarm`),
`EvidenceStays` (`EvidenceIsKept`), `MessagesAreCurrent` (`MessageIsCurrent`),
`RecoveriesAreNotMissed` (`RecoveryIsNotMissed`).

A run may act on a report older than one another run has seen, so the invariant compares
reports: all those of one era tell one history, in which an incident opens and closes once
(`HistoryInv`).  Everything requested is behind the cursor of its key (`BehindInv`), so
what a run queues is new; the lock and the one delivery under way (`LockInv`, `OutboxInv`,
`SendInv`) make the next request the first of its event (`FirstInv`).  `PairInv` puts a
request for the alarm before every recovery; `MissInv` keeps the alarm of the open incident
in the cursor, or in an item not resolved yet, after it has left the outbox.

### 4.6 DatabaseBackupProofs

`BackupInvariant` is the inductive invariant, for every retention and every clock; from it
`PointsAreRecoverable` (`CheckpointIsRecoverable`) and `ReadersTellTheTruth`
(`AnswersAreTrue`).

`JobInv`: what was read back is whole, retention stays off the new point, and a proof is
taken only after its data.  `PointInv`: a proof is of whole data, and the checkpoint's point
is there unless somebody harmed the server.  `SpoolInv` bounds the local attempts.  `ReaderInv` is for the readers, which
hold no lock: data that agrees with the receipt in hand still has that proof.  A print
that is not in use exists because there are more prints than snapshots (`FreshPrintIsNew`).

### 4.7 IsolatedBootstrapProofs

`BootstrapsAreContained` (`BootstrapIsContained`), for any number of processes, failures
and kills.  `LockInv` has one process inside, `RunsInv` that its manifest in memory is the
one on disk and each guest has what the phase of its role needs, `KnownInv` that the
manifest knows every guest, `DiskInv` that a manifest that says completed is of guests that
are whole, `SeedInv` that the seed begins on a complete core and the marker follows it.

### 4.8 OperationsProofs

| Theorem | Property | Rests on |
| --- | --- | --- |
| `ZonesAreOwned` | `OwnerRecordCovers` | `SdnInv`: while a claim may be taken back nothing of the zone runs |
| `ReadinessHolds` | `ReadinessIsProven` | `ReadinessInv`; `ReadinessDecides`: the answer of the ordered checks; `ReadingIsRight`: what a reading of both families says |
| `MonitorsAreTrue` | `MonitorsTellTheTruth` | `MailerInv` per receipt: refusals are among the attempts, and there is room for the next; `InspectIsTrue`: the verdict on an inventory |
| `ImportsHold` | `ImportsAreVerified` | `HopInv`: what each program point of an import has verified |
| `PlansKeepThePolicy` | `PolicyHolds` | `ForwardDecides`, `InputDecides`: the two chains as conditions on a packet |

A rule list is a concatenation in which the first match decides.  `ConcatDecides` takes it
apart (a packet that passes the first list is decided by the second) and `OneDecides` to
`FiveDecide` take a short list apart; `ForwardVerdict` and `InputVerdict` are what the
chains come to, a readable form of the policy, and `PolicyHolds` follows by cases.

### 4.9 Only model-checked

`EveryImportIsSettled`: liveness under fairness is out of the prover's reach.  The two runs
that expect a violation refute their property and have no theorem.

Two changes of the models came from the proofs.  In `Deployment` the way back is now
the code's own sequence of steps with a program counter each; in several modules
overlapping `CASE` arms, which TLC takes in order and the logic does not, became
`IF`/`ELSE`, the order of the code's early returns.

## 5. Plan

1. An abstract "at most once notification" specification implemented by the mails of
   `HealthMonitor` and `PbsMonitors` and by the webhook deliveries.
2. `ProductionSdn` as the environment of `ProductionNetwork`, `DatabaseBackup`'s verifier
   as `Deployment`'s `VerifyBackup`, and `HealthTransport`'s result as `HealthMonitor`'s
   `Probe`, each by refinement.
3. CPU isolation with its journal; registration against an API whose answers may be lost;
   QDevice activation.

## 6. Findings

* Quarantine limit (`ObservationQuarantineLimit`).  With 64 records quarantined a
  rejected record is neither removed nor quarantined; it is POSTed first by every run
  and the records behind it are not reached.  `runbooks/inference-observations.md:85`
  says a rejected sample is not POSTed again and others can be processed.
* Failure in the receipt (`DeploymentFailure`).  When the unit stops between its health
  check and `write_receipt`, the deployment is refused and the new artifact stays
  selected.  `runbooks/deploy-environments.md:396` says a failed deployment goes back to
  its previous link.

Observations made while modelling, without a run of their own; the models allow each of
them:

* `reconcile` typed on a prepared node makes it active without the boot unit; a commit
  killed between stopping the timer and its save can only be rolled back; a crash after
  `rolled_back` is saved and before the runtime files are removed makes the next `prepare`
  refuse.
* A rollback on a node whose guards a reboot took may forward until its second pair of
  sysctls (the exception in `GuardsBeforeForwarding`).
* While `iptables` has no NetBird mark yet, `accept_mark` does not look at `ip6tables`: a
  mark there with PVE's bits or a partial mask is waited on, not refused
  (`MarkContradicts` is stated accordingly).
* The last rewrite of the SDN owner file does not look again at an owner moved meanwhile.
* Data snapshots without a proof are never retired.  An attempt is marked
  FAILED_OR_UNCONFIRMED when something fails after the checkpoint was saved, although the
  comment at `lib/db_pbs_backup.py:615` speaks of attempts that never advance it.  A clock
  stepped back between dump and read-back leaves a receipt no reader accepts.
* `pbs-capacity-monitor.py` drops an unsent CRITICAL alert when space rises to WARNING
  before the retry is due, and sends it with the new numbers when the retry is due.
  `notify` leaves ATTEMPTED for ever when the mail settings are invalid, and retries a
  DISABLED receipt without a limit and without a delay.
* A save that left `.manifest.tmp` makes every later save of the core and services
  bootstraps fail; a final save that failed may be repeated by the handler with
  `completed` and the "Partial" boundary together.
* `AdminBootstrap` has no lock: a second run may launch a second one-shot, which only the
  application's own check refuses.  A push that fails leaves the credential in the guest,
  and no later run passes; a crash after the seed and before the marker cannot be resumed.
* Records of the observation outbox go out in the order of their random epochs, so the
  backlog of one epoch may wait behind another's; a plain Discord alarm waiting for its
  retry may go out after its recovery.

## 7. Not modelled

Byte formats, permissions, hashes beyond equality, log and mail wording, what a probe
asks of its service, the Proxmox and PBS commands behind a check, exact times of retries,
the configuration and source checks that refuse before any change, the keep-daily and
keep-weekly rules of PBS, the migration of older monitor state files, foreign
replacement and reboots of bootstrap guests, and the components PROJECT.json marks
`not_modelled` with their reasons.
