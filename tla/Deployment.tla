------------------------------ MODULE Deployment ------------------------------
(***************************************************************************)
(* Deployments to one environment (deploy-environment.py, started by an    *)
(* operator or by dev-deploy-receiver.py).                                 *)
(*                                                                         *)
(* A deployer reads the target configuration once, checks what it can      *)
(* without the environment's lock, takes the lock, checks again, and then  *)
(* changes the guests command by command: it pushes artifacts under their  *)
(* commit, moves symbolic links, restarts the unit, waits for its health,  *)
(* and goes back to the previous artifact when that fails; the console's   *)
(* webroot is exchanged by renames.  Deployers interleave with each other  *)
(* up to the lock, and with services, operators and kills all the time.    *)
(* A refusal before the first change of a guest leaves no trace but what   *)
(* an interrupted upload left there.                                       *)
(***************************************************************************)
EXTENDS Naturals, FiniteSets

CONSTANTS
    Deployers,          \* processes running deploy-environment.py apply
    Commits,            \* source commits; each has one pinned artifact digest
    Manifests,          \* the commit combinations operators may pin (allowed_commits)
    BackupNames,        \* the time stamps in <webroot>.before-<time>
    MaxDeployments,     \* bound on the deployments that are begun
    Environment,        \* "dev" or "prod"
    ApiRollback,        \* api_rollback_policy: "compatible" or "fix-forward"
    None,
    Faults              \* {"KILLED"}: the receiver's deadline, a kill or a failed command

Targets == {"api", "console", "llm-gateway"}
Units == {"api", "llm-gateway"}
Links == {"api", "llm-gateway", "llm-keygen"}

ASSUME DeploymentAssumption ==
    /\ Manifests \subseteq [Targets -> Commits] /\ Manifests # {}
    /\ Environment \in {"dev", "prod"} /\ ApiRollback \in {"compatible", "fix-forward"}
    /\ None \notin Commits /\ None \notin Deployers /\ None \notin BackupNames
    /\ None \notin [target : Targets, commit : Commits]
    /\ MaxDeployments \in Nat
    /\ Faults \subseteq {"KILLED"}

VARIABLES
    manifest,   \* allowed_commits in /etc/pickle/deploy-targets/<environment>.json
    approval,   \* the production approval window that is open: a target and its commit
    proof,      \* chat-compatibility.json, while it is fresh
    files,      \* release_dir in the guests: per link and commit "absent", "torn" or "good"
    link,       \* the managed symbolic links
    running,    \* the artifact each unit's process holds
    webroot,    \* the commit whose files are the console's webroot
    releases,   \* the commits with a <webroot>.releases directory
    backups,    \* <webroot>.before-<time>
    asides,     \* commits of <webroot>.failed-<time>
    receipt,    \* /var/lib/pickle-deploy/<environment>/<target>.json
    lock,       \* holder of pickle-deploy-<environment>.lock
    proc,       \* the deployers
    begun,      \* deployments begun so far
    kills,      \* history: deployments that were killed
    before,     \* history: links and webroot when the lock was taken
    approved,   \* history: the artifacts a window was ever open for, and the initial ones
    current     \* history: since the backup verifier answered the holder of the
                \* lock, a window was open for its artifact

binaries == <<files, link, running>>
console == <<webroot, releases, backups, asides>>
guests == <<binaries, console>>
rules == <<manifest, approval, proof, approved, current, begun, kills>>
dVars == <<rules, guests, receipt, lock, proc, before>>

Idle == [pc |-> "idle", target |-> None, cfg |-> None, previous |-> None, kept |-> None]
NothingBefore == [link |-> None, webroot |-> None]

LinksOf(t) == CASE t = "llm-gateway" -> {"llm-gateway", "llm-keygen"}
                [] t = "api" -> {"api"}
                [] OTHER -> {}
UnitOf(n) == IF n = "llm-keygen" THEN "llm-gateway" ELSE n

Target(d) == proc[d].target
Commit(d) == proc[d].cfg[proc[d].target]
Artifact(d) == [target |-> Target(d), commit |-> Commit(d)]
At(d, pc) == proc[d].pc = pc

\* An environment with commit c installed, by this tool or by hand, and a gateway
\* that may still be of another release; or a new development guest.
Installed(c, g) ==
    /\ link = [n \in Links |-> IF n = "api" THEN c ELSE g]
    /\ running = [u \in Units |-> link[u]] /\ webroot = c
    /\ files = [n \in Links |-> [k \in Commits |-> IF k = link[n] THEN "good" ELSE "absent"]]
    /\ receipt \in {[t \in Targets |-> IF t = "llm-gateway" THEN g ELSE c],
                    [t \in Targets |-> None]}
    /\ approved = [t \in Targets |-> IF t = "llm-gateway" THEN {g} ELSE {c}]

Empty ==
    /\ Environment = "dev"
    /\ files = [n \in Links |-> [k \in Commits |-> "absent"]]
    /\ link = [n \in Links |-> None] /\ running = [u \in Units |-> None] /\ webroot = None
    /\ receipt = [t \in Targets |-> None]
    /\ approved = [t \in Targets |-> {}]

DInit ==
    /\ manifest \in Manifests /\ approval = None /\ proof = None /\ current = FALSE
    /\ Empty \/ \E c, g \in Commits : Installed(c, g)
    /\ releases = {} /\ backups = [b \in BackupNames |-> None] /\ asides = {}
    /\ begun = 0 /\ kills = 0 /\ lock = None /\ proc = [d \in Deployers |-> Idle] /\ before = NothingBefore

-----------------------------------------------------------------------------
(* Operators and services.                                                 *)

ManifestChanges ==
    /\ manifest' \in Manifests \ {manifest}
    /\ UNCHANGED <<approval, proof, approved, current, begun, kills, guests, receipt, lock, proc, before>>

\* The deployment that has its verifier's answer needs this window.
Awaits(a) == lock # None /\ At(lock, "verified") /\ a = Artifact(lock)

\* An operator opens a window of at most 15 minutes for one artifact; it expires.
ApprovalChanges ==
    /\ Environment = "prod"
    /\ \/ /\ approval = None
          /\ \E t \in Targets : /\ approval' = [target |-> t, commit |-> manifest[t]]
                               /\ approved' = [approved EXCEPT ![t] = @ \cup {manifest[t]}]
                               /\ current' = (current \/ Awaits(approval'))
       \/ approval # None /\ approval' = None /\ UNCHANGED <<approved, current>>
    /\ UNCHANGED <<manifest, proof, begun, kills, guests, receipt, lock, proc, before>>

\* The compatibility result names the manifest and the two receipts it was made for.
ProofChanges ==
    /\ \/ /\ proof = None /\ receipt["api"] # None /\ receipt["console"] # None
          /\ proof' = [commits |-> manifest, api |-> receipt["api"], console |-> receipt["console"]]
       \/ proof # None /\ proof' = None
    /\ UNCHANGED <<manifest, approval, approved, current, begun, kills, guests, receipt, lock, proc, before>>

\* A unit stops, or systemd starts it from its link (pickle-api-start.py opens the JAR).
ServiceChanges(u) ==
    /\ running' \in {[running EXCEPT ![u] = None], [running EXCEPT ![u] = link[u]]} \ {running}
    /\ UNCHANGED <<rules, files, link, console, receipt, lock, proc, before>>

-----------------------------------------------------------------------------
(* Checks.                                                                 *)

\* check_release_approval: the window that is open is for this artifact.
Approved(t, c) == Environment = "prod" => approval = [target |-> t, commit |-> c]

\* check_unit: a production unit is active.
Active(t) == Environment = "prod" => \A n \in LinksOf(t) : running[UnitOf(n)] # None

\* active_link: a managed link is missing only while a development unit is down.
Readable(t) ==
    /\ Active(t)
    /\ \A n \in LinksOf(t) :
          link[n] = None => Environment = "dev" /\ running[UnitOf(n)] = None

Previous(t) == [n \in LinksOf(t) |-> link[n]]

\* check_chat_order: the gateway goes last, onto the API and console it was tested with.
ChatReady(cfg) ==
    /\ receipt["api"] = cfg["api"] /\ receipt["console"] = cfg["console"]
    /\ link["api"] = cfg["api"] /\ running["api"] = cfg["api"]
    /\ webroot = cfg["console"]
    /\ proof = [commits |-> cfg, api |-> cfg["api"], console |-> cfg["console"]]

Step(d, pc) == proc' = [proc EXCEPT ![d].pc = pc]

\* The process ends, and with it its hold on the lock.
Ends(d) ==
    /\ proc' = [proc EXCEPT ![d] = Idle]
    /\ lock' = IF lock = d THEN None ELSE lock
    /\ before' = IF lock = d THEN NothingBefore ELSE before

\* main() up to "preflight OK", with the configuration as it is now.
Begin(d, t) ==
    /\ At(d, "idle") /\ Readable(t)
    /\ begun < MaxDeployments /\ begun' = begun + 1
    /\ Approved(t, manifest[t])
    /\ proc' = [proc EXCEPT ![d] = [pc |-> "preflight", target |-> t, cfg |-> manifest,
                                    previous |-> Previous(t), kept |-> None]]
    /\ UNCHANGED <<manifest, approval, proof, approved, current, kills, guests, receipt, lock, before>>

\* Mutant: a deployment of another target does not exclude this one.
LockPerTarget(d) ==
    /\ At(d, "preflight")
    /\ lock # None => Target(lock) # Target(d)
    /\ lock' = d /\ before' = [link |-> link, webroot |-> webroot]
    /\ Step(d, "locked")
    /\ UNCHANGED <<rules, guests, receipt>>

\* The lock is the environment's; a deployer that finds it taken gives up (Refused).
Lock(d) ==
    /\ At(d, "preflight") /\ lock = None
    /\ lock' = d /\ before' = [link |-> link, webroot |-> webroot]
    /\ Step(d, "locked")
    /\ UNCHANGED <<rules, guests, receipt>>

\* Mutant: the artifact to go back to is the one seen before the lock.
RecheckStale(d) ==
    /\ At(d, "locked") /\ Readable(Target(d)) /\ Approved(Target(d), Commit(d))
    /\ Step(d, IF Environment = "prod" THEN "backup" ELSE "order")
    /\ UNCHANGED <<rules, guests, receipt, lock, before>>

\* The checks again, under the lock: links are read anew, the configuration is not.
Recheck(d) ==
    /\ At(d, "locked") /\ Readable(Target(d)) /\ Approved(Target(d), Commit(d))
    /\ proc' = [proc EXCEPT ![d].pc = IF Environment = "prod" THEN "backup" ELSE "order",
                            ![d].previous = Previous(Target(d))]
    /\ UNCHANGED <<rules, guests, receipt, lock, before>>

\* The independent backup verifier answers, in its own time.
VerifyBackup(d) ==
    /\ At(d, "backup")
    /\ current' = (approval = Artifact(d))
    /\ Step(d, "verified")
    /\ UNCHANGED <<manifest, approval, proof, approved, begun, kills, guests, receipt, lock, before>>

\* Mutant: the approval seen before the verifier ran is enough.
ApproveOnce(d) ==
    /\ At(d, "verified")
    /\ Step(d, "order")
    /\ UNCHANGED <<rules, guests, receipt, lock, before>>

\* "The approval must still be current."
ApproveAgain(d) ==
    /\ At(d, "verified") /\ Approved(Target(d), Commit(d))
    /\ Step(d, "order")
    /\ UNCHANGED <<rules, guests, receipt, lock, before>>

CheckOrder(d) ==
    /\ At(d, "order")
    /\ Target(d) = "llm-gateway" => ChatReady(proc[d].cfg)
    /\ Step(d, IF Target(d) = "console" THEN "stage" ELSE "install")
    /\ UNCHANGED <<rules, guests, receipt, lock, before>>

-----------------------------------------------------------------------------
(* install_binary and activate_binary.                                     *)

\* Mutant: an artifact that is there already is taken as it is.
PresentAtAll(n, c) == files[n][c] # "absent"

\* push_if_absent compares digests whether it pushed or found the file.
Present(n, c) == files[n][c] = "good"

Push(d, n) ==
    /\ At(d, "install") /\ n \in LinksOf(Target(d)) /\ files[n][Commit(d)] = "absent"
    /\ files' = [files EXCEPT ![n][Commit(d)] = "good"]
    /\ UNCHANGED <<rules, link, running, console, receipt, lock, proc, before>>

SetLink(n, c) ==
    /\ link' = [link EXCEPT ![n] = c]
    /\ UNCHANGED <<rules, files, running, console, receipt>>

Select(d) ==
    /\ At(d, "install")
    /\ \A n \in LinksOf(Target(d)) : Present(n, Commit(d))
    /\ SetLink(Target(d), Commit(d))
    /\ Step(d, IF Target(d) = "llm-gateway" THEN "keygen" ELSE "restart")
    /\ UNCHANGED <<lock, before>>

SelectKeygen(d) ==
    /\ At(d, "keygen")
    /\ SetLink("llm-keygen", Commit(d)) /\ Step(d, "restart")
    /\ UNCHANGED <<lock, before>>

\* The gateway's link goes back when the keygen's cannot be moved.
SelectKeygenFails(d) ==
    /\ At(d, "keygen")
    /\ LET previous == proc[d].previous["llm-gateway"]
       IN  SetLink("llm-gateway", IF previous = None THEN Commit(d) ELSE previous)
    /\ Ends(d)

\* systemctl restart: the new artifact, no process, or still the old one.
Restart(d) ==
    /\ At(d, "restart")
    /\ running' \in {[running EXCEPT ![Target(d)] = c] : c \in {Commit(d), None, running[Target(d)]}}
    /\ Step(d, "health")
    /\ UNCHANGED <<rules, files, link, console, receipt, lock, before>>

\* wait_health and verify_running_artifact: the process holds the selected file.
Healthy(d) ==
    /\ At(d, "health") /\ running[Target(d)] = Commit(d)
    /\ Step(d, "receipt")
    /\ UNCHANGED <<rules, guests, receipt, lock, before>>

GoesBack(d) ==
    /\ proc[d].previous[Target(d)] # None
    /\ Target(d) = "api" => ApiRollback = "compatible"

Unhealthy(d) ==
    /\ At(d, "health")
    /\ IF GoesBack(d) THEN Step(d, "rollback") /\ UNCHANGED <<lock, before>> ELSE Ends(d)
    /\ UNCHANGED <<rules, guests, receipt>>

Rollback(d) ==
    /\ At(d, "rollback")
    /\ SetLink(Target(d), proc[d].previous[Target(d)])
    /\ Step(d, IF Target(d) = "llm-gateway" /\ proc[d].previous["llm-keygen"] # None
                 THEN "rollback_keygen" ELSE "rollback_restart")
    /\ UNCHANGED <<lock, before>>

RollbackKeygen(d) ==
    /\ At(d, "rollback_keygen")
    /\ SetLink("llm-keygen", proc[d].previous["llm-keygen"])
    /\ Step(d, "rollback_restart")
    /\ UNCHANGED <<lock, before>>

\* Whatever the previous artifact's health is, the deployment is refused.
RollbackRestart(d) ==
    /\ At(d, "rollback_restart")
    /\ running' \in {[running EXCEPT ![Target(d)] = c] : c \in {proc[d].previous[Target(d)], None}}
    /\ Ends(d)
    /\ UNCHANGED <<rules, files, link, console, receipt>>

-----------------------------------------------------------------------------
(* activate_console.                                                       *)

\* The archive is unpacked under the commit; a directory left there refuses.
Stage(d) ==
    /\ At(d, "stage") /\ Commit(d) \notin releases
    /\ releases' = releases \cup {Commit(d)}
    /\ Step(d, "set_aside")
    /\ UNCHANGED <<rules, binaries, webroot, backups, asides, receipt, lock, before>>

\* The webroot that is there, if any, is kept under a name that is not taken.
BackUp(d) ==
    /\ At(d, "set_aside")
    /\ IF webroot = None
         THEN proc' = [proc EXCEPT ![d].pc = "swap"] /\ UNCHANGED <<webroot, backups>>
         ELSE \E b \in BackupNames :
                /\ backups[b] = None
                /\ backups' = [backups EXCEPT ![b] = webroot] /\ webroot' = None
                /\ proc' = [proc EXCEPT ![d].pc = "swap", ![d].kept = b]
    /\ UNCHANGED <<rules, binaries, releases, asides, receipt, lock, before>>

Old(d) == proc[d].kept # None

Swap(d) ==
    /\ At(d, "swap")
    /\ webroot' = Commit(d) /\ releases' = releases \ {Commit(d)}
    /\ Step(d, "serve")
    /\ UNCHANGED <<rules, binaries, backups, asides, receipt, lock, before>>

SwapFails(d) ==
    /\ At(d, "swap")
    /\ IF Old(d) THEN Step(d, "restore") /\ UNCHANGED <<lock, before>> ELSE Ends(d)
    /\ UNCHANGED <<rules, guests, receipt>>

Served(d) ==
    /\ At(d, "serve") /\ Step(d, "receipt")
    /\ UNCHANGED <<rules, guests, receipt, lock, before>>

\* nginx refuses it or the page is wrong: the new webroot is set aside, if there
\* is an old one to go back to.
NotServed(d) ==
    /\ At(d, "serve")
    /\ IF Old(d)
         THEN /\ asides' = asides \cup {webroot} /\ webroot' = None
              /\ Step(d, "restore") /\ UNCHANGED <<lock, before>>
         ELSE Ends(d) /\ UNCHANGED <<asides, webroot>>
    /\ UNCHANGED <<rules, binaries, releases, backups, receipt>>

Restore(d) ==
    /\ At(d, "restore")
    /\ webroot' = backups[proc[d].kept] /\ backups' = [backups EXCEPT ![proc[d].kept] = None]
    /\ Ends(d)
    /\ UNCHANGED <<rules, binaries, releases, asides, receipt>>

-----------------------------------------------------------------------------
(* The end.                                                                *)

\* Mutant: the receipt is written without a look at the process.
WriteReceiptBlindly(d) ==
    /\ At(d, "receipt")
    /\ receipt' = [receipt EXCEPT ![Target(d)] = Commit(d)]
    /\ Ends(d)
    /\ UNCHANGED <<rules, guests>>

\* write_receipt looks at the process once more.
WriteReceipt(d) ==
    /\ At(d, "receipt")
    /\ Target(d) \in Units => running[Target(d)] = link[Target(d)]
    /\ receipt' = [receipt EXCEPT ![Target(d)] = Commit(d)]
    /\ Ends(d)
    /\ UNCHANGED <<rules, guests>>

\* ... and refuses, with the new artifact in place, when it is gone.
ReceiptRefused(d) ==
    /\ At(d, "receipt") /\ Target(d) \in Units /\ running[Target(d)] # link[Target(d)]
    /\ Ends(d)
    /\ UNCHANGED <<rules, guests, receipt>>

\* What an interrupted upload leaves in the guest.
Leftover(d) ==
    \/ UNCHANGED guests
    \/ /\ At(d, "install")
       /\ \E n \in LinksOf(Target(d)) :
            /\ files[n][Commit(d)] = "absent"
            /\ files' = [files EXCEPT ![n][Commit(d)] = "torn"]
       /\ UNCHANGED <<link, running, console>>
    \/ /\ At(d, "stage") /\ releases' = releases \cup {Commit(d)}
       /\ UNCHANGED <<binaries, webroot, backups, asides>>

\* A check or an upload fails, or the lock is taken.
Refused(d) ==
    /\ proc[d].pc \in {"preflight", "locked", "backup", "verified", "order", "install", "stage", "set_aside"}
    /\ Leftover(d) /\ Ends(d)
    /\ UNCHANGED <<rules, receipt>>

\* execute() of the receiver kills the whole process group at its deadline.
Killed(d) ==
    /\ "KILLED" \in Faults /\ ~At(d, "idle")
    /\ Leftover(d) /\ Ends(d)
    /\ kills' = kills + 1
    /\ UNCHANGED <<manifest, approval, proof, approved, current, begun, receipt>>

-----------------------------------------------------------------------------
Checks(d) == Lock(d) \/ Recheck(d) \/ VerifyBackup(d) \/ ApproveAgain(d) \/ CheckOrder(d)
Binary(d) == \/ \E n \in Links : Push(d, n)
             \/ Select(d) \/ SelectKeygen(d) \/ SelectKeygenFails(d)
             \/ Restart(d) \/ Healthy(d) \/ Unhealthy(d)
             \/ Rollback(d) \/ RollbackKeygen(d) \/ RollbackRestart(d)
Console(d) == \/ Stage(d) \/ BackUp(d) \/ Swap(d) \/ SwapFails(d)
              \/ Served(d) \/ NotServed(d) \/ Restore(d)
Ending(d) == WriteReceipt(d) \/ ReceiptRefused(d) \/ Refused(d) \/ Killed(d)

DNext ==
    \/ ManifestChanges \/ ApprovalChanges \/ ProofChanges \/ \E u \in Units : ServiceChanges(u)
    \/ \E d \in Deployers : \/ \E t \in Targets : Begin(d, t)
                            \/ Checks(d) \/ Binary(d) \/ Console(d) \/ Ending(d)

DSpec == DInit /\ [][DNext]_dVars

-----------------------------------------------------------------------------
Cleared == {"order", "install", "keygen", "restart", "health", "rollback", "rollback_keygen",
            "rollback_restart", "stage", "set_aside", "swap", "serve", "restore", "receipt"}
InsideLock == {"locked", "backup", "verified"} \cup Cleared

\* Types, and the lock: only its holder is past it.
DTypeOK ==
    /\ manifest \in Manifests /\ lock \in Deployers \cup {None}
    /\ files \in [Links -> [Commits -> {"absent", "torn", "good"}]]
    /\ link \in [Links -> Commits \cup {None}] /\ running \in [Units -> Commits \cup {None}]
    /\ webroot \in Commits \cup {None} /\ releases \subseteq Commits /\ asides \subseteq Commits
    /\ backups \in [BackupNames -> Commits \cup {None}]
    /\ receipt \in [Targets -> Commits \cup {None}]
    /\ \A d \in Deployers : proc[d].pc \in InsideLock <=> lock = d

\* A link, and so a unit, never gets an artifact whose upload was cut off, however
\* often the deployment is repeated over what the interrupted one left.
OnlyWholeArtifacts ==
    /\ \A n \in Links : link[n] # None => files[n][link[n]] = "good"
    /\ \A u \in Units : running[u] # None => files[u][running[u]] = "good"

\* "API and console first": the gateway's link moves forward only onto the API and
\* the console of its own manifest, which no other deployment has replaced since.
GatewayGoesLast ==
    [][\A d \in Deployers :
         (At(d, "install") /\ link'["llm-gateway"] # link["llm-gateway"])
            => /\ link["api"] = proc[d].cfg["api"]
               /\ webroot = proc[d].cfg["console"]]_dVars

\* A receipt is given to the artifact that is selected and that the process holds,
\* "an old process that only answers its readiness gets no receipt".
ReceiptIsTrue ==
    [][\A t \in Units : receipt'[t] # receipt[t]
         => link[t] = receipt'[t] /\ running[t] = receipt'[t]]_dVars

EverApproved ==
    /\ \A n \in Links : link[n] \in approved[UnitOf(n)]
    /\ webroot \in approved["console"] \cup {None}

\* In production nothing is selected or served, by a deployment or by a way back,
\* that no approval window was ever open for, however pins and windows change
\* between the steps of a deployment; and no deployment goes on to change a guest
\* whose own window was not open, for this very artifact, at some time after the
\* backup verifier answered, however long that took.
OnlyApprovedArtifacts ==
    Environment = "prod" =>
      /\ EverApproved
      /\ \A d \in Deployers : proc[d].pc \in Cleared => current

\* Links and webroot are as they were when d took the lock, unless nothing was there
\* or the API has to be fixed forward.
Undone(d) ==
    CASE Target(d) = "console" -> before.webroot # None => webroot' = before.webroot
      [] OTHER -> (/\ \A n \in LinksOf(Target(d)) : before.link[n] # None
                   /\ Target(d) = "api" => ApiRollback = "compatible")
                  => link' = before.link

\* An activation that fails by itself is undone, also over the remains of one that
\* was killed, and also when another deployment came between preflight and lock.
FailedActivationIsUndone ==
    [][\A d \in Deployers :
         (lock = d /\ lock' # d /\ kills' = kills /\ ~At(d, "receipt")) => Undone(d)]_dVars

\* "On failure the gateway goes back to its previous link and the console to its
\* previous webroot", wherever the deployment failed.
FailedDeploymentIsUndone ==
    [][\A d \in Deployers :
         (/\ lock = d /\ lock' # d
          /\ ~(At(d, "receipt") /\ (Target(d) \in Units => running[Target(d)] = link[Target(d)])))
            => Undone(d)]_dVars

=============================================================================
