-------------------------- MODULE DeploymentProofs --------------------------
(***************************************************************************)
(* Deployments to one environment, for any deployers, commits, pinned      *)
(* manifests and backup names: what is checked under the lock stays true   *)
(* until the process ends, because only the holder of the lock changes     *)
(* links, webroot and receipts.                                            *)
(***************************************************************************)
EXTENDS Deployment, TLAPS

-----------------------------------------------------------------------------
(* Types.                                                                  *)

Commit0 == Commits \cup {None}
LinkMaps == [Links -> Commit0]
PreviousMaps == UNION {[L -> Commit0] : L \in SUBSET Links}
Previouses == PreviousMaps \cup {None}
ProcRec == [pc : InsideLock \cup {"idle", "preflight"}, target : Targets \cup {None},
            cfg : Manifests \cup {None}, previous : Previouses,
            kept : BackupNames \cup {None}]
Procs == [Deployers -> ProcRec]

DTypes ==
    /\ manifest \in Manifests /\ lock \in Deployers \cup {None}
    /\ files \in [Links -> [Commits -> {"absent", "torn", "good"}]]
    /\ link \in LinkMaps /\ running \in [Units -> Commit0]
    /\ webroot \in Commit0 /\ releases \subseteq Commits /\ asides \subseteq Commits
    /\ backups \in [BackupNames -> Commit0]
    /\ receipt \in [Targets -> Commit0]
    /\ proc \in Procs /\ kills \in Nat
    /\ approved \in [Targets -> SUBSET Commits]
    /\ approval \in [target : Targets, commit : Commits] \cup {None}
    /\ before \in [link : LinkMaps \cup {None}, webroot : Commit0]

-----------------------------------------------------------------------------
(* The inductive invariant, by subject.                                    *)

Busy(d) == proc[d].pc # "idle"
BinarySteps == {"install", "keygen", "restart", "health", "rollback", "rollback_keygen",
                "rollback_restart"}
ConsoleSteps == {"stage", "set_aside", "swap", "serve", "restore"}

\* What a deployer holds fits its target, and it is past the lock only with it.
ProcOf(d) ==
    /\ proc[d].pc \in InsideLock <=> lock = d
    /\ Busy(d) => /\ Target(d) \in Targets /\ proc[d].cfg \in Manifests
                  /\ proc[d].previous \in [LinksOf(Target(d)) -> Commit0]
    /\ proc[d].pc = "preflight" => proc[d].kept = None
    /\ proc[d].pc \in BinarySteps => Target(d) \in Units
    /\ proc[d].pc \in {"keygen", "rollback_keygen"} => Target(d) = "llm-gateway"
    /\ proc[d].pc \in ConsoleSteps => Target(d) = "console"

\* An artifact a deployer may select, forwards or back, is whole.
WholeOf(d) ==
    Busy(d) =>
      /\ \A n \in LinksOf(Target(d)) :
            LET p == proc[d].previous[n] IN p # None => files[n][p] = "good"
      /\ proc[d].pc \in {"keygen", "restart", "health"} =>
            \A n \in LinksOf(Target(d)) : files[n][Commit(d)] = "good"

\* ... and in production approved.
ApprovedOf(d) ==
    Environment = "prod" /\ Busy(d) =>
      /\ Commit(d) \in approved[Target(d)]
      /\ \A n \in LinksOf(Target(d)) : proc[d].previous[n] \in approved[UnitOf(n)]

ServesApproved == Environment = "prod" => EverApproved

ApprovedState ==
    Environment = "prod" =>
      /\ approval # None => approval.commit \in approved[approval.target]
      /\ \A b \in BackupNames : backups[b] \in approved["console"] \cup {None}

\* How the links relate to the ones at the time of the lock.
LinksSince(d) ==
    lock = d =>
      /\ proc[d].pc \in {"locked", "backup", "verified", "order", "install"} \cup ConsoleSteps =>
            link = before.link
      /\ proc[d].pc # "locked" => \A n \in LinksOf(Target(d)) : proc[d].previous[n] = before.link[n]
      /\ before.link \in LinkMaps
      /\ \A n \in Links \ LinksOf(Target(d)) : link[n] = before.link[n]
      /\ proc[d].pc = "keygen" => link["llm-keygen"] = before.link["llm-keygen"]
      /\ proc[d].pc \in {"keygen", "restart", "health", "receipt"} /\ Target(d) \in Units =>
            link[Target(d)] = Commit(d)
      /\ proc[d].pc \in {"rollback_keygen", "rollback_restart"} =>
            link[Target(d)] = before.link[Target(d)]
      /\ proc[d].pc = "rollback_restart" /\ Target(d) = "llm-gateway" =>
            before.link["llm-keygen"] \in {None, link["llm-keygen"]}

\* Where the webroot of the time of the lock is now.
WebrootSince(d) ==
    lock = d =>
      /\ proc[d].pc \notin {"swap", "serve", "restore", "receipt"} =>
            webroot = before.webroot /\ proc[d].kept = None
      /\ proc[d].pc \in {"swap", "serve", "restore"} =>
            IF Old(d) THEN backups[proc[d].kept] = before.webroot ELSE before.webroot = None
      /\ proc[d].pc = "restore" => Old(d)
      /\ proc[d].pc = "serve" => webroot = Commit(d)

\* The gateway was checked against what is still there.
OrderOf(d) ==
    At(d, "install") /\ Target(d) = "llm-gateway" =>
      link["api"] = proc[d].cfg["api"] /\ webroot = proc[d].cfg["console"]

ProcInv(d) == ProcOf(d) /\ WholeOf(d) /\ ApprovedOf(d) /\ LinksSince(d) /\ WebrootSince(d)
              /\ OrderOf(d)
DInv == /\ OnlyWholeArtifacts /\ ServesApproved /\ ApprovedState
        /\ \A d \in Deployers : ProcInv(d)

-----------------------------------------------------------------------------
(* What a process of the environment does to the others.                   *)

USE DeploymentAssumption

LEMMA LinksFacts ==
    /\ LinksOf("api") = {"api"} /\ LinksOf("llm-gateway") = {"llm-gateway", "llm-keygen"}
    /\ LinksOf("console") = {}
    /\ \A t \in Targets : LinksOf(t) \subseteq Links
    /\ \A t \in Units : t \in LinksOf(t) /\ t \in Targets /\ t \in Links
    /\ \A t \in Targets : \A n \in LinksOf(t) : UnitOf(n) = t
    /\ \A n \in Links : UnitOf(n) \in Targets
BY DEF LinksOf, Targets, Units, Links, UnitOf

LEMMA Moved ==
    ASSUME DTypes, NEW d \in Deployers, NEW pc, Step(d, pc)
    PROVE  /\ proc'[d].pc = pc /\ proc'[d].target = proc[d].target
           /\ proc'[d].cfg = proc[d].cfg /\ proc'[d].previous = proc[d].previous
           /\ proc'[d].kept = proc[d].kept
           /\ \A e \in Deployers \ {d} : proc'[e] = proc[e]
<1>1. proc \in [Deployers -> ProcRec] BY DEF DTypes, Procs
<1> QED BY <1>1 DEF Step, ProcRec

LEMMA Ended ==
    ASSUME DTypes, NEW d \in Deployers, Ends(d)
    PROVE  /\ proc'[d].pc = "idle"
           /\ \A e \in Deployers \ {d} : proc'[e] = proc[e]
           /\ lock = d => lock' = None
           /\ lock # d => lock' = lock /\ before' = before
<1>1. proc \in [Deployers -> ProcRec] BY DEF DTypes, Procs
<1> QED BY <1>1 DEF Ends, Idle

\* No step takes back an artifact or an approval.
Grows ==
    /\ \A n \in Links : \A c \in Commits : files[n][c] = "good" => files'[n][c] = "good"
    /\ \A t \in Targets : approved[t] \subseteq approved'[t]

\* A deployer that does not move keeps its part of the invariant.
LEMMA Bystander ==
    ASSUME DTypes, DInv, NEW e \in Deployers, proc'[e] = proc[e], Grows,
           \/ lock # e /\ lock' # e
           \/ UNCHANGED <<lock, link, webroot, backups, before>>
    PROVE  ProcInv(e)'
<1> USE DEF DInv, ProcInv, Target, Commit, At, Busy
<1>1. ProcOf(e)' BY DEF ProcOf
<1>2. WholeOf(e)'
  <2>1. Busy(e) => Target(e) \in Targets /\ Commit(e) \in Commits
    BY DEF ProcOf
  <2>2. Busy(e) => \A n \in LinksOf(Target(e)) : proc[e].previous[n] \in Commit0
    BY DEF ProcOf
  <2> QED BY <2>1, <2>2, LinksFacts DEF WholeOf, Grows, Commit0
<1>3. ApprovedOf(e)'
  BY LinksFacts DEF ApprovedOf, Grows, ProcOf
<1>4. LinksSince(e)'
  <2>1. CASE lock' # e BY <2>1 DEF LinksSince
  <2>2. CASE UNCHANGED <<lock, link, webroot, backups, before>> BY <2>2 DEF LinksSince
  <2> QED BY <2>1, <2>2
<1>5. WebrootSince(e)' BY DEF WebrootSince, Old
<1>6. OrderOf(e)'
  BY DEF OrderOf, ProcOf, InsideLock, Cleared
<1> QED BY <1>1, <1>2, <1>3, <1>4, <1>5, <1>6

\* A process that ends leaves nothing of its own to be kept.
LEMMA EndsKeeps ==
    ASSUME DTypes, DInv, NEW d \in Deployers, NEW e \in Deployers, Ends(d), Grows,
           lock # d => UNCHANGED <<link, webroot, backups>>
    PROVE  ProcInv(e)'
<1>1. CASE e = d
  <2>1. proc'[e].pc = "idle" /\ lock' # e BY <1>1, Ended DEF DTypes
  <2> QED BY <2>1 DEF ProcInv, ProcOf, WholeOf, ApprovedOf, LinksSince, WebrootSince, OrderOf,
                     At, Busy, InsideLock, Cleared, BinarySteps, ConsoleSteps
<1>2. CASE e # d
  BY <1>2, Ended, Bystander
<1> QED BY <1>1, <1>2

\* The holder of the lock moves on: the others are bystanders.
LEMMA MovesKeep ==
    ASSUME DTypes, DInv, NEW d \in Deployers,
           \/ VerifyBackup(d) \/ ApproveAgain(d) \/ CheckOrder(d) \/ Select(d) \/ SelectKeygen(d) \/ Restart(d)
           \/ Healthy(d) \/ Rollback(d) \/ RollbackKeygen(d) \/ Stage(d) \/ Swap(d) \/ Served(d)
    PROVE  ProcInv(d)'
<1> USE LinksFacts DEF DInv, ProcInv, ProcOf, WholeOf, ApprovedOf, LinksSince, WebrootSince,
            OrderOf, Target, Commit, At, Busy, Old, InsideLock, Cleared, BinarySteps, ConsoleSteps,
            rules, guests, binaries, console
<1>0. link \in [Links -> Commit0] /\ "llm-keygen" \in Links
  BY DEF DTypes, LinkMaps, Links
<1>1. CASE VerifyBackup(d) BY <1>1, Moved DEF VerifyBackup
<1>12. CASE ApproveAgain(d) BY <1>12, Moved DEF ApproveAgain
<1>2. CASE CheckOrder(d)
  <2>1. /\ At(d, "order") /\ UNCHANGED <<files, approved, link, webroot, backups, lock, before>>
        /\ Step(d, IF Target(d) = "console" THEN "stage" ELSE "install")
    BY <1>2 DEF CheckOrder
  <2>2. Target(d) = "llm-gateway" =>
           link["api"] = proc[d].cfg["api"] /\ webroot = proc[d].cfg["console"]
    BY <1>2 DEF CheckOrder, ChatReady
  <2>3. Target(d) \in {"api", "console", "llm-gateway"} /\ (Target(d) # "console" => Target(d) \in Units)
    BY <2>1 DEF Targets, Units
  <2> QED BY <2>1, <2>2, <2>3, Moved
<1>3. CASE Select(d)
  <2>1. /\ At(d, "install") /\ UNCHANGED <<files, approved, webroot, backups, lock, before>>
        /\ Step(d, IF Target(d) = "llm-gateway" THEN "keygen" ELSE "restart")
        /\ link' = [link EXCEPT ![Target(d)] = Commit(d)]
        /\ \A n \in LinksOf(Target(d)) : files[n][Commit(d)] = "good"
    BY <1>3 DEF Select, SetLink, Present
  <2>2. link'[Target(d)] = Commit(d) /\ \A n \in Links \ {Target(d)} : link'[n] = link[n]
    BY <1>0, <2>1
  <2> QED BY <2>1, <2>2, Moved
<1>4. CASE SelectKeygen(d)
  <2>1. /\ At(d, "keygen") /\ UNCHANGED <<files, approved, webroot, backups, lock, before>>
        /\ Step(d, "restart") /\ link' = [link EXCEPT !["llm-keygen"] = Commit(d)]
    BY <1>4 DEF SelectKeygen, SetLink
  <2>2. link'["llm-keygen"] = Commit(d) /\ \A n \in Links \ {"llm-keygen"} : link'[n] = link[n]
    BY <1>0, <2>1
  <2> QED BY <2>1, <2>2, Moved
<1>5. CASE Restart(d) BY <1>5, Moved DEF Restart
<1>6. CASE Healthy(d) BY <1>6, Moved DEF Healthy
<1>7. CASE Rollback(d)
  <2>1. /\ At(d, "rollback") /\ UNCHANGED <<files, approved, webroot, backups, lock, before>>
        /\ Step(d, IF Target(d) = "llm-gateway" /\ proc[d].previous["llm-keygen"] # None
                     THEN "rollback_keygen" ELSE "rollback_restart")
        /\ link' = [link EXCEPT ![Target(d)] = proc[d].previous[Target(d)]]
    BY <1>7 DEF Rollback, SetLink
  <2>2. /\ link'[Target(d)] = proc[d].previous[Target(d)]
        /\ \A n \in Links \ {Target(d)} : link'[n] = link[n]
    BY <1>0, <2>1
  <2> QED BY <2>1, <2>2, Moved
<1>8. CASE RollbackKeygen(d)
  <2>1. /\ At(d, "rollback_keygen") /\ UNCHANGED <<files, approved, webroot, backups, lock, before>>
        /\ Step(d, "rollback_restart")
        /\ link' = [link EXCEPT !["llm-keygen"] = proc[d].previous["llm-keygen"]]
    BY <1>8 DEF RollbackKeygen, SetLink
  <2>2. /\ link'["llm-keygen"] = proc[d].previous["llm-keygen"]
        /\ \A n \in Links \ {"llm-keygen"} : link'[n] = link[n]
    BY <1>0, <2>1
  <2> QED BY <2>1, <2>2, Moved
<1>9. CASE Stage(d) BY <1>9, Moved DEF Stage
<1>10. CASE Swap(d) BY <1>10, Moved DEF Swap
<1>11. CASE Served(d) BY <1>11, Moved DEF Served
<1> QED BY <1>1, <1>2, <1>3, <1>4, <1>5, <1>6, <1>7, <1>8, <1>9, <1>10, <1>11, <1>12

\* The steps that take the lock, look again, or keep the old webroot.
LEMMA TakesKeep ==
    ASSUME DTypes, DInv, NEW d \in Deployers,
           (\E t \in Targets : Begin(d, t)) \/ Lock(d) \/ Recheck(d) \/ BackUp(d)
    PROVE  ProcInv(d)'
<1> USE LinksFacts DEF DInv, ProcInv, ProcOf, WholeOf, ApprovedOf, LinksSince, WebrootSince,
            OrderOf, Target, Commit, At, Busy, Old, InsideLock, Cleared, BinarySteps, ConsoleSteps,
            rules, guests, binaries, console
<1>0. /\ link \in [Links -> Commit0] /\ link \in LinkMaps /\ webroot \in Commit0
      /\ proc \in [Deployers -> ProcRec]
  BY DEF DTypes, LinkMaps, Procs
<1>1. ASSUME NEW t \in Targets, Begin(d, t) PROVE ProcInv(d)'
  <2>1. /\ proc'[d].pc = "preflight" /\ proc'[d].target = t /\ proc'[d].cfg = manifest
        /\ proc'[d].previous = [n \in LinksOf(t) |-> link[n]] /\ proc'[d].kept = None
        /\ proc[d].pc = "idle" /\ UNCHANGED <<files, approved, link, webroot, backups, lock, before>>
    BY <1>0, <1>1 DEF Begin, Previous
  <2>2. manifest \in Manifests /\ manifest[t] \in Commits BY DEF DTypes
  <2>3. Environment = "prod" => manifest[t] \in approved[t]
    <3>1. Environment = "prod" => approval = [target |-> t, commit |-> manifest[t]]
      BY <1>1 DEF Begin, Approved
    <3>2. (Environment = "prod" /\ approval # None) => approval.commit \in approved[approval.target]
      BY DEF ApprovedState
    <3>3. [target |-> t, commit |-> manifest[t]] \in [target : Targets, commit : Commits]
      BY <2>2
    <3> QED BY <3>1, <3>2, <3>3
  <2>4. WholeOf(d)' BY <1>0, <2>1 DEF OnlyWholeArtifacts
  <2>5. ApprovedOf(d)' BY <1>0, <2>1, <2>3 DEF ServesApproved, EverApproved
  <2>6. ProcOf(d)' BY <1>0, <2>1, <2>2
  <2> QED BY <2>1, <2>4, <2>5, <2>6
<1>2. CASE Lock(d)
  <2>1. /\ proc[d].pc = "preflight" /\ UNCHANGED <<files, approved, link, webroot, backups>>
        /\ lock' = d /\ before'.link = link /\ before'.webroot = webroot /\ Step(d, "locked")
    BY <1>2 DEF Lock
  <2>2. ProcOf(d)' /\ WholeOf(d)' /\ ApprovedOf(d)' BY <2>1, Moved
  <2>3. LinksSince(d)' BY <1>0, <2>1, Moved
  <2>4. WebrootSince(d)' /\ OrderOf(d)' BY <2>1, Moved
  <2> QED BY <2>2, <2>3, <2>4
<1>3. CASE Recheck(d)
  <2>1. /\ proc[d].pc = "locked"
        /\ UNCHANGED <<files, approved, link, webroot, backups, lock, before>>
        /\ proc'[d].pc = IF Environment = "prod" THEN "backup" ELSE "order"
        /\ proc'[d].target = proc[d].target /\ proc'[d].cfg = proc[d].cfg
        /\ proc'[d].previous = [n \in LinksOf(Target(d)) |-> link[n]]
        /\ proc'[d].kept = proc[d].kept
    BY <1>0, <1>3 DEF Recheck, Previous, ProcRec
  <2>2. WholeOf(d)' BY <1>0, <2>1 DEF OnlyWholeArtifacts
  <2>3. ApprovedOf(d)' BY <1>0, <2>1 DEF ServesApproved, EverApproved
  <2>4. ProcOf(d)' BY <1>0, <2>1
  <2>5. LinksSince(d)' BY <1>0, <2>1
  <2> QED BY <2>1, <2>2, <2>3, <2>4, <2>5
<1>4. CASE BackUp(d)
  <2>1. /\ proc[d].pc = "set_aside"
        /\ UNCHANGED <<files, approved, link, lock, before>>
        /\ proc'[d].pc = "swap" /\ proc'[d].target = proc[d].target
        /\ proc'[d].cfg = proc[d].cfg /\ proc'[d].previous = proc[d].previous
    BY <1>0, <1>4 DEF BackUp, ProcRec
  <2>2. IF webroot = None THEN proc'[d].kept = proc[d].kept
        ELSE proc'[d].kept \in BackupNames /\ backups'[proc'[d].kept] = webroot
    BY <1>0, <1>4 DEF BackUp, ProcRec, DTypes
  <2> QED BY <2>1, <2>2
<1> HIDE DEF ProcInv, DInv
<1> QED BY <1>1, <1>2, <1>3, <1>4

-----------------------------------------------------------------------------
(* The state of the environment.                                           *)

Shared == OnlyWholeArtifacts /\ ServesApproved /\ ApprovedState

\* The steps that select, serve and approve nothing.
LEMMA SharedFrame ==
    ASSUME DTypes, DInv, Grows, UNCHANGED <<link, running, webroot, backups, approval>>
    PROVE  Shared'
<1> USE DEF DInv, Shared, DTypes, LinkMaps, Commit0
<1>1. OnlyWholeArtifacts'
  <2>1. \A u \in Units : u \in Links BY LinksFacts
  <2> QED BY <2>1 DEF OnlyWholeArtifacts, Grows
<1>2. ServesApproved'
  <2>1. "console" \in Targets BY DEF Targets
  <2> QED BY <2>1, LinksFacts DEF ServesApproved, EverApproved, Grows
<1>3. ApprovedState'
  <2>1. "console" \in Targets BY DEF Targets
  <2>2. approval # None => approval.target \in Targets OBVIOUS
  <2> QED BY <2>1, <2>2 DEF ApprovedState, Grows
<1> QED BY <1>1, <1>2, <1>3

\* A link that is set to an artifact the deployer may select.
LEMMA LinkSet ==
    ASSUME DTypes, DInv, NEW n \in Links, NEW c \in Commit0,
           link' = [link EXCEPT ![n] = c],
           UNCHANGED <<files, running, webroot, backups, approval, approved>>,
           c # None => files[n][c] = "good",
           Environment = "prod" => c \in approved[UnitOf(n)]
    PROVE  Shared'
<1> USE DEF DInv, Shared, DTypes, LinkMaps
<1>1. link'[n] = c /\ \A m \in Links \ {n} : link'[m] = link[m] OBVIOUS
<1>2. OnlyWholeArtifacts' BY <1>1 DEF OnlyWholeArtifacts
<1>3. ServesApproved' BY <1>1 DEF ServesApproved, EverApproved
<1>4. ApprovedState' BY DEF ApprovedState
<1> QED BY <1>2, <1>3, <1>4

\* A unit that is started from an artifact that may run.
LEMMA RunningSet ==
    ASSUME DTypes, DInv, NEW u \in Units, NEW c \in Commit0,
           running' = [running EXCEPT ![u] = c],
           UNCHANGED <<files, link, webroot, backups, approval, approved>>,
           c # None => files[u][c] = "good"
    PROVE  Shared'
<1> USE DEF DInv, Shared, DTypes
<1>1. running'[u] = c /\ \A v \in Units \ {u} : running'[v] = running[v] OBVIOUS
<1>2. OnlyWholeArtifacts' BY <1>1 DEF OnlyWholeArtifacts
<1>3. ServesApproved' BY DEF ServesApproved, EverApproved
<1>4. ApprovedState' BY DEF ApprovedState
<1> QED BY <1>2, <1>3, <1>4

\* The webroot and its backups change places.
LEMMA WebrootSet ==
    ASSUME DTypes, DInv, UNCHANGED <<files, link, running, approval, approved>>,
           Environment = "prod" =>
             /\ webroot' \in approved["console"] \cup {None}
             /\ \A b \in BackupNames : backups'[b] \in approved["console"] \cup {None}
    PROVE  Shared'
<1> USE DEF DInv, Shared
<1>1. OnlyWholeArtifacts' BY DEF OnlyWholeArtifacts
<1>2. ServesApproved' BY DEF ServesApproved, EverApproved
<1>3. ApprovedState' BY DEF ApprovedState
<1> QED BY <1>1, <1>2, <1>3

-----------------------------------------------------------------------------
(* Every step keeps the invariant.                                         *)

Moves(d) ==
    \/ VerifyBackup(d) \/ ApproveAgain(d) \/ CheckOrder(d) \/ Select(d) \/ SelectKeygen(d) \/ Restart(d)
    \/ Healthy(d) \/ Rollback(d) \/ RollbackKeygen(d) \/ Stage(d) \/ Swap(d) \/ Served(d)
Stops(d) ==
    \/ SelectKeygenFails(d) \/ RollbackRestart(d) \/ Restore(d) \/ WriteReceipt(d)
    \/ ReceiptRefused(d) \/ Refused(d) \/ Killed(d)
Either(d) == Unhealthy(d) \/ SwapFails(d) \/ NotServed(d)
Operators == ManifestChanges \/ ApprovalChanges \/ ProofChanges \/ \E u \in Units : ServiceChanges(u)

LEMMA NextCases ==
    ASSUME DNext
    PROVE  \/ Operators
           \/ \E d \in Deployers :
                 \/ \E t \in Targets : Begin(d, t)
                 \/ Lock(d) \/ Recheck(d) \/ BackUp(d)
                 \/ \E n \in Links : Push(d, n)
                 \/ Moves(d) \/ Stops(d) \/ Either(d)
BY DEF DNext, Checks, Binary, Console, Ending, Moves, Stops, Either, Operators

LEMMA LeftoverGrows ==
    ASSUME DTypes, NEW d \in Deployers, Leftover(d)
    PROVE  /\ \A n \in Links : \A c \in Commits : files[n][c] = "good" => files'[n][c] = "good"
           /\ UNCHANGED <<link, running, webroot, backups>>
           /\ lock # d /\ DInv => UNCHANGED guests
<1>1. CASE UNCHANGED guests BY <1>1 DEF guests, binaries, console
<1>2. CASE At(d, "install") /\ ~UNCHANGED guests
  <2>1. PICK n \in LinksOf(Target(d)) :
           files[n][Commit(d)] = "absent" /\ files' = [files EXCEPT ![n][Commit(d)] = "torn"]
    BY <1>2 DEF Leftover, At
  <2>2. files \in [Links -> [Commits -> {"absent", "torn", "good"}]] BY DEF DTypes
  <2>3. \A m \in Links : \A c \in Commits : files[m][c] = "good" => files'[m][c] = "good"
    BY <2>1, <2>2
  <2>4. UNCHANGED <<link, running, webroot, backups>>
    BY <1>2 DEF Leftover, At, console
  <2>5. DInv => lock = d BY <1>2 DEF DInv, ProcInv, ProcOf, At, InsideLock, Cleared
  <2> QED BY <2>3, <2>4, <2>5
<1>3. CASE At(d, "stage") /\ ~UNCHANGED guests
  <2>1. UNCHANGED <<files, link, running, webroot, backups>>
    BY <1>3 DEF Leftover, At, binaries
  <2>2. DInv => lock = d BY <1>3 DEF DInv, ProcInv, ProcOf, At, InsideLock, Cleared
  <2> QED BY <2>1, <2>2
<1> QED BY <1>1, <1>2, <1>3 DEF Leftover

LEMMA GrowsNext == DTypes /\ [DNext]_dVars => Grows
<1> SUFFICES ASSUME DTypes, [DNext]_dVars PROVE Grows OBVIOUS
<1> USE DEF rules, guests, binaries, console
<1>1. CASE UNCHANGED <<files, approved>> BY <1>1 DEF Grows
<1>2. CASE ApprovalChanges
  BY <1>2 DEF ApprovalChanges, Grows, DTypes
<1>3. ASSUME NEW d \in Deployers, NEW n \in Links, Push(d, n) PROVE Grows
  <2>1. files' = [files EXCEPT ![n][Commit(d)] = "good"] /\ UNCHANGED approved
    BY <1>3 DEF Push
  <2>2. files \in [Links -> [Commits -> {"absent", "torn", "good"}]] BY DEF DTypes
  <2> QED BY <2>1, <2>2 DEF Grows
<1>4. ASSUME NEW d \in Deployers, Refused(d) \/ Killed(d) PROVE Grows
  BY <1>4, LeftoverGrows DEF Refused, Killed, Grows
<1>5. ASSUME NEW d \in Deployers, Moves(d) \/ Either(d) PROVE Grows
  BY <1>5, <1>1 DEF Moves, Either, VerifyBackup, ApproveAgain, CheckOrder, Select, SelectKeygen, Restart, Healthy,
     Rollback, RollbackKeygen, Stage, Swap, Served, Unhealthy, SwapFails, NotServed, SetLink
<1>6. ASSUME NEW d \in Deployers, Stops(d) PROVE Grows
  BY <1>6, <1>1, <1>4 DEF Stops, SelectKeygenFails, RollbackRestart, Restore, WriteReceipt,
     ReceiptRefused, SetLink
<1>7. ASSUME NEW d \in Deployers,
             (\E t \in Targets : Begin(d, t)) \/ Lock(d) \/ Recheck(d) \/ BackUp(d)
      PROVE  Grows
  BY <1>7, <1>1 DEF Begin, Lock, Recheck, BackUp
<1>8. CASE Operators
  BY <1>8, <1>1, <1>2 DEF Operators, ManifestChanges, ProofChanges, ServiceChanges
<1>9. CASE UNCHANGED dVars BY <1>9, <1>1 DEF dVars
<1> QED BY <1>3, <1>5, <1>6, <1>7, <1>8, <1>9, NextCases

\* Steps inside the lock leave it where it is.
LEMMA HolderMoves ==
    ASSUME DTypes, DInv, NEW d \in Deployers, Moves(d) \/ Recheck(d) \/ BackUp(d)
    PROVE  /\ lock = d /\ lock' = d
           /\ \A e \in Deployers \ {d} : proc'[e] = proc[e]
<1>1. proc \in [Deployers -> ProcRec] BY DEF DTypes, Procs
<1>2. proc[d].pc \in InsideLock => lock = d BY DEF DInv, ProcInv, ProcOf
<1>3. CASE Moves(d)
  <2>1. proc[d].pc \in InsideLock /\ lock' = lock /\ \E pc : Step(d, pc)
    BY <1>3 DEF Moves, VerifyBackup, ApproveAgain, CheckOrder, Select, SelectKeygen, Restart, Healthy,
       Rollback, RollbackKeygen, Stage, Swap, Served, At, InsideLock, Cleared
  <2> QED BY <1>2, <2>1, Moved
<1>4. CASE Recheck(d)
  BY <1>1, <1>2, <1>4 DEF Recheck, At, InsideLock, Cleared
<1>5. CASE BackUp(d)
  <2>1. proc[d].pc \in InsideLock /\ lock' = lock BY <1>5 DEF BackUp, At, InsideLock, Cleared
  <2>2. \A e \in Deployers \ {d} : proc'[e] = proc[e] BY <1>1, <1>5 DEF BackUp
  <2> QED BY <1>2, <2>1, <2>2
<1> QED BY <1>3, <1>4, <1>5

\* A failed activation either begins its way back or ends.
LEMMA EitherKeeps ==
    ASSUME DTypes, DInv, Grows, NEW d \in Deployers, Either(d), NEW e \in Deployers
    PROVE  ProcInv(e)'
<1>1. lock = d
  BY DEF Either, Unhealthy, SwapFails, NotServed, At, DInv, ProcInv, ProcOf, InsideLock, Cleared
<1>2. CASE Ends(d) BY <1>1, <1>2, EndsKeeps
<1>3. CASE ~Ends(d)
  <2>1. \/ Step(d, "rollback") /\ At(d, "health") /\ UNCHANGED webroot
        \/ /\ Step(d, "restore") /\ Old(d)
           /\ At(d, "swap") \/ At(d, "serve")
    BY <1>3 DEF Either, Unhealthy, SwapFails, NotServed, guests, console
  <2>2. UNCHANGED <<files, link, running, backups, approved, lock, before>>
    BY <1>3 DEF Either, Unhealthy, SwapFails, NotServed, guests, console, binaries, rules
  <2>3. CASE e = d
    <3> USE LinksFacts DEF DInv, ProcInv, ProcOf, WholeOf, ApprovedOf, LinksSince, WebrootSince,
            OrderOf, Target, Commit, At, Busy, Old, InsideLock, Cleared, BinarySteps, ConsoleSteps
    <3> QED BY <2>1, <2>2, <2>3, Moved
  <2>4. CASE e # d
    <3>1. proc'[e] = proc[e] /\ lock # e /\ lock' # e BY <1>1, <2>1, <2>2, <2>4, Moved
    <3> QED BY <3>1, Bystander
  <2> QED BY <2>3, <2>4
<1> QED BY <1>2, <1>3

LEMMA StopsKeep ==
    ASSUME DTypes, DInv, Grows, NEW d \in Deployers, Stops(d), NEW e \in Deployers
    PROVE  ProcInv(e)'
<1>1. proc[d].pc \in InsideLock => lock = d BY DEF DInv, ProcInv, ProcOf
<1>2. CASE SelectKeygenFails(d) \/ RollbackRestart(d) \/ Restore(d)
  <2>1. Ends(d) /\ proc[d].pc \in InsideLock
    BY <1>2 DEF SelectKeygenFails, RollbackRestart, Restore, At, InsideLock, Cleared
  <2> QED BY <1>1, <2>1, EndsKeeps
<1>3. CASE WriteReceipt(d) \/ ReceiptRefused(d)
  <2>1. Ends(d) /\ UNCHANGED <<link, webroot, backups>>
    BY <1>3 DEF WriteReceipt, ReceiptRefused, guests, binaries, console
  <2> QED BY <2>1, EndsKeeps
<1>4. CASE Refused(d) \/ Killed(d)
  <2>1. Ends(d) /\ Leftover(d) BY <1>4 DEF Refused, Killed
  <2>2. UNCHANGED <<link, webroot, backups>> BY <2>1, LeftoverGrows
  <2> QED BY <2>1, <2>2, EndsKeeps
<1> QED BY <1>2, <1>3, <1>4 DEF Stops

LEMMA ProcInvNext ==
    ASSUME DTypes, DInv, [DNext]_dVars, NEW e \in Deployers PROVE ProcInv(e)'
<1>0. Grows BY GrowsNext
<1>1. CASE Operators \/ UNCHANGED dVars
  <2>1. proc' = proc /\ UNCHANGED <<lock, link, webroot, backups, before>>
    BY <1>1 DEF Operators, ManifestChanges, ApprovalChanges, ProofChanges, ServiceChanges,
       dVars, guests, binaries, console
  <2> QED BY <1>0, <2>1, Bystander
<1>2. ASSUME NEW d \in Deployers, NEW t \in Targets, Begin(d, t) PROVE ProcInv(e)'
  <2>1. CASE e = d BY <1>2, <2>1, TakesKeep
  <2>2. CASE e # d
    <3>1. proc'[e] = proc[e] /\ UNCHANGED <<lock, link, webroot, backups, before>>
      BY <1>2, <2>2 DEF Begin, guests, binaries, console, DTypes, Procs
    <3> QED BY <1>0, <3>1, Bystander
  <2> QED BY <2>1, <2>2
<1>3. ASSUME NEW d \in Deployers, Lock(d) PROVE ProcInv(e)'
  <2>1. CASE e = d BY <1>3, <2>1, TakesKeep
  <2>2. CASE e # d
    <3>1. proc'[e] = proc[e] BY <1>3, <2>2, Moved DEF Lock
    <3>2. lock # e /\ lock' # e BY <1>3, <2>2 DEF Lock
    <3> QED BY <1>0, <3>1, <3>2, Bystander
  <2> QED BY <2>1, <2>2
<1>4. ASSUME NEW d \in Deployers, Moves(d) \/ Recheck(d) \/ BackUp(d) PROVE ProcInv(e)'
  <2>1. CASE e = d BY <1>4, <2>1, MovesKeep, TakesKeep DEF Moves
  <2>2. CASE e # d BY <1>0, <1>4, <2>2, HolderMoves, Bystander
  <2> QED BY <2>1, <2>2
<1>5. ASSUME NEW d \in Deployers, NEW n \in Links, Push(d, n) PROVE ProcInv(e)'
  <2>1. proc' = proc /\ UNCHANGED <<lock, link, webroot, backups, before>>
    BY <1>5 DEF Push, console
  <2> QED BY <1>0, <2>1, Bystander
<1> QED BY <1>0, <1>1, <1>2, <1>3, <1>4, <1>5, EitherKeeps, StopsKeep, NextCases

\* What a deployer may select is an artifact or none.
LEMMA Selectable ==
    ASSUME DTypes, DInv, NEW d \in Deployers, Busy(d), Target(d) \in Units
    PROVE  /\ Commit(d) \in Commits /\ Commit(d) \in Commit0
           /\ \A n \in LinksOf(Target(d)) :
                /\ proc[d].previous[n] \in Commit0
                /\ proc[d].previous[n] # None => files[n][proc[d].previous[n]] = "good"
                /\ Environment = "prod" => proc[d].previous[n] \in approved[UnitOf(n)]
           /\ Environment = "prod" => Commit(d) \in approved[Target(d)]
<1>1. ProcOf(d) /\ WholeOf(d) /\ ApprovedOf(d) BY DEF DInv, ProcInv
<1>2. Target(d) \in Targets BY LinksFacts
<1>3. proc[d].cfg \in [Targets -> Commits] BY <1>1 DEF ProcOf
<1>4. Commit(d) \in Commits BY <1>2, <1>3 DEF Commit, Target
<1>5. \A n \in LinksOf(Target(d)) : proc[d].previous[n] \in Commit0 BY <1>1 DEF ProcOf
<1> QED BY <1>1, <1>4, <1>5 DEF WholeOf, ApprovedOf, Commit0

LEMMA SharedSelects ==
    ASSUME DTypes, DInv, NEW d \in Deployers,
           Select(d) \/ SelectKeygen(d) \/ SelectKeygenFails(d) \/ Rollback(d) \/ RollbackKeygen(d)
    PROVE  Shared'
<1>1. Busy(d) /\ Target(d) \in Units /\ (At(d, "install") \/ At(d, "rollback") \/ Target(d) = "llm-gateway")
  BY DEF Select, SelectKeygen, SelectKeygenFails, Rollback, RollbackKeygen, At, Busy, DInv,
     ProcInv, ProcOf, BinarySteps
<1>2. Target(d) \in Links /\ Target(d) \in LinksOf(Target(d)) /\ UnitOf(Target(d)) = Target(d)
  BY <1>1, LinksFacts
<1>3. Target(d) = "llm-gateway" =>
        /\ "llm-keygen" \in LinksOf(Target(d)) /\ "llm-keygen" \in Links
        /\ UnitOf("llm-keygen") = "llm-gateway" /\ "llm-gateway" \in LinksOf(Target(d))
        /\ "llm-gateway" \in Links
  BY LinksFacts DEF Links, UnitOf
<1>4. At(d, "keygen") => \A n \in LinksOf(Target(d)) : files[n][Commit(d)] = "good"
  BY <1>1 DEF DInv, ProcInv, WholeOf, At
<1>5. \A n, c : SetLink(n, c) =>
        /\ link' = [link EXCEPT ![n] = c]
        /\ UNCHANGED <<files, running, webroot, backups, approval, approved>>
  BY DEF SetLink, rules, console
<1>6. CASE Select(d)
  <2>1. SetLink(Target(d), Commit(d)) /\ files[Target(d)][Commit(d)] = "good"
    BY <1>2, <1>6 DEF Select, Present
  <2> QED BY <1>1, <1>2, <1>5, <2>1, Selectable, LinkSet
<1>7. CASE SelectKeygen(d)
  <2>1. SetLink("llm-keygen", Commit(d)) /\ At(d, "keygen") /\ Target(d) = "llm-gateway"
    BY <1>7 DEF SelectKeygen, DInv, ProcInv, ProcOf, At
  <2> QED BY <1>1, <1>3, <1>4, <1>5, <2>1, Selectable, LinkSet
<1>8. CASE SelectKeygenFails(d)
  <2> DEFINE c == IF proc[d].previous["llm-gateway"] = None THEN Commit(d)
                  ELSE proc[d].previous["llm-gateway"]
  <2>1. SetLink("llm-gateway", c) /\ At(d, "keygen") /\ Target(d) = "llm-gateway"
    BY <1>8 DEF SelectKeygenFails, DInv, ProcInv, ProcOf, At
  <2>2. c \in Commit0 /\ (c # None => files["llm-gateway"][c] = "good")
        /\ (Environment = "prod" => c \in approved[UnitOf("llm-gateway")])
    BY <1>1, <1>2, <1>3, <1>4, <2>1, Selectable
  <2> HIDE DEF c
  <2> QED BY <1>3, <1>5, <2>1, <2>2, LinkSet
<1>9. CASE Rollback(d)
  <2>1. SetLink(Target(d), proc[d].previous[Target(d)]) BY <1>9 DEF Rollback
  <2> QED BY <1>1, <1>2, <1>5, <2>1, Selectable, LinkSet
<1>10. CASE RollbackKeygen(d)
  <2>1. SetLink("llm-keygen", proc[d].previous["llm-keygen"]) /\ Target(d) = "llm-gateway"
    BY <1>10 DEF RollbackKeygen, DInv, ProcInv, ProcOf, At
  <2> QED BY <1>1, <1>3, <1>5, <2>1, Selectable, LinkSet
<1> QED BY <1>6, <1>7, <1>8, <1>9, <1>10

LEMMA SharedRuns ==
    ASSUME DTypes, DInv,
           \/ \E u \in Units : ServiceChanges(u)
           \/ \E d \in Deployers : Restart(d) \/ RollbackRestart(d)
    PROVE  Shared'
<1>1. ASSUME NEW u \in Units, ServiceChanges(u) PROVE Shared'
  <2>1. UNCHANGED <<files, link, webroot, backups, approval, approved>>
    BY <1>1 DEF ServiceChanges, rules, console
  <2>2. PICK c \in {None, link[u]} : running' = [running EXCEPT ![u] = c]
    BY <1>1 DEF ServiceChanges
  <2>3. u \in Links BY LinksFacts
  <2>4. c \in Commit0 BY <2>2, <2>3 DEF DTypes, LinkMaps, Commit0
  <2>5. c # None => files[u][c] = "good" BY <2>2, <2>3 DEF DInv, OnlyWholeArtifacts
  <2> QED BY <2>1, <2>2, <2>4, <2>5, RunningSet
<1>2. ASSUME NEW d \in Deployers, Restart(d) PROVE Shared'
  <2>1. UNCHANGED <<files, link, webroot, backups, approval, approved>> /\ At(d, "restart")
    BY <1>2 DEF Restart, rules, console
  <2>2. PICK c \in {Commit(d), None, running[Target(d)]} :
           running' = [running EXCEPT ![Target(d)] = c]
    BY <1>2 DEF Restart
  <2>3. Busy(d) /\ Target(d) \in Units BY <2>1 DEF DInv, ProcInv, ProcOf, At, Busy, BinarySteps
  <2>4. files[Target(d)][Commit(d)] = "good"
    BY <2>1, <2>3, LinksFacts DEF DInv, ProcInv, WholeOf, At
  <2>5. c \in Commit0 BY <2>2, <2>3, Selectable DEF DTypes, Commit0
  <2>6. c # None => files[Target(d)][c] = "good" BY <2>2, <2>3, <2>4 DEF DInv, OnlyWholeArtifacts
  <2> QED BY <2>1, <2>2, <2>3, <2>5, <2>6, RunningSet
<1>3. ASSUME NEW d \in Deployers, RollbackRestart(d) PROVE Shared'
  <2>1. UNCHANGED <<files, link, webroot, backups, approval, approved>> /\ At(d, "rollback_restart")
    BY <1>3 DEF RollbackRestart, rules, console
  <2>2. PICK c \in {proc[d].previous[Target(d)], None} :
           running' = [running EXCEPT ![Target(d)] = c]
    BY <1>3 DEF RollbackRestart
  <2>3. Busy(d) /\ Target(d) \in Units BY <2>1 DEF DInv, ProcInv, ProcOf, At, Busy, BinarySteps
  <2>4. Target(d) \in LinksOf(Target(d)) BY <2>3, LinksFacts
  <2>5. c \in Commit0 /\ (c # None => files[Target(d)][c] = "good")
    BY <2>2, <2>3, <2>4, Selectable DEF Commit0
  <2> QED BY <2>1, <2>2, <2>3, <2>5, RunningSet
<1> QED BY <1>1, <1>2, <1>3

LEMMA SharedConsole ==
    ASSUME DTypes, DInv, NEW d \in Deployers, BackUp(d) \/ Swap(d) \/ NotServed(d) \/ Restore(d)
    PROVE  Shared'
<1>1. UNCHANGED <<files, link, running, approval, approved>>
  BY DEF BackUp, Swap, NotServed, Restore, rules, binaries
<1>2. Environment = "prod" =>
        /\ webroot \in approved["console"] \cup {None}
        /\ \A b \in BackupNames : backups[b] \in approved["console"] \cup {None}
  BY DEF DInv, ServesApproved, EverApproved, ApprovedState
<1>3. backups \in [BackupNames -> Commit0] BY DEF DTypes
<1>4. CASE BackUp(d)
  BY <1>1, <1>2, <1>3, <1>4, WebrootSet DEF BackUp
<1>5. CASE Swap(d)
  <2>1. webroot' = Commit(d) /\ UNCHANGED backups /\ At(d, "swap") BY <1>5 DEF Swap
  <2>2. Target(d) = "console" /\ Busy(d)
    BY <2>1 DEF DInv, ProcInv, ProcOf, At, ConsoleSteps, Busy
  <2>3. Environment = "prod" => Commit(d) \in approved["console"]
    BY <2>2 DEF DInv, ProcInv, ApprovedOf
  <2> QED BY <1>1, <1>2, <2>1, <2>3, WebrootSet
<1>6. CASE NotServed(d)
  <2>1. webroot' \in {webroot, None} /\ UNCHANGED backups BY <1>6 DEF NotServed
  <2> QED BY <1>1, <1>2, <2>1, WebrootSet
<1>7. CASE Restore(d)
  <2>1. /\ webroot' = backups[proc[d].kept] /\ At(d, "restore")
        /\ backups' = [backups EXCEPT ![proc[d].kept] = None]
    BY <1>7 DEF Restore
  <2>2. lock = d BY <2>1 DEF DInv, ProcInv, ProcOf, At, InsideLock, Cleared
  <2>3. proc[d].kept # None BY <2>1, <2>2 DEF DInv, ProcInv, WebrootSince, At, Old
  <2>4. proc[d].kept \in BackupNames BY <2>3 DEF DTypes, Procs, ProcRec
  <2> QED BY <1>1, <1>2, <1>3, <2>1, <2>4, WebrootSet
<1> QED BY <1>4, <1>5, <1>6, <1>7

LEMMA SharedNext ==
    ASSUME DTypes, DInv, [DNext]_dVars PROVE Shared'
<1>0. Grows BY GrowsNext
<1> USE DEF rules, guests, binaries, console
<1>1. CASE UNCHANGED <<link, running, webroot, backups, approval>> BY <1>0, <1>1, SharedFrame
<1>2. CASE ApprovalChanges
  <2>1. OnlyWholeArtifacts' /\ ServesApproved'
    <3>1. UNCHANGED <<link, running, webroot, backups, files>> BY <1>2 DEF ApprovalChanges
    <3>2. "console" \in Targets BY DEF Targets
    <3>3. OnlyWholeArtifacts' BY <3>1 DEF OnlyWholeArtifacts, DInv
    <3>4. ServesApproved'
      BY <1>0, <3>1, <3>2, LinksFacts DEF ServesApproved, EverApproved, DInv, Grows
    <3> QED BY <3>3, <3>4
  <2>2. ApprovedState'
    <3>1. "console" \in Targets BY DEF Targets
    <3>2. UNCHANGED backups BY <1>2 DEF ApprovalChanges
    <3>3. Environment = "prod" =>
            \A b \in BackupNames : backups'[b] \in approved'["console"] \cup {None}
      BY <1>0, <3>1, <3>2 DEF ApprovedState, DInv, Grows
    <3>4. approval' # None => approval'.commit \in approved'[approval'.target]
      BY <1>2 DEF ApprovalChanges, DTypes
    <3> QED BY <3>3, <3>4 DEF ApprovedState
  <2> QED BY <2>1, <2>2 DEF Shared
<1>3. CASE Operators
  BY <1>1, <1>2, <1>3, SharedRuns DEF Operators, ManifestChanges, ProofChanges
<1>4. ASSUME NEW d \in Deployers, Moves(d) PROVE Shared'
  BY <1>1, <1>4, SharedSelects, SharedRuns, SharedConsole
     DEF Moves, VerifyBackup, ApproveAgain, CheckOrder, Healthy, Stage, Served
<1>5. ASSUME NEW d \in Deployers, Refused(d) \/ Killed(d) PROVE Shared'
  <2>1. Leftover(d) /\ UNCHANGED approval BY <1>5 DEF Refused, Killed
  <2> QED BY <1>1, <2>1, LeftoverGrows
<1>6. ASSUME NEW d \in Deployers, Stops(d) PROVE Shared'
  BY <1>1, <1>5, <1>6, SharedSelects, SharedRuns, SharedConsole
     DEF Stops, WriteReceipt, ReceiptRefused
<1>7. ASSUME NEW d \in Deployers, Either(d) PROVE Shared'
  BY <1>1, <1>7, SharedConsole DEF Either, Unhealthy, SwapFails
<1>8. ASSUME NEW d \in Deployers, (\E n \in Links : Push(d, n)) PROVE Shared'
  BY <1>1, <1>8 DEF Push
<1>9. ASSUME NEW d \in Deployers,
             (\E t \in Targets : Begin(d, t)) \/ Lock(d) \/ Recheck(d) \/ BackUp(d)
      PROVE  Shared'
  BY <1>1, <1>9, SharedConsole DEF Begin, Lock, Recheck
<1>10. CASE UNCHANGED dVars BY <1>1, <1>10 DEF dVars
<1> QED BY <1>3, <1>4, <1>6, <1>7, <1>8, <1>9, <1>10, NextCases

-----------------------------------------------------------------------------
(* Every step keeps the types.                                             *)

LEMMA ProcUpdates ==
    /\ \A p \in ProcRec : \A pc \in InsideLock \cup {"idle", "preflight"} :
          [p EXCEPT !.pc = pc] \in ProcRec
    /\ \A p \in ProcRec : \A q \in Previouses : [p EXCEPT !.previous = q] \in ProcRec
    /\ \A p \in ProcRec : \A b \in BackupNames : [p EXCEPT !.kept = b] \in ProcRec
    /\ Idle \in ProcRec
    /\ \A t \in Targets : \A m \in Manifests : \A q \in Previouses :
          [pc |-> "preflight", target |-> t, cfg |-> m, previous |-> q, kept |-> None] \in ProcRec
<1>1. None \in Previouses BY DEF Previouses
<1>2. Idle \in ProcRec BY <1>1 DEF Idle, ProcRec
<1>3. \A t \in Targets : \A m \in Manifests : \A q \in Previouses :
          [pc |-> "preflight", target |-> t, cfg |-> m, previous |-> q, kept |-> None] \in ProcRec
  BY DEF ProcRec
<1>4. \A p \in ProcRec : \A pc \in InsideLock \cup {"idle", "preflight"} :
          [p EXCEPT !.pc = pc] \in ProcRec
  BY DEF ProcRec
<1>5. \A p \in ProcRec : \A q \in Previouses : [p EXCEPT !.previous = q] \in ProcRec
  BY DEF ProcRec
<1>6. \A p \in ProcRec : \A b \in BackupNames : [p EXCEPT !.kept = b] \in ProcRec
  BY DEF ProcRec
<1> QED BY <1>2, <1>3, <1>4, <1>5, <1>6

LEMMA PreviousType ==
    ASSUME DTypes, NEW t \in Targets PROVE Previous(t) \in Previouses
<1>1. LinksOf(t) \in SUBSET Links BY LinksFacts
<1>2. [n \in LinksOf(t) |-> link[n]] \in [LinksOf(t) -> Commit0] BY <1>1 DEF DTypes, LinkMaps
<1> QED BY <1>1, <1>2 DEF Previous, Previouses, PreviousMaps

LEMMA StepType ==
    ASSUME DTypes, NEW d \in Deployers, NEW pc \in InsideLock \cup {"idle", "preflight"}, Step(d, pc)
    PROVE  proc' \in Procs
<1>1. proc \in [Deployers -> ProcRec] BY DEF DTypes, Procs
<1>2. [proc[d] EXCEPT !.pc = pc] \in ProcRec BY <1>1, ProcUpdates
<1> QED BY <1>1, <1>2 DEF Step, Procs

LEMMA EndsType ==
    ASSUME DTypes, NEW d \in Deployers, Ends(d)
    PROVE  proc' \in Procs /\ lock' \in Deployers \cup {None}
           /\ before' \in [link : LinkMaps \cup {None}, webroot : Commit0]
<1>1. proc \in [Deployers -> ProcRec] BY DEF DTypes, Procs
<1>2. proc' \in Procs BY <1>1, ProcUpdates DEF Ends, Procs
<1>3. lock' \in Deployers \cup {None} BY DEF Ends, DTypes
<1>4. NothingBefore \in [link : LinkMaps \cup {None}, webroot : Commit0]
  BY DEF NothingBefore, Commit0
<1>5. before' \in [link : LinkMaps \cup {None}, webroot : Commit0] BY <1>4 DEF Ends, DTypes
<1> QED BY <1>2, <1>3, <1>5

\* The types of everything but the processes, the lock and what it remembers.
Stores ==
    /\ manifest \in Manifests
    /\ files \in [Links -> [Commits -> {"absent", "torn", "good"}]]
    /\ link \in LinkMaps /\ running \in [Units -> Commit0]
    /\ webroot \in Commit0 /\ releases \subseteq Commits /\ asides \subseteq Commits
    /\ backups \in [BackupNames -> Commit0]
    /\ receipt \in [Targets -> Commit0] /\ kills \in Nat
    /\ approved \in [Targets -> SUBSET Commits]
    /\ approval \in [target : Targets, commit : Commits] \cup {None}
Sessions ==
    /\ proc \in Procs /\ lock \in Deployers \cup {None}
    /\ before \in [link : LinkMaps \cup {None}, webroot : Commit0]

LEMMA SessionsNext ==
    ASSUME DTypes, DInv, [DNext]_dVars PROVE Sessions'
<1>0. Sessions BY DEF Sessions, DTypes
<1>1. CASE UNCHANGED <<proc, lock, before>> BY <1>0, <1>1 DEF Sessions
<1>2. ASSUME NEW d \in Deployers, Ends(d) PROVE Sessions' BY <1>2, EndsType DEF Sessions
<1>3. ASSUME NEW d \in Deployers, NEW pc \in InsideLock, Step(d, pc), UNCHANGED <<lock, before>>
      PROVE  Sessions'
  BY <1>0, <1>3, StepType DEF Sessions
<1>4. proc \in [Deployers -> ProcRec] BY DEF DTypes, Procs
<1>5. ASSUME NEW d \in Deployers, NEW t \in Targets, Begin(d, t) PROVE Sessions'
  <2>1. UNCHANGED <<lock, before>> BY <1>5 DEF Begin
  <2>2. manifest \in Manifests BY DEF DTypes
  <2>3. [pc |-> "preflight", target |-> t, cfg |-> manifest, previous |-> Previous(t),
         kept |-> None] \in ProcRec
    BY <2>2, ProcUpdates, PreviousType
  <2>4. proc' \in Procs BY <1>4, <1>5, <2>3 DEF Begin, Procs
  <2> QED BY <1>0, <2>1, <2>4 DEF Sessions
<1>6. ASSUME NEW d \in Deployers, Lock(d) PROVE Sessions'
  <2>1. Step(d, "locked") /\ lock' = d /\ before' = [link |-> link, webroot |-> webroot]
    BY <1>6 DEF Lock
  <2>2. proc' \in Procs BY <2>1, StepType DEF InsideLock, Cleared
  <2>3. before' \in [link : LinkMaps \cup {None}, webroot : Commit0] BY <2>1 DEF DTypes
  <2> QED BY <2>1, <2>2, <2>3 DEF Sessions
<1>7. ASSUME NEW d \in Deployers, Recheck(d) PROVE Sessions'
  <2>1. Target(d) \in Targets
    BY <1>7 DEF Recheck, At, DInv, ProcInv, ProcOf, Busy
  <2>2. \A pc \in InsideLock : [[proc[d] EXCEPT !.pc = pc] EXCEPT !.previous = Previous(Target(d))] \in ProcRec
    BY <1>4, <2>1, ProcUpdates, PreviousType
  <2>3. proc' = [proc EXCEPT ![d] = [[proc[d] EXCEPT !.pc = IF Environment = "prod" THEN "backup" ELSE "order"]
                                      EXCEPT !.previous = Previous(Target(d))]]
    BY <1>4, <1>7 DEF Recheck
  <2>4. proc' \in Procs BY <1>4, <2>2, <2>3 DEF Procs, InsideLock, Cleared
  <2> QED BY <1>0, <1>7, <2>4 DEF Sessions, Recheck
<1>8. ASSUME NEW d \in Deployers, BackUp(d) PROVE Sessions'
  <2>1. [proc[d] EXCEPT !.pc = "swap"] \in ProcRec BY <1>4, ProcUpdates DEF InsideLock, Cleared
  <2>2. \A b \in BackupNames : [[proc[d] EXCEPT !.pc = "swap"] EXCEPT !.kept = b] \in ProcRec
    BY <2>1, ProcUpdates
  <2>3. \/ proc' = [proc EXCEPT ![d] = [proc[d] EXCEPT !.pc = "swap"]]
        \/ \E b \in BackupNames :
              proc' = [proc EXCEPT ![d] = [[proc[d] EXCEPT !.pc = "swap"] EXCEPT !.kept = b]]
    BY <1>4, <1>8 DEF BackUp
  <2>4. proc' \in Procs BY <1>4, <2>1, <2>2, <2>3 DEF Procs
  <2> QED BY <1>0, <1>8, <2>4 DEF Sessions, BackUp
<1>9. ASSUME NEW d \in Deployers, Moves(d) PROVE Sessions'
  <2>1. UNCHANGED <<lock, before>> /\ \E pc \in InsideLock : Step(d, pc)
    BY <1>9 DEF Moves, VerifyBackup, ApproveAgain, CheckOrder, Select, SelectKeygen, Restart, Healthy,
       Rollback, RollbackKeygen, Stage, Swap, Served, InsideLock, Cleared
  <2> QED BY <1>3, <2>1
<1>10. ASSUME NEW d \in Deployers, Stops(d) \/ Either(d) PROVE Sessions'
  <2>1. \/ Ends(d)
        \/ UNCHANGED <<lock, before>> /\ \E pc \in InsideLock : Step(d, pc)
    BY <1>10 DEF Stops, Either, SelectKeygenFails, RollbackRestart, Restore, WriteReceipt,
       ReceiptRefused, Refused, Killed, Unhealthy, SwapFails, NotServed, InsideLock, Cleared
  <2> QED BY <1>2, <1>3, <2>1
<1>11. CASE Operators
  BY <1>1, <1>11 DEF Operators, ManifestChanges, ApprovalChanges, ProofChanges, ServiceChanges
<1>12. ASSUME NEW d \in Deployers, (\E n \in Links : Push(d, n)) PROVE Sessions'
  BY <1>1, <1>12 DEF Push
<1>13. CASE UNCHANGED dVars BY <1>1, <1>13 DEF dVars
<1> QED BY <1>5, <1>6, <1>7, <1>8, <1>9, <1>10, <1>11, <1>12, <1>13, NextCases

\* The commit a deployer works for, once it has a target.
LEMMA CommitType ==
    ASSUME DTypes, DInv, NEW d \in Deployers, Busy(d)
    PROVE  /\ Target(d) \in Targets /\ Commit(d) \in Commits /\ Commit(d) \in Commit0
           /\ \A n \in LinksOf(Target(d)) : n \in Links /\ proc[d].previous[n] \in Commit0
<1>1. ProcOf(d) BY DEF DInv, ProcInv
<1>2. Target(d) \in Targets /\ proc[d].cfg \in [Targets -> Commits] BY <1>1 DEF ProcOf
<1> QED BY <1>1, <1>2, LinksFacts DEF ProcOf, Commit, Target, Commit0

LEMMA StoresNext ==
    ASSUME DTypes, DInv, [DNext]_dVars PROVE Stores'
<1>0. Stores BY DEF Stores, DTypes
<1> USE DEF rules, guests, binaries, console
<1> DEFINE Same == UNCHANGED <<manifest, approval, approved, kills>>
<1>1. CASE Same /\ UNCHANGED guests /\ UNCHANGED receipt
  BY <1>0, <1>1 DEF Stores
<1>2. ASSUME Same, UNCHANGED <<files, running, console, receipt>>, link' \in LinkMaps
      PROVE  Stores'
  BY <1>0, <1>2 DEF Stores
<1>3. ASSUME Same, UNCHANGED <<files, link, console, receipt>>, running' \in [Units -> Commit0]
      PROVE  Stores'
  BY <1>0, <1>3 DEF Stores
<1>4. ASSUME Same, UNCHANGED <<link, running, console, receipt>>,
             files' \in [Links -> [Commits -> {"absent", "torn", "good"}]]
      PROVE  Stores'
  BY <1>0, <1>4 DEF Stores
<1>5. ASSUME Same, UNCHANGED <<binaries, receipt>>,
             webroot' \in Commit0 /\ releases' \subseteq Commits /\ asides' \subseteq Commits
             /\ backups' \in [BackupNames -> Commit0]
      PROVE  Stores'
  BY <1>0, <1>5 DEF Stores
<1>6. ASSUME NEW n \in Links, NEW c \in Commit0, SetLink(n, c) PROVE Stores'
  <2>1. link' \in LinkMaps BY <1>0, <1>6 DEF SetLink, Stores, LinkMaps
  <2> QED BY <1>2, <1>6, <2>1 DEF SetLink
<1>7. ASSUME NEW d \in Deployers, NEW n \in Links, NEW f \in {"good", "torn"},
             Same, UNCHANGED <<link, running, console, receipt>>, Busy(d),
             files' = [files EXCEPT ![n][Commit(d)] = f]
      PROVE  Stores'
  <2>1. Commit(d) \in Commits BY <1>7, CommitType
  <2>2. files' \in [Links -> [Commits -> {"absent", "torn", "good"}]]
    BY <1>0, <1>7, <2>1 DEF Stores
  <2> QED BY <1>4, <1>7, <2>2
<1>8. ASSUME NEW d \in Deployers,
             Select(d) \/ SelectKeygen(d) \/ SelectKeygenFails(d) \/ Rollback(d) \/ RollbackKeygen(d)
      PROVE  Stores'
  <2>1. Busy(d) /\ Target(d) \in Units
    BY <1>8 DEF Select, SelectKeygen, SelectKeygenFails, Rollback, RollbackKeygen, At, Busy, DInv,
       ProcInv, ProcOf, BinarySteps
  <2>2. At(d, "keygen") \/ At(d, "rollback_keygen") => Target(d) = "llm-gateway"
    BY DEF DInv, ProcInv, ProcOf, At
  <2>3. \E n \in LinksOf(Target(d)) : \E c \in Commit0 : SetLink(n, c)
    <3>1. Target(d) \in LinksOf(Target(d)) BY <2>1, LinksFacts
    <3>2. Target(d) = "llm-gateway" =>
            "llm-keygen" \in LinksOf(Target(d)) /\ "llm-gateway" \in LinksOf(Target(d))
      BY LinksFacts
    <3> QED BY <1>8, <2>1, <2>2, <3>1, <3>2, CommitType
            DEF Select, SelectKeygen, SelectKeygenFails, Rollback, RollbackKeygen
  <2> QED BY <1>6, <2>1, <2>3, CommitType
<1>9. ASSUME NEW d \in Deployers, Restart(d) \/ RollbackRestart(d) PROVE Stores'
  <2>1. Busy(d) /\ Target(d) \in Units
    BY <1>9 DEF Restart, RollbackRestart, At, Busy, DInv, ProcInv, ProcOf, BinarySteps
  <2>2. Target(d) \in LinksOf(Target(d)) BY <2>1, LinksFacts
  <2>3. \E c \in Commit0 : running' = [running EXCEPT ![Target(d)] = c]
    BY <1>0, <1>9, <2>1, <2>2, CommitType DEF Restart, RollbackRestart, Stores, Commit0
  <2>4. running' \in [Units -> Commit0] BY <1>0, <2>1, <2>3 DEF Stores
  <2> QED BY <1>3, <1>9, <2>4 DEF Restart, RollbackRestart
<1>10. ASSUME NEW u \in Units, ServiceChanges(u) PROVE Stores'
  <2>1. link[u] \in Commit0 BY <1>0, LinksFacts DEF Stores, LinkMaps
  <2>2. running' \in [Units -> Commit0] BY <1>0, <1>10, <2>1 DEF ServiceChanges, Stores, Commit0
  <2> QED BY <1>3, <1>10, <2>2 DEF ServiceChanges
<1>11. ASSUME NEW d \in Deployers, Stage(d) PROVE Stores'
  <2>1. Commit(d) \in Commits BY <1>11, CommitType DEF Stage, At, Busy
  <2> QED BY <1>0, <1>5, <1>11, <2>1 DEF Stage, Stores
<1>12. ASSUME NEW d \in Deployers, BackUp(d) PROVE Stores'
  <2>1. None \in Commit0 BY DEF Commit0
  <2>2. webroot' \in Commit0 /\ backups' \in [BackupNames -> Commit0]
    BY <1>0, <1>12, <2>1 DEF BackUp, Stores
  <2> QED BY <1>0, <1>5, <1>12, <2>2 DEF BackUp, Stores
<1>13. ASSUME NEW d \in Deployers, Swap(d) PROVE Stores'
  <2>1. Commit(d) \in Commit0 BY <1>13, CommitType DEF Swap, At, Busy
  <2> QED BY <1>0, <1>5, <1>13, <2>1 DEF Swap, Stores
<1>14. ASSUME NEW d \in Deployers, NotServed(d) PROVE Stores'
  <2>1. CASE UNCHANGED <<asides, webroot>> BY <1>1, <1>14, <2>1 DEF NotServed
  <2>2. CASE Old(d) /\ webroot \in Commits
    <3>1. asides' = asides \cup {webroot} /\ webroot' = None BY <1>14, <2>2 DEF NotServed
    <3> QED BY <1>0, <1>5, <1>14, <2>2, <3>1 DEF NotServed, Stores, Commit0
  <2>3. webroot \in Commits
    <3>1. At(d, "serve") BY <1>14 DEF NotServed
    <3>2. webroot = Commit(d) BY <3>1 DEF At, DInv, ProcInv, ProcOf, WebrootSince, InsideLock, Cleared
    <3> QED BY <3>1, <3>2, CommitType DEF At, Busy
  <2> QED BY <1>14, <2>1, <2>2, <2>3 DEF NotServed
<1>15. ASSUME NEW d \in Deployers, Restore(d) PROVE Stores'
  <2>1. At(d, "restore") BY <1>15 DEF Restore
  <2>2. proc[d].kept \in BackupNames
    BY <2>1 DEF DTypes, Procs, ProcRec, At, DInv, ProcInv, ProcOf, WebrootSince, InsideLock, Cleared, Old
  <2>3. webroot' \in Commit0 /\ backups' \in [BackupNames -> Commit0]
    BY <1>0, <1>15, <2>2 DEF Restore, Stores, Commit0
  <2> QED BY <1>0, <1>5, <1>15, <2>3 DEF Restore, Stores
<1>16. ASSUME NEW d \in Deployers, WriteReceipt(d) PROVE Stores'
  <2>1. Target(d) \in Targets /\ Commit(d) \in Commit0
    BY <1>16, CommitType DEF WriteReceipt, At, Busy
  <2>2. receipt' \in [Targets -> Commit0] BY <1>0, <1>16, <2>1 DEF WriteReceipt, Stores
  <2> QED BY <1>0, <1>16, <2>2 DEF WriteReceipt, Stores
<1>17. ASSUME NEW d \in Deployers, NEW n \in Links, Push(d, n) PROVE Stores'
  BY <1>7, <1>17 DEF Push, At, Busy
<1>18. ASSUME NEW d \in Deployers, Leftover(d), Same, UNCHANGED receipt PROVE Stores'
  <2>1. CASE UNCHANGED guests BY <1>1, <1>18, <2>1
  <2>2. CASE At(d, "install") /\ ~UNCHANGED guests
    <3>1. Busy(d) BY <2>2 DEF At, Busy
    <3>2. PICK n \in LinksOf(Target(d)) : files' = [files EXCEPT ![n][Commit(d)] = "torn"]
      BY <1>18, <2>2 DEF Leftover, At
    <3>3. UNCHANGED <<link, running, console>> BY <1>18, <2>2 DEF Leftover, At
    <3> QED BY <1>7, <1>18, <3>1, <3>2, <3>3, CommitType
  <2>3. CASE At(d, "stage") /\ ~UNCHANGED guests
    <3>1. Commit(d) \in Commits BY <2>3, CommitType DEF At, Busy
    <3>2. UNCHANGED <<binaries, webroot, backups, asides>> /\ releases' = releases \cup {Commit(d)}
      BY <1>18, <2>3 DEF Leftover, At
    <3> QED BY <1>0, <1>5, <1>18, <3>1, <3>2 DEF Stores
  <2> QED BY <1>18, <2>1, <2>2, <2>3 DEF Leftover
<1>19. ASSUME NEW d \in Deployers, Refused(d) PROVE Stores'
  BY <1>18, <1>19 DEF Refused
<1>20. ASSUME NEW d \in Deployers, Killed(d) PROVE Stores'
  <2>1. /\ Leftover(d) /\ kills' = kills + 1
        /\ UNCHANGED <<manifest, approval, approved, receipt>>
    BY <1>20 DEF Killed
  <2>2. kills' \in Nat BY <1>0, <2>1 DEF Stores
  <2>3. CASE UNCHANGED guests BY <1>0, <2>1, <2>2, <2>3 DEF Stores
  <2>4. CASE At(d, "install") /\ ~UNCHANGED guests
    <3>1. Busy(d) BY <2>4 DEF At, Busy
    <3>2. PICK n \in LinksOf(Target(d)) : files' = [files EXCEPT ![n][Commit(d)] = "torn"]
      BY <2>1, <2>4 DEF Leftover, At
    <3>3. files' \in [Links -> [Commits -> {"absent", "torn", "good"}]]
      BY <1>0, <3>1, <3>2, CommitType DEF Stores
    <3>4. UNCHANGED <<link, running, console>> BY <2>1, <2>4 DEF Leftover, At
    <3> QED BY <1>0, <2>1, <2>2, <3>3, <3>4 DEF Stores
  <2>5. CASE At(d, "stage") /\ ~UNCHANGED guests
    <3>1. Commit(d) \in Commits BY <2>5, CommitType DEF At, Busy
    <3>2. UNCHANGED <<binaries, webroot, backups, asides>> /\ releases' = releases \cup {Commit(d)}
      BY <2>1, <2>5 DEF Leftover, At
    <3> QED BY <1>0, <2>1, <2>2, <3>1, <3>2 DEF Stores
  <2> QED BY <2>1, <2>3, <2>4, <2>5 DEF Leftover
<1>21. CASE ManifestChanges BY <1>0, <1>21 DEF ManifestChanges, Stores
<1>22. CASE ApprovalChanges
  <2>1. UNCHANGED <<manifest, kills, guests, receipt>> BY <1>22 DEF ApprovalChanges
  <2>2. \A t \in Targets : manifest[t] \in Commits BY <1>0 DEF Stores
  <2>3. approved' \in [Targets -> SUBSET Commits]
    BY <1>0, <1>22, <2>2 DEF ApprovalChanges, Stores
  <2>4. approval' \in [target : Targets, commit : Commits] \cup {None}
    BY <1>22, <2>2 DEF ApprovalChanges
  <2> QED BY <1>0, <2>1, <2>3, <2>4 DEF Stores
<1>23. CASE ProofChanges BY <1>1, <1>23 DEF ProofChanges
<1>24. CASE Operators BY <1>10, <1>21, <1>22, <1>23, <1>24 DEF Operators
<1>25. ASSUME NEW d \in Deployers, (\E t \in Targets : Begin(d, t)) \/ Lock(d) \/ Recheck(d)
      PROVE  Stores'
  BY <1>1, <1>25 DEF Begin, Lock, Recheck
<1>26. ASSUME NEW d \in Deployers, Moves(d) PROVE Stores'
  BY <1>1, <1>8, <1>9, <1>11, <1>13, <1>26 DEF Moves, VerifyBackup, ApproveAgain, CheckOrder, Healthy, Served
<1>27. ASSUME NEW d \in Deployers, Stops(d) PROVE Stores'
  BY <1>1, <1>8, <1>9, <1>15, <1>16, <1>19, <1>20, <1>27 DEF Stops, ReceiptRefused
<1>28. ASSUME NEW d \in Deployers, Either(d) PROVE Stores'
  BY <1>1, <1>14, <1>28 DEF Either, Unhealthy, SwapFails
<1>29. CASE UNCHANGED dVars BY <1>1, <1>29 DEF dVars
<1> QED BY <1>12, <1>17, <1>24, <1>25, <1>26, <1>27, <1>28, <1>29, NextCases

-----------------------------------------------------------------------------
(* The theorems.                                                           *)

LEMMA InvInit == DInit => DTypes /\ DInv
<1> SUFFICES ASSUME DInit PROVE DTypes /\ DInv OBVIOUS
<1>1. /\ manifest \in Manifests /\ approval = None /\ releases = {} /\ asides = {}
      /\ backups = [b \in BackupNames |-> None] /\ kills = 0 /\ lock = None
      /\ proc = [d \in Deployers |-> Idle] /\ before = NothingBefore
  BY DEF DInit
<1>2. /\ files \in [Links -> [Commits -> {"absent", "torn", "good"}]]
      /\ link \in LinkMaps /\ running \in [Units -> Commit0] /\ webroot \in Commit0
      /\ receipt \in [Targets -> Commit0] /\ approved \in [Targets -> SUBSET Commits]
      /\ OnlyWholeArtifacts /\ ServesApproved
  <2>1. CASE Empty
    BY <2>1 DEF Empty, LinkMaps, Commit0, OnlyWholeArtifacts, ServesApproved, EverApproved
  <2>2. ASSUME NEW c \in Commits, NEW g \in Commits, Installed(c, g)
        PROVE  /\ files \in [Links -> [Commits -> {"absent", "torn", "good"}]]
               /\ link \in LinkMaps /\ running \in [Units -> Commit0] /\ webroot \in Commit0
               /\ receipt \in [Targets -> Commit0] /\ approved \in [Targets -> SUBSET Commits]
               /\ OnlyWholeArtifacts /\ ServesApproved
    <3>1. link = [n \in Links |-> IF n = "api" THEN c ELSE g]
          /\ running = [u \in Units |-> link[u]] /\ webroot = c
          /\ files = [n \in Links |-> [k \in Commits |-> IF k = link[n] THEN "good" ELSE "absent"]]
          /\ approved = [t \in Targets |-> IF t = "llm-gateway" THEN {g} ELSE {c}]
      BY <2>2 DEF Installed
    <3>2. receipt \in [Targets -> Commit0] BY <2>2 DEF Installed, Commit0
    <3>3. link \in [Links -> Commits] BY <3>1
    <3>4. \A u \in Units : u \in Links BY LinksFacts
    <3>5. OnlyWholeArtifacts BY <3>1, <3>3, <3>4 DEF OnlyWholeArtifacts
    <3>6. ServesApproved
      BY <3>1 DEF ServesApproved, EverApproved, UnitOf, Links, Targets
    <3> QED BY <3>1, <3>2, <3>3, <3>4, <3>5, <3>6 DEF LinkMaps, Commit0
  <2> QED BY <2>1, <2>2 DEF DInit
<1>3. DTypes
  <2>1. proc \in Procs BY <1>1, ProcUpdates DEF Procs
  <2>2. before \in [link : LinkMaps \cup {None}, webroot : Commit0]
    BY <1>1 DEF NothingBefore, Commit0
  <2> QED BY <1>1, <1>2, <2>1, <2>2 DEF DTypes, Commit0
<1>4. ApprovedState BY <1>1 DEF ApprovedState
<1>5. ASSUME NEW d \in Deployers PROVE ProcInv(d)
  <2>1. proc[d].pc = "idle" /\ lock # d BY <1>1 DEF Idle
  <2> QED BY <2>1 DEF ProcInv, ProcOf, WholeOf, ApprovedOf, LinksSince, WebrootSince, OrderOf,
                     At, Busy, InsideLock, Cleared, BinarySteps, ConsoleSteps
<1> QED BY <1>2, <1>3, <1>4, <1>5 DEF DInv

LEMMA InvNext == DTypes /\ DInv /\ [DNext]_dVars => DTypes' /\ DInv'
<1> SUFFICES ASSUME DTypes, DInv, [DNext]_dVars PROVE DTypes' /\ DInv' OBVIOUS
<1>1. Stores' /\ Sessions' BY StoresNext, SessionsNext
<1>2. DTypes' BY <1>1 DEF Stores, Sessions, DTypes
<1>3. Shared' BY SharedNext
<1>4. \A e \in Deployers : ProcInv(e)' BY ProcInvNext
<1> QED BY <1>2, <1>3, <1>4 DEF DInv, Shared

\* The inductive invariant holds in every reachable state.
THEOREM DeploymentInvariant == DSpec => [](DTypes /\ DInv)
BY InvInit, InvNext, PTL DEF DSpec

\* Types, and the lock: only its holder is past it.
THEOREM HolderIsInside == DSpec => []DTypeOK
<1>1. DTypes /\ DInv => DTypeOK
  BY DEF DTypes, DInv, ProcInv, ProcOf, DTypeOK, LinkMaps, Commit0
<1> QED BY <1>1, DeploymentInvariant, PTL

\* No link and no unit gets an artifact whose upload was cut off.
THEOREM ArtifactsAreWhole == DSpec => []OnlyWholeArtifacts
<1>1. DTypes /\ DInv => OnlyWholeArtifacts BY DEF DInv
<1> QED BY <1>1, DeploymentInvariant, PTL

\* The window of the one deployment that may be past the verifier.
WindowOf(d) ==
    Environment = "prod" =>
      /\ At(d, "verified") /\ approval = Artifact(d) => current
      /\ proc[d].pc \in Cleared => current

WindowInv == \A d \in Deployers : WindowOf(d)

LEMMA WindowNext ==
    ASSUME DTypes, DInv, WindowInv, [DNext]_dVars PROVE WindowInv'
<1> USE DEF WindowInv, WindowOf, At, Artifact, Target, Commit
<1>0. proc \in [Deployers -> ProcRec] BY DEF DTypes, Procs
<1>1. \A e \in Deployers : proc[e].pc \in InsideLock => lock = e
  BY DEF DInv, ProcInv, ProcOf
<1>2. ASSUME NEW d \in Deployers, UNCHANGED <<approval, current>>,
             \A e \in Deployers \ {d} : proc'[e] = proc[e],
             proc'[d].pc # "verified",
             proc'[d].pc \in Cleared => proc[d].pc \in Cleared \/ Environment # "prod"
      PROVE  WindowInv'
  BY <1>2
<1>3. CASE UNCHANGED <<approval, current, proc>> BY <1>3
<1>4. CASE ApprovalChanges
  <2>1. UNCHANGED <<proc, lock>> BY <1>4 DEF ApprovalChanges
  <2>2. current => current' BY <1>4 DEF ApprovalChanges
  <2>3. ASSUME NEW e \in Deployers, proc[e].pc = "verified", approval' = Artifact(e) PROVE current'
    <3>1. lock = e BY <1>1, <2>3 DEF InsideLock
    <3>2. approval' # None
      <4>1. Target(e) \in Targets /\ proc[e].cfg \in Manifests
        BY <2>3 DEF DInv, ProcInv, ProcOf, Busy
      <4>2. Artifact(e) \in [target : Targets, commit : Commits] BY <4>1
      <4> QED BY <2>3, <4>2
    <3>3. current' = (current \/ Awaits(approval')) BY <1>4, <3>2 DEF ApprovalChanges
    <3>4. Awaits(approval') BY <2>3, <3>1 DEF Awaits
    <3> QED BY <3>3, <3>4
  <2> QED BY <2>1, <2>2, <2>3
<1>5. ASSUME NEW d \in Deployers, VerifyBackup(d) PROVE WindowInv'
  <2>1. /\ proc[d].pc = "backup" /\ current' = (approval = Artifact(d)) /\ UNCHANGED <<approval, lock>>
        /\ Step(d, "verified")
    BY <1>5 DEF VerifyBackup
  <2>2. lock = d BY <1>1, <2>1 DEF InsideLock
  <2>3. \A e \in Deployers \ {d} : proc'[e] = proc[e] /\ proc[e].pc \notin InsideLock
    BY <1>1, <2>1, <2>2, Moved
  <2>4. proc'[d].pc = "verified" /\ proc'[d].target = proc[d].target /\ proc'[d].cfg = proc[d].cfg
    BY <2>1, Moved
  <2>5. \A e \in Deployers \ {d} : WindowOf(e)' BY <2>3 DEF InsideLock
  <2>6. Artifact(d)' = Artifact(d) BY <2>4
  <2>7. WindowOf(d)' BY <2>1, <2>4, <2>6 DEF Cleared
  <2> QED BY <2>5, <2>7
<1>6. ASSUME NEW d \in Deployers, ApproveAgain(d) PROVE WindowInv'
  <2>1. /\ proc[d].pc = "verified" /\ UNCHANGED <<approval, current>> /\ Step(d, "order")
        /\ Environment = "prod" => approval = Artifact(d)
    BY <1>6 DEF ApproveAgain, Approved, rules
  <2>2. Environment = "prod" => current BY <2>1
  <2> QED BY <2>1, <2>2, Moved
<1>7. ASSUME NEW d \in Deployers, Moves(d), ~VerifyBackup(d), ~ApproveAgain(d) PROVE WindowInv'
  <2>1. UNCHANGED <<approval, current>> /\ proc[d].pc \in Cleared
    BY <1>7 DEF Moves, CheckOrder, Select, SelectKeygen, Restart, Healthy, Rollback, RollbackKeygen,
       Stage, Swap, Served, SetLink, rules, At, Cleared
  <2>2. \E pc : pc # "verified" /\ Step(d, pc)
    BY <1>7 DEF Moves, CheckOrder, Select, SelectKeygen, Restart, Healthy, Rollback, RollbackKeygen,
       Stage, Swap, Served
  <2> QED BY <1>2, <2>1, <2>2, Moved
<1>8. ASSUME NEW d \in Deployers, Ends(d), UNCHANGED <<approval, current>> PROVE WindowInv'
  BY <1>2, <1>8, Ended DEF Cleared
<1>9. ASSUME NEW d \in Deployers, Stops(d) PROVE WindowInv'
  BY <1>8, <1>9 DEF Stops, SelectKeygenFails, RollbackRestart, Restore, WriteReceipt, ReceiptRefused,
     Refused, Killed, SetLink, rules
<1>10. ASSUME NEW d \in Deployers, Either(d) PROVE WindowInv'
  <2>1. UNCHANGED <<approval, current>> /\ proc[d].pc \in Cleared
        /\ (Ends(d) \/ Step(d, "rollback") \/ Step(d, "restore"))
    BY <1>10 DEF Either, Unhealthy, SwapFails, NotServed, rules, At, Cleared
  <2> QED BY <1>2, <1>8, <2>1, Moved
<1>11. ASSUME NEW d \in Deployers,
              \/ \E t \in Targets : Begin(d, t)
              \/ Lock(d) \/ Recheck(d) \/ BackUp(d) \/ \E n \in Links : Push(d, n)
       PROVE  WindowInv'
  <2>1. CASE \E t \in Targets : Begin(d, t)
    BY <1>0, <1>2, <2>1 DEF Begin, Cleared
  <2>2. CASE Lock(d) BY <1>2, <2>2, Moved DEF Lock, rules, Cleared
  <2>3. CASE Recheck(d) BY <1>0, <1>2, <2>3 DEF Recheck, rules, Cleared, ProcRec
  <2>4. CASE BackUp(d)
    <3>1. UNCHANGED <<approval, current>> /\ proc[d].pc \in Cleared BY <2>4 DEF BackUp, rules, Cleared
    <3>2. proc'[d].pc = "swap" /\ \A e \in Deployers \ {d} : proc'[e] = proc[e]
      BY <1>0, <2>4 DEF BackUp, ProcRec
    <3> QED BY <1>2, <3>1, <3>2
  <2>5. CASE \E n \in Links : Push(d, n) BY <1>3, <2>5 DEF Push, rules
  <2> QED BY <1>11, <2>1, <2>2, <2>3, <2>4, <2>5
<1>12. CASE Operators
  BY <1>3, <1>4, <1>12 DEF Operators, ManifestChanges, ProofChanges, ServiceChanges, rules
<1>13. CASE UNCHANGED dVars BY <1>3, <1>13 DEF dVars, rules
<1> HIDE DEF WindowInv
<1> QED BY <1>5, <1>6, <1>7, <1>9, <1>10, <1>11, <1>12, <1>13, NextCases

\* Production serves nothing that no approval window was ever open for, and no
\* deployment changes a guest unless its own window was open after the backup
\* verifier answered.
THEOREM ArtifactsAreApproved == DSpec => []OnlyApprovedArtifacts
<1>1. DInit => WindowInv
  <2> SUFFICES ASSUME DInit, NEW d \in Deployers PROVE WindowOf(d) BY DEF WindowInv
  <2>1. proc[d].pc = "idle" BY DEF DInit, Idle
  <2> QED BY <2>1 DEF WindowOf, At, Cleared
<1>2. DTypes /\ DInv /\ WindowInv => OnlyApprovedArtifacts
  BY DEF DInv, ServesApproved, WindowInv, WindowOf, OnlyApprovedArtifacts
<1>3. DTypes /\ DInv /\ WindowInv /\ [DNext]_dVars => WindowInv' BY WindowNext
<1> QED BY <1>1, <1>2, <1>3, DeploymentInvariant, PTL DEF DSpec

-----------------------------------------------------------------------------
(* What a step may do.                                                     *)

\* While a deployer is at "install", only its own Select moves a link.
LEMMA InstallerSelects ==
    ASSUME DTypes, DInv, DNext, NEW d \in Deployers, At(d, "install"), link' # link
    PROVE  Select(d)
<1>1. PICK e \in Deployers : Select(e) \/ SelectKeygen(e) \/ SelectKeygenFails(e) \/ Rollback(e)
                             \/ RollbackKeygen(e)
  <2> USE DEF guests, binaries, console
  <2>1. CASE Operators
    BY <2>1 DEF Operators, ManifestChanges, ApprovalChanges, ProofChanges, ServiceChanges
  <2>2. ASSUME NEW e \in Deployers,
               \/ \E t \in Targets : Begin(e, t)
               \/ Lock(e) \/ Recheck(e) \/ BackUp(e) \/ Either(e)
               \/ \E n \in Links : Push(e, n)
        PROVE  FALSE
    BY <2>2 DEF Begin, Lock, Recheck, BackUp, Either, Push, Unhealthy, SwapFails, NotServed
  <2>3. ASSUME NEW e \in Deployers, Moves(e)
        PROVE  Select(e) \/ SelectKeygen(e) \/ Rollback(e) \/ RollbackKeygen(e)
    BY <2>3 DEF Moves, VerifyBackup, ApproveAgain, CheckOrder, Restart, Healthy, Stage, Swap, Served
  <2>4. ASSUME NEW e \in Deployers, Stops(e) PROVE SelectKeygenFails(e)
    <3>1. ~(Refused(e) \/ Killed(e)) BY LeftoverGrows DEF Refused, Killed
    <3> QED BY <2>4, <3>1 DEF Stops, RollbackRestart, Restore, WriteReceipt, ReceiptRefused
  <2> QED BY <2>1, <2>2, <2>3, <2>4, NextCases
<1>2. lock = d /\ lock = e
  BY <1>1 DEF Select, SelectKeygen, SelectKeygenFails, Rollback, RollbackKeygen, At, DInv,
     ProcInv, ProcOf, InsideLock, Cleared
<1> QED BY <1>1, <1>2 DEF SelectKeygen, SelectKeygenFails, Rollback, RollbackKeygen, At

\* The gateway's link moves forward only onto the API and the console it was
\* checked against: no other deployment replaces them between check and move.
THEOREM GatewayFollows == DSpec => GatewayGoesLast
<1> DEFINE A == \A d \in Deployers :
                  (At(d, "install") /\ link'["llm-gateway"] # link["llm-gateway"])
                    => /\ link["api"] = proc[d].cfg["api"]
                       /\ webroot = proc[d].cfg["console"]
<1>1. DTypes /\ DInv /\ [DNext]_dVars => [A]_dVars
  <2> SUFFICES ASSUME DTypes, DInv, DNext, NEW d \in Deployers, At(d, "install"),
                      link'["llm-gateway"] # link["llm-gateway"]
               PROVE  link["api"] = proc[d].cfg["api"] /\ webroot = proc[d].cfg["console"]
    OBVIOUS
  <2>1. Select(d) BY InstallerSelects
  <2>2. link' = [link EXCEPT ![Target(d)] = Commit(d)] BY <2>1 DEF Select, SetLink
  <2>3. link \in [Links -> Commit0] /\ "llm-gateway" \in Links BY DEF DTypes, LinkMaps, Links
  <2>4. Target(d) = "llm-gateway" BY <2>2, <2>3
  <2> QED BY <2>4 DEF DInv, ProcInv, OrderOf
<1> QED BY <1>1, DeploymentInvariant, PTL DEF DSpec, GatewayGoesLast

\* A receipt names the artifact that is selected and that the process holds.
THEOREM ReceiptsAreTrue == DSpec => ReceiptIsTrue
<1> DEFINE A == \A t \in Units : receipt'[t] # receipt[t]
                  => link[t] = receipt'[t] /\ running[t] = receipt'[t]
<1>1. DTypes /\ DInv /\ [DNext]_dVars => [A]_dVars
  <2> SUFFICES ASSUME DTypes, DInv, DNext, NEW t \in Units, receipt'[t] # receipt[t]
               PROVE  link[t] = receipt'[t] /\ running[t] = receipt'[t]
    OBVIOUS
  <2>1. PICK d \in Deployers : WriteReceipt(d)
    <3>1. CASE Operators
      BY <3>1 DEF Operators, ManifestChanges, ApprovalChanges, ProofChanges, ServiceChanges
    <3>2. ASSUME NEW e \in Deployers,
                 \/ \E u \in Targets : Begin(e, u)
                 \/ Lock(e) \/ Recheck(e) \/ BackUp(e) \/ Either(e)
                 \/ \E n \in Links : Push(e, n)
          PROVE  FALSE
      BY <3>2 DEF Begin, Lock, Recheck, BackUp, Either, Push, Unhealthy, SwapFails, NotServed
    <3>3. ASSUME NEW e \in Deployers, Moves(e) PROVE FALSE
      BY <3>3 DEF Moves, VerifyBackup, ApproveAgain, CheckOrder, Select, SelectKeygen, Restart, Healthy,
         Rollback, RollbackKeygen, Stage, Swap, Served, SetLink
    <3>4. ASSUME NEW e \in Deployers, Stops(e) PROVE WriteReceipt(e)
      BY <3>4 DEF Stops, SelectKeygenFails, RollbackRestart, Restore, ReceiptRefused, Refused,
         Killed, SetLink
    <3> QED BY <3>1, <3>2, <3>3, <3>4, NextCases
  <2>2. receipt' = [receipt EXCEPT ![Target(d)] = Commit(d)] /\ At(d, "receipt")
        /\ (Target(d) \in Units => running[Target(d)] = link[Target(d)])
    BY <2>1 DEF WriteReceipt
  <2>3. receipt \in [Targets -> Commit0] /\ t \in Targets BY LinksFacts DEF DTypes
  <2>4. t = Target(d) /\ receipt'[t] = Commit(d) BY <2>2, <2>3
  <2>5. lock = d BY <2>2 DEF At, DInv, ProcInv, ProcOf, InsideLock, Cleared
  <2>6. link[Target(d)] = Commit(d) BY <2>2, <2>4, <2>5 DEF At, DInv, ProcInv, LinksSince
  <2> QED BY <2>2, <2>4, <2>6
<1> QED BY <1>1, DeploymentInvariant, PTL DEF DSpec, ReceiptIsTrue

\* The lock is given up only by its holder's end.
LEMMA OnlyEndsUnlock ==
    ASSUME DTypes, DInv, DNext, NEW d \in Deployers, lock = d, lock' # d
    PROVE  Stops(d) \/ (Either(d) /\ Ends(d))
<1>1. CASE Operators
  BY <1>1 DEF Operators, ManifestChanges, ApprovalChanges, ProofChanges, ServiceChanges
<1>2. ASSUME NEW e \in Deployers,
             (\E t \in Targets : Begin(e, t)) \/ (\E n \in Links : Push(e, n)) \/ Lock(e)
      PROVE  FALSE
  BY <1>2 DEF Begin, Push, Lock
<1>3. ASSUME NEW e \in Deployers, Moves(e) \/ Recheck(e) \/ BackUp(e) PROVE FALSE
  BY <1>3, HolderMoves
<1>4. ASSUME NEW e \in Deployers, Stops(e) PROVE e = d
  BY <1>4 DEF Stops, SelectKeygenFails, RollbackRestart, Restore, WriteReceipt, ReceiptRefused,
     Refused, Killed, Ends
<1>5. ASSUME NEW e \in Deployers, Either(e) PROVE e = d /\ Ends(e)
  BY <1>5 DEF Either, Unhealthy, SwapFails, NotServed, Ends
<1> QED BY <1>1, <1>2, <1>3, <1>4, <1>5, NextCases

\* An activation that fails by itself is undone: links and webroot are as they
\* were when the lock was taken.
THEOREM FailuresAreUndone == DSpec => FailedActivationIsUndone
<1> DEFINE A == \A d \in Deployers :
                  (lock = d /\ lock' # d /\ kills' = kills /\ ~At(d, "receipt")) => Undone(d)
<1>1. DTypes /\ DInv /\ [DNext]_dVars => [A]_dVars
  <2> SUFFICES ASSUME DTypes, DInv, [DNext]_dVars, NEW d \in Deployers, lock = d, lock' # d,
                      kills' = kills, ~At(d, "receipt")
               PROVE  Undone(d)
    OBVIOUS
  <2>0. DNext BY DEF dVars
  <2>1. /\ ProcOf(d) /\ LinksSince(d) /\ WebrootSince(d) /\ Busy(d)
        /\ proc[d].pc \in InsideLock /\ Target(d) \in Targets /\ before.link \in [Links -> Commit0]
    BY DEF DInv, ProcInv, ProcOf, LinksSince, LinkMaps, Busy, InsideLock, Cleared
  <2>2. link \in [Links -> Commit0] BY DEF DTypes, LinkMaps
  <2>3. ~Killed(d) BY DEF Killed, DTypes
  <2> USE DEF At, guests, binaries, console, rules
  <2>4. CASE SelectKeygenFails(d)
    <3>1. Target(d) = "llm-gateway" /\ proc[d].pc = "keygen"
      BY <2>1, <2>4 DEF SelectKeygenFails, ProcOf
    <3>2. link' = [link EXCEPT !["llm-gateway"] =
                     IF proc[d].previous["llm-gateway"] = None THEN Commit(d)
                     ELSE proc[d].previous["llm-gateway"]]
      BY <2>4 DEF SelectKeygenFails, SetLink
    <3>3. /\ proc[d].previous["llm-gateway"] = before.link["llm-gateway"]
          /\ link["llm-keygen"] = before.link["llm-keygen"]
          /\ link["api"] = before.link["api"]
      BY <2>1, <3>1, LinksFacts DEF LinksSince, Links
    <3>4. before.link["llm-gateway"] # None => link' = before.link
      BY <2>1, <2>2, <3>2, <3>3 DEF Links
    <3> QED BY <3>1, <3>4, LinksFacts DEF Undone
  <2>5. CASE RollbackRestart(d)
    <3>1. proc[d].pc = "rollback_restart" /\ link' = link /\ Target(d) \in Units
      BY <2>1, <2>5 DEF RollbackRestart, ProcOf, BinarySteps
    <3>2. /\ link[Target(d)] = before.link[Target(d)]
          /\ \A n \in Links \ LinksOf(Target(d)) : link[n] = before.link[n]
          /\ Target(d) = "llm-gateway" => before.link["llm-keygen"] \in {None, link["llm-keygen"]}
      BY <2>1, <3>1 DEF LinksSince
    <3>3. (\A n \in LinksOf(Target(d)) : before.link[n] # None) =>
             \A n \in Links : link[n] = before.link[n]
      BY <3>1, <3>2, LinksFacts DEF Units, Links
    <3>4. (\A n \in LinksOf(Target(d)) : before.link[n] # None) => link' = before.link
      BY <2>1, <2>2, <3>1, <3>3
    <3>5. Target(d) # "console" BY <3>1 DEF Units
    <3> QED BY <3>4, <3>5 DEF Undone
  <2>6. CASE Restore(d)
    <3>1. proc[d].pc = "restore" /\ webroot' = backups[proc[d].kept] /\ Target(d) = "console"
      BY <2>1, <2>6 DEF Restore, ProcOf, ConsoleSteps
    <3>2. webroot' = before.webroot BY <2>1, <3>1 DEF WebrootSince
    <3> QED BY <3>1, <3>2 DEF Undone
  <2>7. CASE Refused(d)
    <3>1. proc[d].pc \in {"locked", "backup", "verified", "order", "install", "stage", "set_aside"}
      BY <2>1, <2>7 DEF Refused, InsideLock, Cleared
    <3>2. link = before.link /\ webroot = before.webroot
      BY <2>1, <3>1 DEF LinksSince, WebrootSince, ConsoleSteps
    <3>3. UNCHANGED <<link, webroot>> BY <2>7, LeftoverGrows DEF Refused
    <3> QED BY <3>2, <3>3 DEF Undone
  <2>8. CASE Either(d) /\ Ends(d)
    <3>1. CASE Unhealthy(d)
      <4>1. ~GoesBack(d) /\ proc[d].pc = "health"
        BY <3>1 DEF Unhealthy
      <4>2. Target(d) \in Units BY <2>1, <4>1 DEF ProcOf, BinarySteps
      <4>3. Target(d) \in LinksOf(Target(d)) /\ Target(d) # "console"
        BY <4>2, LinksFacts DEF Units
      <4>4. proc[d].previous[Target(d)] = before.link[Target(d)]
        BY <2>1, <4>1, <4>3 DEF LinksSince
      <4> QED BY <4>1, <4>3, <4>4 DEF Undone, GoesBack
    <3>2. CASE SwapFails(d) \/ NotServed(d)
      <4>1. proc[d].pc \in {"swap", "serve"} /\ ~Old(d)
        BY <3>2 DEF SwapFails, NotServed
      <4>2. Target(d) = "console" /\ before.webroot = None
        BY <2>1, <4>1 DEF ProcOf, ConsoleSteps, WebrootSince
      <4> QED BY <4>2 DEF Undone
    <3> QED BY <2>8, <3>1, <3>2 DEF Either
  <2>9. ~WriteReceipt(d) /\ ~ReceiptRefused(d) BY DEF WriteReceipt, ReceiptRefused
  <2> QED BY <2>0, <2>3, <2>4, <2>5, <2>6, <2>7, <2>8, <2>9, OnlyEndsUnlock DEF Stops
<1> QED BY <1>1, DeploymentInvariant, PTL DEF DSpec, FailedActivationIsUndone

=============================================================================
