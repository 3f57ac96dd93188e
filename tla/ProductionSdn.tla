--------------------------- MODULE ProductionSdn ---------------------------
(***************************************************************************)
(* scripts/production-sdn.py: creating and removing the cluster's SDN zone *)
(* and VNets on the initial gateway host, and the gateway ownership record *)
(* that the nodes' reconcile reads (ProductionNetwork).                    *)
(*                                                                         *)
(* One run of the program is one process: it checks the cluster, takes the *)
(* SDN lock, checks again, claims the ownership record, stages the edits,  *)
(* submits the apply task, waits for the reloads and settles the record.   *)
(* The zone and its two VNets are one object here: they are staged, applied *)
(* and rolled back together.  PVE itself (the lock, the pending edits, the *)
(* apply task) is external and modelled from how the program uses it.      *)
(***************************************************************************)
EXTENDS Naturals

CONSTANTS
    Nodes,          \* the two nodes of the configuration
    InitialOwner,   \* config["gateway_owner"]
    NoOwner,        \* the ownership record does not exist
    MaxSdnRuns      \* bound: runs of the program

ASSUME SdnAssumption ==
    InitialOwner \in Nodes /\ NoOwner \notin Nodes /\ MaxSdnRuns \in Nat

VARIABLES
    owner,      \* OWNER_FILE: a node, or NoOwner
    staged,     \* the zone is in the SDN configuration, pending edits included
    running,    \* the zone is in the running SDN configuration
    reload,     \* the networking reload of an apply task: "none" or "running"
    sdnLock,    \* somebody holds the SDN lock
    sdnRun,     \* the program: [pc, remove, claimed, submitted]
    sdnRuns,    \* runs started, for the bound
    vms         \* the nodes that have guests

sdnVars == <<owner, staged, running, reload, sdnLock, sdnRun, sdnRuns>>

SdnIdle == [pc |-> "idle", remove |-> FALSE, claimed |-> FALSE, submitted |-> FALSE]

SdnInit ==
    /\ owner = NoOwner
    /\ staged = FALSE /\ running = FALSE /\ reload = "none" /\ sdnLock = FALSE
    /\ sdnRun = SdnIdle /\ sdnRuns = 0

-----------------------------------------------------------------------------
\* check_cluster: no guests; the inventory holds nothing but the owned zone.
CheckCluster == vms = {}

\* The record that is there must be the one this program writes.
OwnerUnmoved == owner \in {NoOwner, InitialOwner}

\* main up to the lock.  PVE hands the lock out only without pending edits.
SdnStart(remove) ==
    /\ sdnRun.pc = "idle" /\ sdnRuns < MaxSdnRuns
    /\ CheckCluster /\ OwnerUnmoved /\ (remove => owner # NoOwner)
    /\ ~sdnLock /\ staged = running
    /\ sdnLock' = TRUE /\ sdnRuns' = sdnRuns + 1
    /\ sdnRun' = [SdnIdle EXCEPT !.pc = "locked", !.remove = remove]
    /\ UNCHANGED <<owner, staged, running, reload>>

\* Check again under the lock and claim the record before any edit.
SdnClaim ==
    /\ sdnRun.pc = "locked" /\ CheckCluster
    /\ LET claims == ~sdnRun.remove /\ owner = NoOwner IN
       /\ owner' = IF claims THEN InitialOwner ELSE owner
       /\ sdnRun' = [sdnRun EXCEPT !.pc = "claimed", !.claimed = claims]
    /\ UNCHANGED <<staged, running, reload, sdnLock, sdnRuns>>

\* Create or delete the pending objects that are missing or left.
SdnStage ==
    /\ sdnRun.pc = "claimed"
    /\ staged' = ~sdnRun.remove
    /\ sdnRun' = [sdnRun EXCEPT !.pc = "staged"]
    /\ UNCHANGED <<owner, running, reload, sdnLock, sdnRuns>>

\* MUTANT of SdnBaseline: the submission is noted only once it has returned.
SdnBaselineNotesLate ==
    /\ sdnRun.pc = "staged" /\ reload = "none"
    /\ sdnRun' = [sdnRun EXCEPT !.pc = "submitting"]
    /\ UNCHANGED <<owner, staged, running, reload, sdnLock, sdnRuns>>

\* No reload may run around the baseline; from here on the outcome of the
\* submission is unknown until it is observed.
SdnBaseline ==
    /\ sdnRun.pc = "staged" /\ reload = "none"
    /\ sdnRun' = [sdnRun EXCEPT !.pc = "submitting", !.submitted = TRUE]
    /\ UNCHANGED <<owner, staged, running, reload, sdnLock, sdnRuns>>

\* submit_sdn_apply: PVE takes the edits and reloads every node.  The answer
\* may be lost all the same, and then the program goes on to its handler.
SdnSubmit(answered) ==
    /\ sdnRun.pc = "submitting"
    /\ running' = staged /\ reload' = "running"
    /\ sdnRun' = [sdnRun EXCEPT !.pc = IF answered THEN "waiting" ELSE "failed"]
    /\ UNCHANGED <<owner, staged, sdnLock, sdnRuns>>

\* External: the reload tasks of the nodes end.
ReloadEnds ==
    /\ reload = "running" /\ reload' = "none"
    /\ UNCHANGED <<owner, staged, running, sdnLock, sdnRun, sdnRuns>>

\* wait_apply saw the parent and one fresh child per node end well: settle the
\* record.  The lock is released in the finally clause.
SdnSettle ==
    /\ sdnRun.pc = "waiting" /\ reload = "none"
    /\ owner' = IF sdnRun.remove THEN NoOwner ELSE InitialOwner
    /\ sdnLock' = FALSE /\ sdnRun' = SdnIdle
    /\ UNCHANGED <<staged, running, reload, sdnRuns>>

\* Any step may raise: a check, a PVE call, a refused submission, a failed or
\* late reload.
SdnRaise ==
    /\ sdnRun.pc \in {"locked", "claimed", "staged", "submitting", "waiting"}
    /\ sdnRun' = [sdnRun EXCEPT !.pc = "failed"]
    /\ UNCHANGED <<owner, staged, running, reload, sdnLock, sdnRuns>>

\* The handler: before the submission the edits are rolled back, and then the
\* claim; when that call fails too, the record is left.  The lock goes last.
SdnHandle(rolledBack) ==
    /\ sdnRun.pc = "failed"
    /\ LET undo == ~sdnRun.submitted /\ rolledBack IN
       /\ staged' = IF undo THEN running ELSE staged
       /\ owner' = IF undo /\ sdnRun.claimed THEN NoOwner ELSE owner
    /\ sdnLock' = FALSE /\ sdnRun' = SdnIdle
    /\ UNCHANGED <<running, reload, sdnRuns>>

\* The process is killed: nothing is undone and the lock stays taken.
SdnKilled ==
    /\ sdnRun.pc # "idle" /\ sdnRun' = SdnIdle
    /\ UNCHANGED <<owner, staged, running, reload, sdnLock, sdnRuns>>

SdnNext ==
    /\ \/ \E b \in BOOLEAN : SdnStart(b) \/ SdnSubmit(b) \/ SdnHandle(b)
       \/ SdnClaim \/ SdnStage \/ SdnBaseline \/ SdnSettle
       \/ SdnRaise \/ SdnKilled \/ ReloadEnds
    /\ UNCHANGED vms

SdnSpec == SdnInit /\ [][SdnNext]_<<sdnVars, vms>>

-----------------------------------------------------------------------------
(* A zone the cluster runs, and a reload that may still be carrying a      *)
(* change of it out, has its ownership record: a failed or half-known run  *)
(* of production-sdn.py never leaves an SDN network nobody owns, which no  *)
(* later run would be allowed to remove.                                   *)
OwnerRecordCovers == running \/ reload = "running" => owner # NoOwner
=============================================================================
