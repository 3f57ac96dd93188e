------------------------- MODULE ProductionNetwork -------------------------
(***************************************************************************)
(* scripts/production-network.py: the guards and the manually owned        *)
(* gateway of the two-node production network, and the controller's        *)
(* receipts (scripts/verify-production-network.py).                        *)
(*                                                                         *)
(* Every changing mode takes one lock per node before it reads state.json, *)
(* so a node runs at most one of them: proc[n] is that process and `pc' is *)
(* the last thing it did.  It may end at any point, by an exception or a   *)
(* kill; what it did stays.  The rollback timer is a transient systemd     *)
(* unit: it starts a rollback that waits for the lock, and a reboot loses  *)
(* it.  The SDN zone and the ownership record come and go as ProductionSdn *)
(* shows its program leaves them.                                          *)
(*                                                                         *)
(* Left out: what the read-only checks compare (StartupReadiness models    *)
(* them; here a check passes or the process ends) and the order of the     *)
(* legacy hooks, which the priority guard does not depend on.              *)
(***************************************************************************)
EXTENDS Naturals, Functions

CONSTANTS
    Nodes,          \* the two nodes of the configuration
    InitialOwner,   \* config["gateway_owner"]
    NoOwner,        \* the ownership record does not exist
    MaxOps,         \* bound: installations started, on all nodes
    MaxBoots,       \* bound: reboots, of all nodes
    MaxFaults,      \* bound: processes that fail or die, on all nodes
    MaxMoves        \* bound: manual moves of the gateway

ASSUME NetworkAssumption ==
    /\ InitialOwner \in Nodes /\ NoOwner \notin Nodes
    /\ MaxOps \in Nat /\ MaxBoots \in Nat /\ MaxFaults \in Nat /\ MaxMoves \in Nat

VARIABLES
    owner,      \* the ownership record: a node, or NoOwner
    running,    \* the zone is applied: the VNets exist on the nodes
    vms,        \* the nodes that have guests
    state,      \* state.json of a node
    disk,       \* installed files: [runtime, unit]
    host,       \* what the kernel runs: chains, guards, address, forwarding
    timer,      \* the rollback timer: 0, or the operation it is armed for
    service,    \* a rollback started by the timer: 0, or its operation
    proc,       \* the process that holds the node's lock
    proof,      \* the controller's receipts: for each node 0 or an operation
    guestUnit,  \* pve-guests.service in this boot
    guests,     \* on-boot guests of the node are running
    starts,     \* times startall ran in this boot
    fenced,     \* the node an operator has fenced, or NoOwner
    ops, boots, faults, moves   \* counters; boots names a node's boots

nodeVars == <<state, disk, host, timer, service, proc>>
guestVars == <<guestUnit, guests, starts>>
netVars == <<nodeVars, proof, guestVars, fenced, ops, boots, faults, moves>>
sdnVars == <<owner, running>>
vars == <<sdnVars, vms, netVars>>

-----------------------------------------------------------------------------
\* State.  `boot' is the boot of the node in which the operation was prepared;
\* `recovery' is the guest_start_recovery record with the boot it names.
NoState == [phase |-> "none", pending |-> FALSE, op |-> 0, boot |-> 0,
            recovery |-> "none", at |-> 0]

Baseline == [chains |-> "none", guard |-> "none", l2 |-> FALSE, gateway |-> FALSE,
             forward |-> FALSE, bridgeNf |-> FALSE, mtu |-> "old"]

Idle == [mode |-> "idle", pc |-> "idle", active |-> FALSE]

NetInit ==
    /\ owner = NoOwner /\ running = FALSE /\ vms = {}
    /\ state = [n \in Nodes |-> NoState]
    /\ disk = [n \in Nodes |-> [runtime |-> FALSE, unit |-> FALSE]]
    /\ host = [n \in Nodes |-> Baseline]
    /\ timer = [n \in Nodes |-> 0] /\ service = [n \in Nodes |-> 0]
    /\ proc = [n \in Nodes |-> Idle]
    /\ proof = [n \in Nodes |-> 0]
    /\ guestUnit = [n \in Nodes |-> "started"]
    /\ guests = [n \in Nodes |-> FALSE] /\ starts = [n \in Nodes |-> 0]
    /\ fenced = NoOwner /\ ops = 0 /\ boots = [n \in Nodes |-> 0] /\ faults = 0 /\ moves = 0

Committed(n) == state[n].phase = "active" /\ ~state[n].pending
Role(n) == IF proc[n].active THEN "active" ELSE "standby"
\* MUTANT of IsOwner: a node keeps the role its rules were installed for.
IsOwnerCached(n) == owner = n \/ host[n].guard = "active"

\* json.loads(OWNER.read_text())["owner"] == node.
IsOwner(n) == owner = n

At(n, mode, pc) == proc[n].mode = mode /\ proc[n].pc = pc
Goto(n, pc) == proc' = [proc EXCEPT ![n].pc = pc]
Enter(n, mode, pc) == proc' = [proc EXCEPT ![n] = [Idle EXCEPT !.mode = mode, !.pc = pc]]
Leave(n) == proc' = [proc EXCEPT ![n] = Idle]
Unlocked(n) == proc[n].mode = "idle" /\ fenced # n
KeepRest == UNCHANGED <<sdnVars, vms, proof, guestVars, fenced, ops, boots, faults, moves>>

-----------------------------------------------------------------------------
\* prepare.

\* The node must be free of an earlier installation; the runtime goes first.
Prepare(n) ==
    /\ Unlocked(n) /\ ops < MaxOps
    /\ state[n].phase \in {"none", "rolled_back"}
    /\ ~disk[n].runtime /\ ~disk[n].unit /\ vms = {}
    /\ host[n] = [Baseline EXCEPT !.bridgeNf = host[n].bridgeNf]
    /\ Enter(n, "prepare", "installed") /\ ops' = ops + 1
    /\ disk' = [disk EXCEPT ![n].runtime = TRUE]
    /\ UNCHANGED <<sdnVars, vms, state, host, timer, service, proof, guestVars,
                   fenced, boots, faults, moves>>

\* The state is on disk before anything that a rollback would have to undo.
PrepareSave(n) ==
    /\ At(n, "prepare", "installed") /\ Goto(n, "saved")
    /\ state' = [state EXCEPT ![n] = [NoState EXCEPT !.phase = "preparing",
                    !.pending = TRUE, !.op = state[n].op + 1, !.boot = boots[n]]]
    /\ UNCHANGED <<disk, host, timer, service>> /\ KeepRest

\* The test timer ran the interpreter; then the rollback timer is armed.
ArmTimer(n) ==
    /\ At(n, "prepare", "saved") /\ Goto(n, "armed")
    /\ timer' = [timer EXCEPT ![n] = state[n].op]
    /\ UNCHANGED <<state, disk, host, service>> /\ KeepRest

\* Standby chains and guard while NetBird still has its old MTU.
PrepareGuards(n) ==
    /\ At(n, "prepare", "armed") /\ Goto(n, "guarded")
    /\ host' = [host EXCEPT ![n].chains = "standby", ![n].guard = "standby"]
    /\ UNCHANGED <<state, disk, timer, service>> /\ KeepRest

\* set_mesh_mtu restarts NetBird, which may turn forwarding on.
SetMeshMtu(n, mtu, forward) ==
    host' = [host EXCEPT ![n].mtu = mtu, ![n].forward = forward \/ host[n].forward]

PrepareMtu(n, forward) ==
    /\ At(n, "prepare", "guarded") /\ Goto(n, "mtu")
    /\ SetMeshMtu(n, "new", forward)
    /\ UNCHANGED <<state, disk, timer, service>> /\ KeepRest

\* wait_for_accept_mark, the chains again, and the assertion that nothing
\* forwards.
PrepareEnd(n) ==
    /\ At(n, "prepare", "mtu") /\ ~host[n].forward /\ Leave(n)
    /\ host' = [host EXCEPT ![n].chains = "standby"]
    /\ state' = [state EXCEPT ![n].phase = "prepared"]
    /\ UNCHANGED <<disk, timer, service>> /\ KeepRest

-----------------------------------------------------------------------------
\* activate and reconcile.

\* The timer is active while it waits and while its service runs.
TimerActive(n) == timer[n] # 0 \/ service[n] # 0

Activate(n) ==
    /\ Unlocked(n) /\ state[n].phase \in {"prepared", "active"}
    /\ state[n].pending /\ TimerActive(n) /\ vms = {}
    /\ Enter(n, "activate", "checked")
    /\ UNCHANGED <<state, disk, host, timer, service>> /\ KeepRest

\* `reconcile --apply' typed by the operator asks only for the phase.
Reconcile(n) ==
    /\ Unlocked(n) /\ state[n].phase \in {"prepared", "active"}
    /\ Enter(n, "reconcile", "checked")
    /\ UNCHANGED <<state, disk, host, timer, service>> /\ KeepRest

\* The unit's reconcile, at boot or after a failure, waits for readiness; the
\* wait changes nothing and passes nothing on.  On a node whose guests were
\* released, a restart by the if-up hook takes the steps of Reconcile.
BootReconcile(n) ==
    /\ Unlocked(n) /\ disk[n].unit /\ Committed(n) /\ guestUnit[n] # "started"
    /\ Enter(n, "boot", "checked")
    /\ UNCHANGED <<state, disk, host, timer, service>> /\ KeepRest

Reconciling(n, pc) == \E m \in {"activate", "reconcile", "boot"} : At(n, m, pc)

\* reconcile_readiness reads the owner and needs the VNets of the zone.
Readiness(n) ==
    /\ Reconciling(n, "checked") /\ owner # NoOwner /\ running
    /\ proc' = [proc EXCEPT ![n].pc = "ready", ![n].active = IsOwner(n)]
    /\ UNCHANGED <<state, disk, host, timer, service>> /\ KeepRest

\* install_chains, install_priority_guard and install_l2_guard, each an atomic
\* replacement, before any routing is enabled.
InstallGuards(n) ==
    /\ Reconciling(n, "ready") /\ Goto(n, "guards")
    /\ host' = [host EXCEPT ![n].chains = Role(n), ![n].guard = Role(n), ![n].l2 = TRUE]
    /\ UNCHANGED <<state, disk, timer, service>> /\ KeepRest

\* The gateway addresses come or go, then the sysctls, forwarding last.
SetAddresses(n) ==
    /\ Reconciling(n, "guards") /\ Goto(n, "addresses")
    /\ host' = [host EXCEPT ![n].gateway = proc[n].active]
    /\ UNCHANGED <<state, disk, timer, service>> /\ KeepRest

SetForwarding(n) ==
    /\ Reconciling(n, "addresses") /\ Goto(n, "reconciled")
    /\ host' = [host EXCEPT ![n].bridgeNf = TRUE, ![n].forward = proc[n].active]
    /\ UNCHANGED <<state, disk, timer, service>> /\ KeepRest

InstallBootUnit(n) ==
    /\ At(n, "activate", "reconciled") /\ Goto(n, "unit")
    /\ disk' = [disk EXCEPT ![n].unit = TRUE]
    /\ UNCHANGED <<state, host, timer, service>> /\ KeepRest

\* A unit that ends well releases the guests that wait for it.
ReconcileEnd(n) ==
    /\ \/ At(n, "activate", "unit")
       \/ \E m \in {"reconcile", "boot"} : At(n, m, "reconciled")
    /\ Leave(n) /\ state' = [state EXCEPT ![n].phase = "active"]
    /\ guestUnit' = [guestUnit EXCEPT ![n] =
                        IF proc[n].mode = "boot" /\ @ = "waiting" THEN "released" ELSE @]
    /\ UNCHANGED <<sdnVars, vms, disk, host, timer, service, proof, guests, starts,
                   fenced, ops, boots, faults, moves>>

-----------------------------------------------------------------------------
\* verify-production-network and commit.

\* Both nodes answer and both are active before either receipt is written.  A
\* receipt is good for 180 seconds; here it may always still be fresh.
Verify ==
    /\ \A n \in Nodes : state[n].phase = "active"
    /\ \E n \in Nodes : state[n].pending
    /\ proof' = [n \in Nodes |-> state[n].op]
    /\ UNCHANGED <<sdnVars, vms, nodeVars, guestVars, fenced, ops, boots, faults, moves>>

\* validate_current: the node runs exactly the role the record gives it.
ValidateCurrent(n) ==
    /\ owner # NoOwner /\ running
    /\ LET role == IF IsOwner(n) THEN "active" ELSE "standby" IN
       /\ host[n].chains = role /\ host[n].guard = role /\ host[n].l2
    /\ host[n].bridgeNf /\ host[n].gateway = IsOwner(n) /\ host[n].forward = IsOwner(n)

Commit(n) ==
    /\ Unlocked(n) /\ state[n].phase = "active" /\ proof[n] = state[n].op
    /\ ValidateCurrent(n) /\ Enter(n, "commit", "validated")
    /\ UNCHANGED <<state, disk, host, timer, service>> /\ KeepRest

\* MUTANT of CommitStopsTimer: a collected timer is accepted, as in rollback.
CommitStopsAnyTimer(n) ==
    /\ At(n, "commit", "validated") /\ proof[n] = state[n].op
    /\ Goto(n, "disarmed")
    /\ timer' = [timer EXCEPT ![n] = 0]
    /\ UNCHANGED <<state, disk, host, service>> /\ KeepRest

\* Stopping a timer that is gone fails, unlike in the rollback; a rollback
\* the timer has started already goes on waiting for the lock.
CommitStopsTimer(n) ==
    /\ At(n, "commit", "validated") /\ proof[n] = state[n].op
    /\ TimerActive(n) /\ Goto(n, "disarmed")
    /\ timer' = [timer EXCEPT ![n] = 0]
    /\ UNCHANGED <<state, disk, host, service>> /\ KeepRest

CommitSave(n) ==
    /\ At(n, "commit", "disarmed") /\ Leave(n)
    /\ state' = [state EXCEPT ![n].pending = FALSE]
    /\ UNCHANGED <<disk, host, timer, service>> /\ KeepRest

-----------------------------------------------------------------------------
\* rollback, by the timer's service or by the operator.

\* The timer elapses: its service waits for the lock.
TimerFires(n) ==
    /\ timer[n] # 0
    /\ service' = [service EXCEPT ![n] = timer[n]]
    /\ timer' = [timer EXCEPT ![n] = 0]
    /\ UNCHANGED <<state, disk, host, proc>> /\ KeepRest

\* MUTANT of MayRollback: whatever the state says, the timer's word is taken.
MayRollbackAlways(n, op) == state[n].op = op

\* Under the lock: the operation is the one asked for, and it is not committed.
MayRollback(n, op) == state[n].op = op /\ state[n].pending

Rollback(n) ==
    /\ Unlocked(n) /\ state[n].phase # "none" /\ MayRollback(n, state[n].op)
    /\ Enter(n, "rollback", "begun")
    /\ state' = [state EXCEPT ![n].phase = "rolling_back"]
    /\ UNCHANGED <<disk, host, timer, service>> /\ KeepRest

\* The service runs the installed wrapper; refused, it just ends.
ServiceRuns(n) ==
    /\ Unlocked(n) /\ service[n] # 0
    /\ service' = [service EXCEPT ![n] = 0]
    /\ LET runs == disk[n].runtime /\ MayRollback(n, service[n]) IN
       /\ proc' = IF runs THEN [proc EXCEPT ![n] = [Idle EXCEPT !.mode = "rollback", !.pc = "begun"]]
                          ELSE proc
       /\ state' = IF runs THEN [state EXCEPT ![n].phase = "rolling_back"] ELSE state
    /\ UNCHANGED <<disk, host, timer>> /\ KeepRest

\* MUTANT of RollbackGateway: the gateway addresses stay.
RollbackRoutingOnly(n) ==
    /\ At(n, "rollback", "begun") /\ Goto(n, "down")
    /\ host' = [host EXCEPT ![n].forward = FALSE]
    /\ UNCHANGED <<state, disk, timer, service>> /\ KeepRest

\* The unit is disabled, routing and the gateway addresses go down.
RollbackGateway(n) ==
    /\ At(n, "rollback", "begun") /\ Goto(n, "down")
    /\ host' = [host EXCEPT ![n].forward = FALSE, ![n].gateway = FALSE]
    /\ UNCHANGED <<state, disk, timer, service>> /\ KeepRest

\* NetBird restarts with the old MTU while the guards are still there.
RollbackMtu(n, forward) ==
    /\ At(n, "rollback", "down") /\ Goto(n, "mtu")
    /\ SetMeshMtu(n, "old", forward)
    /\ UNCHANGED <<state, disk, timer, service>> /\ KeepRest

\* MUTANT of RollbackForwarding: the second pair of sysctls is left out.
RollbackForwardingOnce(n) ==
    /\ At(n, "rollback", "mtu") /\ Goto(n, "quiet")
    /\ UNCHANGED <<host, state, disk, timer, service>> /\ KeepRest

\* Forwarding is turned off a second time, after NetBird.
RollbackForwarding(n) ==
    /\ At(n, "rollback", "mtu") /\ Goto(n, "quiet")
    /\ host' = [host EXCEPT ![n].forward = FALSE]
    /\ UNCHANGED <<state, disk, timer, service>> /\ KeepRest

\* clear_chains, then bridge-nf (only without guests) and the files of the
\* unit, its hook and the guests' dependency.
RollbackClear(n) ==
    /\ At(n, "rollback", "quiet") /\ Goto(n, "cleared")
    /\ host' = [host EXCEPT ![n].chains = "none", ![n].guard = "none", ![n].l2 = FALSE,
                            ![n].bridgeNf = IF vms = {} THEN FALSE ELSE @]
    /\ disk' = [disk EXCEPT ![n].unit = FALSE]
    /\ UNCHANGED <<state, timer, service>> /\ KeepRest

\* finish_successful_rollback: only now is the timer stopped.
RollbackDisarm(n) ==
    /\ At(n, "rollback", "cleared") /\ Goto(n, "disarmed")
    /\ timer' = [timer EXCEPT ![n] = 0]
    /\ UNCHANGED <<state, disk, host, service>> /\ KeepRest

RollbackSave(n) ==
    /\ At(n, "rollback", "disarmed") /\ Goto(n, "saved")
    /\ state' = [state EXCEPT ![n].phase = "rolled_back", ![n].pending = FALSE]
    /\ UNCHANGED <<disk, host, timer, service>> /\ KeepRest

RollbackEnd(n) ==
    /\ At(n, "rollback", "saved") /\ Leave(n)
    /\ disk' = [disk EXCEPT ![n].runtime = FALSE]
    /\ UNCHANGED <<state, host, timer, service>> /\ KeepRest

-----------------------------------------------------------------------------
\* start-guests.

\* MUTANT of RecoveryAllowed: an unknown outcome may be tried again.
RecoveryAllowedUnknown(n) == state[n].recovery = "COMPLETED" => state[n].at # boots[n]

\* A record of an earlier start must be complete, and of another boot.
RecoveryAllowed(n) ==
    /\ state[n].recovery \in {"none", "COMPLETED"}
    /\ state[n].recovery = "COMPLETED" => state[n].at # boots[n]

StartGuests(n) ==
    /\ Unlocked(n) /\ Committed(n) /\ RecoveryAllowed(n) /\ ValidateCurrent(n)
    /\ Enter(n, "guests", "delay")
    /\ UNCHANGED <<state, disk, host, timer, service>> /\ KeepRest

\* After the vendor delay everything is read again; STARTING is on disk before
\* the call.
RecordStarting(n) ==
    /\ At(n, "guests", "delay") /\ ValidateCurrent(n) /\ guestUnit[n] = "skipped"
    /\ Goto(n, "starting")
    /\ state' = [state EXCEPT ![n].recovery = "STARTING", ![n].at = boots[n]]
    /\ UNCHANGED <<disk, host, timer, service>> /\ KeepRest

\* startall runs; its answer is an error or a timeout, or it succeeds.
StartAll(n, answered) ==
    /\ At(n, "guests", "starting")
    /\ Goto(n, IF answered THEN "answered" ELSE "unknown")
    /\ guests' = [guests EXCEPT ![n] = n \in vms]
    /\ starts' = [starts EXCEPT ![n] = @ + 1]
    /\ UNCHANGED <<sdnVars, vms, state, disk, host, timer, service, proof, guestUnit,
                   fenced, ops, boots, faults, moves>>

RecordOutcome(n) ==
    /\ At(n, "guests", "answered") \/ At(n, "guests", "unknown")
    /\ Leave(n)
    /\ state' = [state EXCEPT ![n].recovery =
                    IF proc[n].pc = "answered" THEN "COMPLETED" ELSE "UNKNOWN"]
    /\ UNCHANGED <<disk, host, timer, service>> /\ KeepRest

-----------------------------------------------------------------------------
\* Failures, reboots and the operator.

\* An exception or a kill: the lock is free, everything done stays.  The first
\* failure of the unit in a boot makes systemd skip pve-guests.
Fails(n) ==
    /\ proc[n].mode # "idle" /\ Leave(n)
    /\ faults < MaxFaults /\ faults' = faults + 1
    /\ guestUnit' = [guestUnit EXCEPT ![n] =
                        IF proc[n].mode = "boot" /\ @ = "waiting" THEN "skipped" ELSE @]
    /\ UNCHANGED <<sdnVars, vms, state, disk, host, timer, service, proof, guests,
                   starts, fenced, ops, boots, moves>>

\* MUTANT of StartupWaitEnds: the guests want the unit, they do not require it.
StartupWaitEndsWanted(n) ==
    /\ At(n, "boot", "checked") /\ Leave(n)
    /\ guestUnit' = [guestUnit EXCEPT ![n] = IF @ = "waiting" THEN "released" ELSE @]
    /\ UNCHANGED <<sdnVars, vms, state, disk, host, timer, service, proof, guests,
                   starts, fenced, ops, boots, faults, moves>>

\* The bounded wait of the unit ends without the prerequisites.
StartupWaitEnds(n) ==
    /\ At(n, "boot", "checked") /\ Leave(n)
    /\ guestUnit' = [guestUnit EXCEPT ![n] = IF @ = "waiting" THEN "skipped" ELSE @]
    /\ UNCHANGED <<sdnVars, vms, state, disk, host, timer, service, proof, guests,
                   starts, fenced, ops, boots, faults, moves>>

\* External: a reboot loses the rules, the addresses, the sysctls, the timer
\* and the guests; NetBird's MTU and the files stay.  With the dependency
\* installed, pve-guests waits for the unit.
Reboot(n) ==
    /\ FoldFunction(+, 0, boots) < MaxBoots
    /\ boots' = [boots EXCEPT ![n] = @ + 1]
    /\ host' = [host EXCEPT ![n] = [Baseline EXCEPT !.mtu = host[n].mtu]]
    /\ timer' = [timer EXCEPT ![n] = 0] /\ service' = [service EXCEPT ![n] = 0]
    /\ Leave(n)
    /\ guestUnit' = [guestUnit EXCEPT ![n] = IF disk[n].unit THEN "waiting" ELSE "released"]
    /\ guests' = [guests EXCEPT ![n] = FALSE] /\ starts' = [starts EXCEPT ![n] = 0]
    /\ UNCHANGED <<sdnVars, vms, state, disk, proof, fenced, ops, faults, moves>>

\* The unit refuses an installation that is not committed.
BootRefused(n) ==
    /\ Unlocked(n) /\ disk[n].unit /\ ~Committed(n) /\ guestUnit[n] = "waiting"
    /\ guestUnit' = [guestUnit EXCEPT ![n] = "skipped"]
    /\ UNCHANGED <<sdnVars, vms, nodeVars, proof, guests, starts, fenced, ops, boots, faults, moves>>

\* External: pve-guests.service runs startall once the unit has ended well.
PveGuestsStarts(n) ==
    /\ guestUnit[n] = "released"
    /\ guestUnit' = [guestUnit EXCEPT ![n] = "started"]
    /\ guests' = [guests EXCEPT ![n] = n \in vms]
    /\ starts' = [starts EXCEPT ![n] = @ + 1]
    /\ UNCHANGED <<sdnVars, vms, nodeVars, proof, fenced, ops, boots, faults, moves>>

\* External: guests are created once the network is committed.
CreateGuest(n) ==
    /\ n \notin vms /\ \A m \in Nodes : Committed(m)
    /\ vms' = vms \cup {n}
    /\ UNCHANGED <<sdnVars, netVars>>

\* External: a manual move.  The owner is fenced (its service masked, its
\* routing and addresses down, or its power off), the record is changed while
\* no other network change is under way, and the node returns as standby.
Fence ==
    /\ fenced = NoOwner /\ owner # NoOwner /\ Committed(owner) /\ moves < MaxMoves
    /\ proc[owner].mode = "idle" /\ fenced' = owner /\ moves' = moves + 1
    /\ host' = [host EXCEPT ![owner].gateway = FALSE, ![owner].forward = FALSE]
    /\ UNCHANGED <<sdnVars, vms, state, disk, timer, service, proc, proof, guestVars,
                   ops, boots, faults>>

MoveOwner(n) ==
    /\ fenced = owner /\ owner # NoOwner /\ n # owner /\ Committed(n)
    /\ owner' = n
    /\ UNCHANGED <<running, vms, netVars>>

Unfence ==
    /\ fenced # NoOwner /\ owner # fenced /\ fenced' = NoOwner
    /\ UNCHANGED <<sdnVars, vms, nodeVars, proof, guestVars, ops, boots, faults, moves>>

\* production-sdn.py, run on an unmoved record without guests: the zone never
\* runs without the record (ProductionSdn!OwnerRecordCovers).  The gateway
\* addresses go with the VNets, which the runbook removes after the nodes'
\* rollback.
Sdn(o, r) ==
    /\ vms = {} /\ owner \in {NoOwner, InitialOwner} /\ fenced = NoOwner
    /\ r => o # NoOwner
    /\ running /\ ~r =>
          \A n \in Nodes : state[n].phase \in {"none", "rolled_back"}
    /\ owner' = o /\ running' = r
    /\ host' = [n \in Nodes |-> [host[n] EXCEPT !.gateway = @ /\ r]]
    /\ UNCHANGED <<vms, state, disk, timer, service, proc, proof, guestVars, fenced,
                   ops, boots, faults, moves>>

-----------------------------------------------------------------------------
NodeNext(n) ==
    \/ Prepare(n) \/ PrepareSave(n) \/ ArmTimer(n) \/ PrepareGuards(n) \/ PrepareEnd(n)
    \/ \E f \in BOOLEAN : PrepareMtu(n, f) \/ RollbackMtu(n, f) \/ StartAll(n, f)
    \/ Activate(n) \/ Reconcile(n) \/ BootReconcile(n) \/ Readiness(n)
    \/ InstallGuards(n) \/ SetAddresses(n) \/ SetForwarding(n)
    \/ InstallBootUnit(n) \/ ReconcileEnd(n)
    \/ Commit(n) \/ CommitStopsTimer(n) \/ CommitSave(n)
    \/ TimerFires(n) \/ Rollback(n) \/ ServiceRuns(n) \/ RollbackGateway(n)
    \/ RollbackForwarding(n) \/ RollbackClear(n) \/ RollbackDisarm(n)
    \/ RollbackSave(n) \/ RollbackEnd(n)
    \/ StartGuests(n) \/ RecordStarting(n) \/ RecordOutcome(n)
    \/ Fails(n) \/ StartupWaitEnds(n) \/ Reboot(n) \/ BootRefused(n) \/ PveGuestsStarts(n)
    \/ CreateGuest(n) \/ MoveOwner(n)

NetNext ==
    \/ \E n \in Nodes : NodeNext(n)
    \/ Verify \/ Fence \/ Unfence
    \/ \E o \in {NoOwner, InitialOwner}, r \in BOOLEAN : Sdn(o, r)

NetSpec == NetInit /\ [][NetNext]_vars

-----------------------------------------------------------------------------
(* A node that forwards or carries a gateway address has the priority guard *)
(* and the owned chains in place, between any two steps and wherever one    *)
(* fails, also when a NetBird restart turns forwarding on by itself.  The   *)
(* one exception is a rollback that found no guards to keep (nothing was    *)
(* installed yet, or a reboot took them): it may forward until its second   *)
(* pair of sysctls, without a gateway address.                              *)
GuardsBeforeForwarding ==
    \A n \in Nodes :
        LET guarded == host[n].guard # "none" /\ host[n].chains # "none" IN
        /\ host[n].gateway => guarded
        /\ host[n].forward => guarded \/ state[n].phase = "rolling_back"

(* At most one node carries the gateway addresses, over failed             *)
(* activations, reboots and manual moves of the ownership record.          *)
OneGateway ==
    \A m, n \in Nodes : host[m].gateway /\ host[n].gateway => m = n

(* A finished rollback has undone everything: rules, guards, addresses,    *)
(* MTU, boot unit, and no timer is left for the operation.                 *)
RolledBackIsBaseline ==
    \A n \in Nodes : state[n].phase = "rolled_back" /\ proc[n].mode # "prepare" =>
        /\ host[n] = [Baseline EXCEPT !.bridgeNf = host[n].bridgeNf]
        /\ ~disk[n].unit /\ timer[n] = 0

(* A committed operation was prepared and committed in one boot, under the *)
(* timer it armed: a reboot in between loses the timer, and the commit is  *)
(* refused from then on.                                                   *)
CommitsUnderItsTimer ==
    [][\A n \in Nodes : ~Committed(n) /\ Committed(n)' => state[n].boot = boots[n]]_vars

(* Nothing takes a committed network back: no late timer, no waiting       *)
(* rollback service, no repeated command changes the phase, the operation, *)
(* the boot unit or the guards of a node once commit has saved.            *)
CommittedIsNeverUndone ==
    [][\A n \in Nodes : Committed(n) =>
          /\ Committed(n)' /\ state'[n].op = state[n].op
          /\ disk'[n].runtime /\ disk'[n].unit = disk[n].unit]_vars

(* On-boot guests are started at most once in a boot, by pve-guests or by  *)
(* start-guests, whatever answers are lost and whenever the process dies.  *)
GuestsStartOncePerBoot == \A n \in Nodes : starts[n] <= 1

(* Guests that pve-guests or start-guests started run behind the node's    *)
(* guards, with bridged traffic filtered, on every node that has the boot  *)
(* unit and its dependency.  (reconcile typed on a node that is prepared   *)
(* but not activated makes it active without them.)                        *)
GuestsBehindGuards ==
    \A n \in Nodes : guests[n] /\ disk[n].unit =>
        host[n].guard # "none" /\ host[n].l2 /\ host[n].bridgeNf
=============================================================================
