---------------------- MODULE ProductionNetworkProofs ----------------------
(***************************************************************************)
(* The production network keeps its promises for every number of nodes,    *)
(* installations, reboots, failures and manual moves.                      *)
(*                                                                         *)
(* The argument is local to a node: NodeInv(n) says, for each place the    *)
(* process under the node's lock can be at, what state.json, the files,    *)
(* the timer and the kernel must look like there, and what is left of it   *)
(* when the process ends at that place.  Nodes meet only in the ownership  *)
(* record and the zone (OwnerOf) and in the guests (GuestsOf).             *)
(***************************************************************************)
EXTENDS ProductionNetwork, TLAPS

-----------------------------------------------------------------------------
(* Types.                                                                  *)

Phases == {"none", "preparing", "prepared", "active", "rolling_back", "rolled_back"}
Roles == {"none", "standby", "active"}
Recoveries == {"none", "STARTING", "COMPLETED", "UNKNOWN"}
StateRec == [phase : Phases, pending : BOOLEAN, op : Nat, boot : Nat,
             recovery : Recoveries, at : Nat]
DiskRec == [runtime : BOOLEAN, unit : BOOLEAN]
HostRec == [chains : Roles, guard : Roles, l2 : BOOLEAN, gateway : BOOLEAN,
            forward : BOOLEAN, bridgeNf : BOOLEAN, mtu : {"old", "new"}]
Modes == {"idle", "prepare", "activate", "reconcile", "boot", "commit", "rollback", "guests"}
Pcs == {"idle", "installed", "saved", "armed", "guarded", "mtu", "checked", "ready", "guards",
        "addresses", "reconciled", "unit", "validated", "disarmed", "begun", "down", "quiet",
        "cleared", "delay", "starting", "answered", "unknown"}
ProcRec == [mode : Modes, pc : Pcs, active : BOOLEAN]

States == [Nodes -> StateRec]
Disks == [Nodes -> DiskRec]
Hosts == [Nodes -> HostRec]
Procs == [Nodes -> ProcRec]

GuestUnits == [Nodes -> {"started", "released", "waiting", "skipped"}]

NetTypeOK ==
    /\ owner \in Nodes \cup {NoOwner} /\ fenced \in Nodes \cup {NoOwner}
    /\ running \in BOOLEAN /\ vms \in SUBSET Nodes
    /\ state \in States /\ disk \in Disks
    /\ host \in Hosts /\ proc \in Procs
    /\ timer \in [Nodes -> Nat] /\ service \in [Nodes -> Nat]
    /\ proof \in [Nodes -> Nat] /\ boots \in [Nodes -> Nat] /\ starts \in [Nodes -> Nat]
    /\ guestUnit \in GuestUnits
    /\ guests \in [Nodes -> BOOLEAN]

-----------------------------------------------------------------------------
(* The inductive invariant, by subject.                                    *)

\* The phase on disk follows the mode under the lock, `pending' the phase, and
\* an installation that is not rolled back has its runtime.
PhaseOf(n) ==
    LET s == state[n] p == proc[n] IN
    /\ s.phase \in {"preparing", "prepared", "rolling_back"} => s.pending
    /\ s.phase \in {"none", "rolled_back"} => ~s.pending
    /\ s.recovery # "none" => Committed(n)
    /\ s.phase \notin {"none", "rolled_back"} \/ p.mode = "prepare" => disk[n].runtime
    /\ p.mode = "prepare" =>
          IF p.pc = "installed" THEN s.phase \in {"none", "rolled_back"}
                                ELSE s.phase = "preparing"
    /\ p.mode \in {"activate", "reconcile", "boot"} => s.phase \in {"prepared", "active"}
    /\ p.mode = "activate" => s.pending
    /\ p.mode = "commit" => s.phase = "active"
    /\ p.mode = "guests" => Committed(n)
    /\ p.mode = "rollback" =>
          s.phase = IF p.pc = "saved" THEN "rolled_back" ELSE "rolling_back"

\* A timer or a rollback service belongs to this boot, and so does the
\* operation of the node while there is one: a reboot takes both away.
BootOf(n) ==
    /\ TimerActive(n) => state[n].boot = boots[n]
    /\ proc[n].mode = "prepare" /\ proc[n].pc # "installed" => state[n].boot = boots[n]
    /\ At(n, "commit", "disarmed") => state[n].boot = boots[n]
    /\ timer[n] # 0 => state[n].phase \notin {"none", "rolled_back"}

Guarded(n) == host[n].guard # "none" /\ host[n].chains # "none"

\* Guards come before what they guard, whoever enables it.
HostOf(n) ==
    LET h == host[n] p == proc[n] s == state[n] IN
    /\ h.gateway => Guarded(n)
    /\ h.forward => Guarded(n) \/ s.phase = "rolling_back"
    /\ p.mode = "prepare" /\ p.pc \in {"guarded", "mtu"} => Guarded(n)
    /\ p.mode \in {"activate", "reconcile", "boot"} /\ p.pc \notin {"checked", "ready"} =>
          h.guard = Role(n) /\ h.chains = Role(n) /\ h.l2
    /\ p.mode \in {"activate", "reconcile", "boot"} /\ p.pc \in {"reconciled", "unit"} =>
          h.bridgeNf

\* What a rollback has already undone, step by step, and all of it at the end.
RollbackOf(n) ==
    LET h == host[n] p == proc[n] s == state[n] IN
    /\ p.mode = "rollback" /\ p.pc # "begun" => ~h.gateway
    /\ p.mode = "rollback" /\ p.pc \notin {"begun", "down"} => h.mtu = "old"
    /\ p.mode = "rollback" /\ p.pc \in {"quiet", "cleared", "disarmed"} => ~h.forward
    /\ p.mode = "rollback" /\ p.pc \in {"cleared", "disarmed"} =>
          h.chains = "none" /\ h.guard = "none" /\ ~h.l2 /\ ~disk[n].unit
    /\ p.mode = "rollback" /\ p.pc = "disarmed" => timer[n] = 0
    /\ s.phase = "rolled_back" =>
          /\ h.chains = "none" /\ h.guard = "none" /\ ~h.l2 /\ ~h.gateway /\ ~h.forward
          /\ h.mtu = "old" /\ ~disk[n].unit /\ timer[n] = 0

\* The gateway, and a process on its way to it, belong to the record's owner; a
\* fenced node has neither, so the record may move.
OwnerOf(n) ==
    /\ host[n].gateway => owner = n /\ running
    /\ proc[n].active => owner = n /\ running
    /\ proc[n].mode \in {"activate", "reconcile", "boot"} /\ proc[n].pc # "checked" => running
    /\ proc[n].mode \notin {"activate", "reconcile", "boot"} => ~proc[n].active
    /\ fenced = n => proc[n].mode = "idle" /\ ~host[n].gateway
    /\ running => owner # NoOwner

Filtered(n) == host[n].guard # "none" /\ host[n].l2 /\ host[n].bridgeNf

\* A start in this boot shows: in pve-guests' own state, or in the recovery
\* record that bars another one.
StartsOf(n) ==
    LET s == state[n] p == proc[n] IN
    /\ starts[n] <= 1
    /\ guestUnit[n] \in {"released", "waiting"} => starts[n] = 0
    /\ guestUnit[n] = "skipped" /\ starts[n] # 0 =>
          s.recovery # "none" /\ (s.recovery = "COMPLETED" => s.at = boots[n])
    /\ p.mode = "guests" => p.pc \in {"delay", "starting", "answered", "unknown"}
    /\ p.mode = "guests" /\ p.pc = "delay" => RecoveryAllowed(n)
    /\ p.mode = "guests" /\ p.pc = "starting" => guestUnit[n] = "skipped" /\ starts[n] = 0
    /\ p.mode = "guests" /\ p.pc # "delay" =>
          s.recovery = "STARTING" /\ s.at = boots[n] /\ Filtered(n)

\* Guests exist only on a committed network, and start only behind filters.
GuestsOf(n) ==
    /\ guests[n] => n \in vms
    /\ vms # {} => Committed(n)
    /\ (guests[n] \/ guestUnit[n] = "released") /\ disk[n].unit => Filtered(n)

NodeInv(n) == PhaseOf(n) /\ BootOf(n) /\ HostOf(n) /\ RollbackOf(n) /\ OwnerOf(n)
              /\ StartsOf(n) /\ GuestsOf(n)
NetInv == \A n \in Nodes : NodeInv(n)

-----------------------------------------------------------------------------
(* Types are kept.                                                         *)

USE NetworkAssumption

\* Every update the steps make keeps the records' types.
LEMMA HostUpdates ==
    ASSUME NEW h \in Hosts, NEW n \in Nodes
    PROVE  /\ \A c \in Roles : [h EXCEPT ![n].chains = c] \in Hosts
           /\ \A c, g \in Roles : [h EXCEPT ![n].chains = c, ![n].guard = g] \in Hosts
           /\ \A c, g \in Roles, l \in BOOLEAN :
                 [h EXCEPT ![n].chains = c, ![n].guard = g, ![n].l2 = l] \in Hosts
           /\ \A c, g \in Roles, l, b \in BOOLEAN :
                 [h EXCEPT ![n].chains = c, ![n].guard = g, ![n].l2 = l, ![n].bridgeNf = b]
                    \in Hosts
           /\ \A a, f \in BOOLEAN :
                 /\ [h EXCEPT ![n].gateway = a] \in Hosts
                 /\ [h EXCEPT ![n].forward = f] \in Hosts
                 /\ [h EXCEPT ![n].gateway = a, ![n].forward = f] \in Hosts
                 /\ [h EXCEPT ![n].forward = f, ![n].gateway = a] \in Hosts
           /\ \A b, f \in BOOLEAN : [h EXCEPT ![n].bridgeNf = b, ![n].forward = f] \in Hosts
           /\ \A x \in {"old", "new"} :
                 /\ [h EXCEPT ![n] = [Baseline EXCEPT !.mtu = x]] \in Hosts
                 /\ \A f \in BOOLEAN : [h EXCEPT ![n].mtu = x, ![n].forward = f] \in Hosts
<1> USE DEF Hosts
<1>0. \A r \in HostRec :
         /\ \A c \in Roles : [r EXCEPT !.chains = c] \in HostRec /\ [r EXCEPT !.guard = c] \in HostRec
         /\ \A b \in BOOLEAN :
               /\ [r EXCEPT !.l2 = b] \in HostRec /\ [r EXCEPT !.gateway = b] \in HostRec
               /\ [r EXCEPT !.forward = b] \in HostRec /\ [r EXCEPT !.bridgeNf = b] \in HostRec
         /\ \A x \in {"old", "new"} : [r EXCEPT !.mtu = x] \in HostRec
  BY DEF HostRec, Roles
<1>1. Baseline \in HostRec BY DEF Baseline, HostRec, Roles
<1>2. h[n] \in HostRec OBVIOUS
<1> QED BY <1>0, <1>1, <1>2

LEMMA StateUpdates ==
    ASSUME NEW s \in States, NEW n \in Nodes
    PROVE  /\ \A p \in Phases : [s EXCEPT ![n].phase = p] \in States
           /\ \A d \in BOOLEAN : [s EXCEPT ![n].pending = d] \in States
           /\ \A p \in Phases, d \in BOOLEAN :
                 [s EXCEPT ![n].phase = p, ![n].pending = d] \in States
           /\ \A r \in Recoveries : [s EXCEPT ![n].recovery = r] \in States
           /\ \A r \in Recoveries, b \in Nat :
                 [s EXCEPT ![n].recovery = r, ![n].at = b] \in States
           /\ \A k, b \in Nat :
                 [s EXCEPT ![n] = [NoState EXCEPT !.phase = "preparing", !.pending = TRUE,
                                                  !.op = k, !.boot = b]] \in States
<1> USE DEF States
<1>0. \A t \in StateRec :
         /\ \A p \in Phases : [t EXCEPT !.phase = p] \in StateRec
         /\ \A d \in BOOLEAN : [t EXCEPT !.pending = d] \in StateRec
         /\ \A k \in Nat : /\ [t EXCEPT !.op = k] \in StateRec
                           /\ [t EXCEPT !.boot = k] \in StateRec
                           /\ [t EXCEPT !.at = k] \in StateRec
         /\ \A r \in Recoveries : [t EXCEPT !.recovery = r] \in StateRec
  BY DEF StateRec, Phases, Recoveries
<1>1. NoState \in StateRec BY DEF NoState, StateRec, Phases, Recoveries
<1>2. s[n] \in StateRec OBVIOUS
<1>3. "preparing" \in Phases BY DEF Phases
<1> QED BY <1>0, <1>1, <1>2, <1>3

LEMMA ProcUpdates ==
    ASSUME NEW q \in Procs, NEW n \in Nodes
    PROVE  /\ \A mode \in Modes, pc \in Pcs :
                 [q EXCEPT ![n] = [Idle EXCEPT !.mode = mode, !.pc = pc]] \in Procs
           /\ \A pc \in Pcs : [q EXCEPT ![n].pc = pc] \in Procs
           /\ \A pc \in Pcs, a \in BOOLEAN : [q EXCEPT ![n].pc = pc, ![n].active = a] \in Procs
           /\ [q EXCEPT ![n] = Idle] \in Procs
<1> USE DEF Procs
<1>0. \A p \in ProcRec :
         /\ \A mode \in Modes : [p EXCEPT !.mode = mode] \in ProcRec
         /\ \A pc \in Pcs : [p EXCEPT !.pc = pc] \in ProcRec
         /\ \A a \in BOOLEAN : [p EXCEPT !.active = a] \in ProcRec
  BY DEF ProcRec
<1>1. Idle \in ProcRec BY DEF Idle, ProcRec, Modes, Pcs
<1>2. q[n] \in ProcRec OBVIOUS
<1> QED BY <1>0, <1>1, <1>2

LEMMA DiskUpdates ==
    ASSUME NEW d \in Disks, NEW n \in Nodes, NEW b \in BOOLEAN
    PROVE  [d EXCEPT ![n].runtime = b] \in Disks /\ [d EXCEPT ![n].unit = b] \in Disks
BY DEF Disks, DiskRec

LEMMA FieldTypes ==
    ASSUME NetTypeOK, NEW n \in Nodes
    PROVE  /\ host[n].mtu \in {"old", "new"} /\ host[n].forward \in BOOLEAN
           /\ host[n].bridgeNf \in BOOLEAN /\ proc[n].active \in BOOLEAN
           /\ state[n].op \in Nat /\ Role(n) \in {"active", "standby"}
BY DEF NetTypeOK, HostRec, ProcRec, StateRec, Role, Hosts, States, Procs
LEMMA TypeStep ==
    ASSUME NetTypeOK, NEW n \in Nodes, NodeNext(n)
    PROVE  NetTypeOK'
<1> USE FieldTypes DEF NetTypeOK, KeepRest, guestVars, sdnVars, nodeVars, netVars, Modes, Pcs,
            Roles, Phases, Recoveries
<1>1. CASE Prepare(n)
  BY <1>1, ProcUpdates, DiskUpdates DEF Prepare, Enter
<1>2. CASE PrepareSave(n)
  <2>1. proc' \in Procs BY <1>2, ProcUpdates DEF PrepareSave, Goto
  <2>2. state[n].op + 1 \in Nat /\ boots[n] \in Nat OBVIOUS
  <2>3. state' \in States BY <1>2, <2>2, StateUpdates DEF PrepareSave
  <2> QED BY <1>2, <2>1, <2>3 DEF PrepareSave
<1>3. CASE ArmTimer(n)
  BY <1>3, ProcUpdates DEF ArmTimer, Goto
<1>4. CASE PrepareGuards(n)
  BY <1>4, ProcUpdates, HostUpdates DEF PrepareGuards, Goto
<1>5. CASE PrepareEnd(n)
  BY <1>5, ProcUpdates, HostUpdates, StateUpdates DEF PrepareEnd, Leave
<1>6. CASE Activate(n)
  BY <1>6, ProcUpdates DEF Activate, Enter
<1>7. CASE Reconcile(n)
  BY <1>7, ProcUpdates DEF Reconcile, Enter
<1>8. CASE BootReconcile(n)
  BY <1>8, ProcUpdates DEF BootReconcile, Enter
<1>9. CASE Readiness(n)
  BY <1>9, ProcUpdates DEF Readiness, IsOwner
<1>10. CASE InstallGuards(n)
  <2>1. proc' \in Procs BY <1>10, ProcUpdates DEF InstallGuards, Goto
  <2>2. Role(n) \in Roles BY DEF Role
  <2>3. host' \in Hosts BY <1>10, <2>2, HostUpdates DEF InstallGuards
  <2> QED BY <1>10, <2>1, <2>3 DEF InstallGuards
<1>11. CASE SetAddresses(n)
  BY <1>11, ProcUpdates, HostUpdates DEF SetAddresses, Goto
<1>12. CASE SetForwarding(n)
  BY <1>12, ProcUpdates, HostUpdates DEF SetForwarding, Goto
<1>13. CASE InstallBootUnit(n)
  BY <1>13, ProcUpdates, DiskUpdates DEF InstallBootUnit, Goto
<1>14. CASE ReconcileEnd(n)
  <2>1. proc' \in Procs BY <1>14, ProcUpdates DEF ReconcileEnd, Leave
  <2>2. state' \in States BY <1>14, StateUpdates DEF ReconcileEnd
  <2>3. guestUnit' \in GuestUnits BY <1>14 DEF ReconcileEnd, GuestUnits
  <2> QED BY <1>14, <2>1, <2>2, <2>3 DEF ReconcileEnd
<1>15. CASE Commit(n)
  BY <1>15, ProcUpdates DEF Commit, Enter
<1>16. CASE CommitStopsTimer(n)
  BY <1>16, ProcUpdates DEF CommitStopsTimer, Goto
<1>17. CASE CommitSave(n)
  BY <1>17, ProcUpdates, StateUpdates DEF CommitSave, Leave
<1>18. CASE TimerFires(n)
  BY <1>18 DEF TimerFires
<1>19. CASE Rollback(n)
  BY <1>19, ProcUpdates, StateUpdates DEF Rollback, Enter
<1>20. CASE ServiceRuns(n)
  BY <1>20, ProcUpdates, StateUpdates DEF ServiceRuns
<1>21. CASE RollbackGateway(n)
  BY <1>21, ProcUpdates, HostUpdates DEF RollbackGateway, Goto
<1>22. CASE RollbackForwarding(n)
  BY <1>22, ProcUpdates, HostUpdates DEF RollbackForwarding, Goto
<1>23. CASE RollbackClear(n)
  BY <1>23, ProcUpdates, HostUpdates, DiskUpdates DEF RollbackClear, Goto
<1>24. CASE RollbackDisarm(n)
  BY <1>24, ProcUpdates DEF RollbackDisarm, Goto
<1>25. CASE RollbackSave(n)
  BY <1>25, ProcUpdates, StateUpdates DEF RollbackSave, Goto
<1>26. CASE RollbackEnd(n)
  BY <1>26, ProcUpdates, DiskUpdates DEF RollbackEnd, Leave
<1>27. CASE StartGuests(n)
  BY <1>27, ProcUpdates DEF StartGuests, Enter
<1>28. CASE RecordStarting(n)
  <2>1. proc' \in Procs BY <1>28, ProcUpdates DEF RecordStarting, Goto
  <2>2. state' \in States BY <1>28, StateUpdates DEF RecordStarting
  <2> QED BY <1>28, <2>1, <2>2 DEF RecordStarting
<1>29. CASE RecordOutcome(n)
  BY <1>29, ProcUpdates, StateUpdates DEF RecordOutcome, Leave
<1>30. CASE Fails(n)
  <2>1. proc' \in Procs BY <1>30, ProcUpdates DEF Fails, Leave
  <2>2. guestUnit' \in GuestUnits BY <1>30 DEF Fails, GuestUnits
  <2> QED BY <1>30, <2>1, <2>2 DEF Fails
<1>31. CASE StartupWaitEnds(n)
  <2>1. proc' \in Procs BY <1>31, ProcUpdates DEF StartupWaitEnds, Leave
  <2>2. guestUnit' \in GuestUnits BY <1>31 DEF StartupWaitEnds, GuestUnits
  <2> QED BY <1>31, <2>1, <2>2 DEF StartupWaitEnds
<1>32. CASE Reboot(n)
  <2>1. proc' \in Procs BY <1>32, ProcUpdates DEF Reboot, Leave
  <2>2. host' \in Hosts BY <1>32, HostUpdates DEF Reboot
  <2>3. guestUnit' \in GuestUnits BY <1>32 DEF Reboot, GuestUnits
  <2>4. /\ boots' \in [Nodes -> Nat] /\ timer' \in [Nodes -> Nat] /\ service' \in [Nodes -> Nat]
        /\ starts' \in [Nodes -> Nat] /\ guests' \in [Nodes -> BOOLEAN]
    <3>1. /\ boots' = [boots EXCEPT ![n] = boots[n] + 1] /\ timer' = [timer EXCEPT ![n] = 0]
          /\ service' = [service EXCEPT ![n] = 0] /\ starts' = [starts EXCEPT ![n] = 0]
          /\ guests' = [guests EXCEPT ![n] = FALSE]
      BY <1>32 DEF Reboot
    <3> QED BY <3>1
  <2> QED BY <1>32, <2>1, <2>2, <2>3, <2>4 DEF Reboot
<1>33. CASE BootRefused(n)
  BY <1>33 DEF BootRefused, GuestUnits
<1>34. CASE PveGuestsStarts(n)
  BY <1>34 DEF PveGuestsStarts, GuestUnits
<1>35. CASE CreateGuest(n)
  BY <1>35 DEF CreateGuest
<1>36. CASE MoveOwner(n)
  BY <1>36 DEF MoveOwner
<1>37. ASSUME NEW f \in BOOLEAN, PrepareMtu(n, f) PROVE NetTypeOK'
  BY <1>37, ProcUpdates, HostUpdates DEF PrepareMtu, Goto, SetMeshMtu
<1>38. ASSUME NEW f \in BOOLEAN, RollbackMtu(n, f) PROVE NetTypeOK'
  BY <1>38, ProcUpdates, HostUpdates DEF RollbackMtu, Goto, SetMeshMtu
<1>39. ASSUME NEW f \in BOOLEAN, StartAll(n, f) PROVE NetTypeOK'
  <2>1. proc' \in Procs BY <1>39, ProcUpdates DEF StartAll, Goto
  <2>2. starts' \in [Nodes -> Nat] /\ guests' \in [Nodes -> BOOLEAN] BY <1>39 DEF StartAll
  <2> QED BY <1>39, <2>1, <2>2 DEF StartAll
<1> HIDE DEF NetTypeOK
<1> QED
  BY <1>1, <1>2, <1>3, <1>4, <1>5, <1>6, <1>7, <1>8, <1>9, <1>10, <1>11, <1>12, <1>13,
     <1>14, <1>15, <1>16, <1>17, <1>18, <1>19, <1>20, <1>21, <1>22, <1>23, <1>24,
     <1>25, <1>26, <1>27, <1>28, <1>29, <1>30, <1>31, <1>32, <1>33, <1>34, <1>35,
     <1>36, <1>37, <1>38, <1>39
  DEF NodeNext

LEMMA TypeNext == NetTypeOK /\ [NetNext]_vars => NetTypeOK'
<1> SUFFICES ASSUME NetTypeOK, [NetNext]_vars PROVE NetTypeOK' OBVIOUS
<1>1. ASSUME NEW n \in Nodes, NodeNext(n) PROVE NetTypeOK' BY <1>1, TypeStep
<1> USE DEF NetTypeOK, guestVars, sdnVars, nodeVars, netVars
<1>2. CASE Verify
  BY <1>2, FieldTypes DEF Verify
<1>3. CASE Fence BY <1>3, HostUpdates DEF Fence
<1>4. CASE Unfence BY <1>4 DEF Unfence
<1>5. ASSUME NEW o \in {NoOwner, InitialOwner}, NEW r \in BOOLEAN, Sdn(o, r)
      PROVE  NetTypeOK'
  <2>1. \A k \in Nodes : [host[k] EXCEPT !.gateway = host[k].gateway /\ r] \in HostRec
    BY DEF Hosts, HostRec
  <2>2. host' = [k \in Nodes |-> [host[k] EXCEPT !.gateway = host[k].gateway /\ r]]
    BY <1>5 DEF Sdn
  <2>3. host' \in Hosts BY <2>1, <2>2 DEF Hosts
  <2> QED BY <1>5, <2>3 DEF Sdn
<1>6. CASE UNCHANGED vars BY <1>6 DEF vars
<1> HIDE DEF NetTypeOK
<1> QED BY <1>1, <1>2, <1>3, <1>4, <1>5, <1>6 DEF NetNext

LEMMA TypeInit == NetInit => NetTypeOK
<1>1. NoState \in StateRec BY DEF NoState, StateRec, Phases, Recoveries
<1>2. Baseline \in HostRec BY DEF Baseline, HostRec, Roles
<1>3. Idle \in ProcRec BY DEF Idle, ProcRec, Modes, Pcs
<1>4. [runtime |-> FALSE, unit |-> FALSE] \in DiskRec BY DEF DiskRec
<1> SUFFICES ASSUME NetInit PROVE NetTypeOK OBVIOUS
<1>5. state \in States /\ host \in Hosts BY <1>1, <1>2 DEF NetInit, States, Hosts
<1>6. proc \in Procs /\ disk \in Disks BY <1>3, <1>4 DEF NetInit, Procs, Disks
<1> QED BY <1>5, <1>6 DEF NetInit, NetTypeOK, GuestUnits

-----------------------------------------------------------------------------
(* One lemma per mode: its steps keep the invariant of every node.         *)

\* The records some steps build, field by field.
LEMMA Preparing ==
    ASSUME NEW k, NEW b
    PROVE  LET s == [NoState EXCEPT !.phase = "preparing", !.pending = TRUE, !.op = k,
                                    !.boot = b] IN
           /\ s.phase = "preparing" /\ s.pending = TRUE /\ s.op = k /\ s.boot = b
           /\ s.recovery = "none" /\ s.at = 0
BY DEF NoState

LEMMA Rebooted ==
    ASSUME NEW x
    PROVE  LET h == [Baseline EXCEPT !.mtu = x] IN
           /\ h.chains = "none" /\ h.guard = "none" /\ h.l2 = FALSE /\ h.gateway = FALSE
           /\ h.forward = FALSE /\ h.bridgeNf = FALSE /\ h.mtu = x
BY DEF Baseline

LEMMA MeshRestarted ==
    ASSUME NetTypeOK, NEW n \in Nodes, NEW x, NEW f \in BOOLEAN, SetMeshMtu(n, x, f)
    PROVE  /\ host'[n].chains = host[n].chains /\ host'[n].guard = host[n].guard
           /\ host'[n].l2 = host[n].l2 /\ host'[n].gateway = host[n].gateway
           /\ host'[n].bridgeNf = host[n].bridgeNf /\ host'[n].mtu = x
           /\ \A k \in Nodes \ {n} : host'[k] = host[k]
<1>1. host \in [Nodes -> HostRec] BY DEF NetTypeOK, Hosts
<1> QED BY <1>1 DEF SetMeshMtu, HostRec

LEMMA HostRebooted ==
    ASSUME NetTypeOK, NEW n \in Nodes, Reboot(n)
    PROVE  /\ host'[n].chains = "none" /\ host'[n].guard = "none" /\ host'[n].l2 = FALSE
           /\ host'[n].gateway = FALSE /\ host'[n].forward = FALSE
           /\ host'[n].bridgeNf = FALSE /\ host'[n].mtu = host[n].mtu
           /\ \A k \in Nodes \ {n} : host'[k] = host[k]
<1>1. host' = [host EXCEPT ![n] = [Baseline EXCEPT !.mtu = host[n].mtu]] BY DEF Reboot
<1>2. host \in [Nodes -> HostRec] BY DEF NetTypeOK, Hosts
<1> QED BY <1>1, <1>2, Rebooted

LEMMA PrepareSteps ==
    ASSUME NetTypeOK, NetInv, NEW n \in Nodes, NEW m \in Nodes,
           Prepare(n) \/ PrepareSave(n) \/ ArmTimer(n) \/ PrepareGuards(n) \/
           (\E f \in BOOLEAN : PrepareMtu(n, f)) \/ PrepareEnd(n)
    PROVE  NodeInv(m)'
<1> USE DEF NetTypeOK, NetInv, NodeInv, PhaseOf, BootOf, HostOf, RollbackOf, OwnerOf,
            StartsOf, GuestsOf, Goto, Enter, Leave, Idle, Unlocked, At, KeepRest, guestVars,
            sdnVars, nodeVars, netVars, Committed, TimerActive, Guarded, Role, Filtered,
            RecoveryAllowed, StateRec, DiskRec, HostRec, ProcRec, Roles, Phases,
            States, Disks, Hosts, Procs, GuestUnits
<1>1. CASE Prepare(n) BY <1>1 DEF Prepare
<1>2. CASE PrepareSave(n)
  <2>1. /\ state'[n].phase = "preparing" /\ state'[n].pending = TRUE
        /\ state'[n].boot = boots[n] /\ state'[n].recovery = "none" /\ state'[n].at = 0
        /\ \A k \in Nodes \ {n} : state'[k] = state[k]
    BY <1>2, Preparing DEF PrepareSave
  <2>2. /\ proc[n].mode = "prepare" /\ proc[n].pc = "installed"
        /\ proc' = [proc EXCEPT ![n].pc = "saved"]
        /\ UNCHANGED <<owner, running, vms, disk, host, timer, service, guestUnit, guests,
                       starts, fenced, boots>>
    BY <1>2 DEF PrepareSave
  <2>3. PhaseOf(m)' BY <2>1, <2>2
  <2>4. BootOf(m)' /\ HostOf(m)' BY <2>1, <2>2
  <2>5. RollbackOf(m)' /\ OwnerOf(m)' BY <2>1, <2>2
  <2>6. StartsOf(m)' /\ GuestsOf(m)' BY <2>1, <2>2
  <2> HIDE DEF PhaseOf, BootOf, HostOf, RollbackOf, OwnerOf, StartsOf, GuestsOf
  <2> QED BY <2>3, <2>4, <2>5, <2>6
<1>3. CASE ArmTimer(n) BY <1>3 DEF ArmTimer
<1>4. CASE PrepareGuards(n) BY <1>4 DEF PrepareGuards
<1>5. ASSUME NEW f \in BOOLEAN, PrepareMtu(n, f) PROVE NodeInv(m)'
  <2>1. /\ host'[n].chains = host[n].chains /\ host'[n].guard = host[n].guard
        /\ host'[n].l2 = host[n].l2 /\ host'[n].gateway = host[n].gateway
        /\ host'[n].bridgeNf = host[n].bridgeNf /\ host'[n].mtu = "new"
        /\ \A k \in Nodes \ {n} : host'[k] = host[k]
    BY <1>5, MeshRestarted DEF PrepareMtu
  <2>2. PhaseOf(m)' /\ BootOf(m)' BY <1>5 DEF PrepareMtu
  <2>4. HostOf(m)' BY <1>5, <2>1 DEF PrepareMtu
  <2>5. RollbackOf(m)' BY <1>5, <2>1 DEF PrepareMtu
  <2>6. OwnerOf(m)' BY <1>5, <2>1 DEF PrepareMtu
  <2>7. StartsOf(m)' /\ GuestsOf(m)' BY <1>5, <2>1 DEF PrepareMtu
  <2> HIDE DEF PhaseOf, BootOf, HostOf, RollbackOf, OwnerOf, StartsOf, GuestsOf
  <2> QED BY <2>2, <2>4, <2>5, <2>6, <2>7
<1>6. CASE PrepareEnd(n) BY <1>6 DEF PrepareEnd
<1> HIDE DEF NodeInv, NetInv, NetTypeOK
<1> QED BY <1>1, <1>2, <1>3, <1>4, <1>5, <1>6

LEMMA ReconcileSteps ==
    ASSUME NetTypeOK, NetInv, NEW n \in Nodes, NEW m \in Nodes,
           Activate(n) \/ Reconcile(n) \/ BootReconcile(n) \/ Readiness(n) \/
           InstallGuards(n) \/ SetAddresses(n) \/ SetForwarding(n) \/
           InstallBootUnit(n) \/ ReconcileEnd(n)
    PROVE  NodeInv(m)'
<1> USE DEF NetTypeOK, NetInv, NodeInv, PhaseOf, BootOf, HostOf, RollbackOf, OwnerOf,
            StartsOf, GuestsOf, Goto, Enter, Leave, Idle, Unlocked, At, KeepRest, guestVars,
            sdnVars, nodeVars, netVars, Committed, TimerActive, Guarded, Role, Filtered,
            RecoveryAllowed, StateRec, DiskRec, HostRec, ProcRec, Roles, Phases,
            States, Disks, Hosts, Procs, GuestUnits
<1>1. CASE Activate(n) BY <1>1 DEF Activate
<1>2. CASE Reconcile(n) BY <1>2 DEF Reconcile
<1>3. CASE BootReconcile(n) BY <1>3 DEF BootReconcile
<1>4. CASE Readiness(n) BY <1>4 DEF Readiness, Reconciling, IsOwner
<1>5. CASE InstallGuards(n) BY <1>5 DEF InstallGuards, Reconciling
<1>6. CASE SetAddresses(n) BY <1>6 DEF SetAddresses, Reconciling
<1>7. CASE SetForwarding(n) BY <1>7 DEF SetForwarding, Reconciling
<1>8. CASE InstallBootUnit(n) BY <1>8 DEF InstallBootUnit
<1>9. CASE ReconcileEnd(n) BY <1>9 DEF ReconcileEnd
<1> HIDE DEF NodeInv, NetInv, NetTypeOK
<1> QED BY <1>1, <1>2, <1>3, <1>4, <1>5, <1>6, <1>7, <1>8, <1>9

LEMMA CommitSteps ==
    ASSUME NetTypeOK, NetInv, NEW n \in Nodes, NEW m \in Nodes,
           Commit(n) \/ CommitStopsTimer(n) \/ CommitSave(n)
    PROVE  NodeInv(m)'
<1> USE DEF NetTypeOK, NetInv, NodeInv, PhaseOf, BootOf, HostOf, RollbackOf, OwnerOf,
            StartsOf, GuestsOf, Goto, Enter, Leave, Idle, Unlocked, At, KeepRest, guestVars,
            sdnVars, nodeVars, netVars, Committed, TimerActive, Guarded, Role, Filtered,
            RecoveryAllowed, StateRec, DiskRec, HostRec, ProcRec, Roles, Phases,
            States, Disks, Hosts, Procs, GuestUnits
<1>1. CASE Commit(n) BY <1>1 DEF Commit
<1>2. CASE CommitStopsTimer(n) BY <1>2 DEF CommitStopsTimer
<1>3. CASE CommitSave(n) BY <1>3 DEF CommitSave
<1> HIDE DEF NodeInv, NetInv, NetTypeOK
<1> QED BY <1>1, <1>2, <1>3

LEMMA RollbackSteps ==
    ASSUME NetTypeOK, NetInv, NEW n \in Nodes, NEW m \in Nodes,
           TimerFires(n) \/ Rollback(n) \/ ServiceRuns(n) \/ RollbackGateway(n) \/
           (\E f \in BOOLEAN : RollbackMtu(n, f)) \/ RollbackForwarding(n) \/
           RollbackClear(n) \/ RollbackDisarm(n) \/ RollbackSave(n) \/ RollbackEnd(n)
    PROVE  NodeInv(m)'
<1> USE DEF NetTypeOK, NetInv, NodeInv, PhaseOf, BootOf, HostOf, RollbackOf, OwnerOf,
            StartsOf, GuestsOf, Goto, Enter, Leave, Idle, Unlocked, At, KeepRest, guestVars,
            sdnVars, nodeVars, netVars, Committed, TimerActive, Guarded, Role, Filtered,
            RecoveryAllowed, StateRec, DiskRec, HostRec, ProcRec, Roles, Phases,
            States, Disks, Hosts, Procs, GuestUnits
<1>1. CASE TimerFires(n) BY <1>1 DEF TimerFires
<1>2. CASE Rollback(n) BY <1>2 DEF Rollback, MayRollback
<1>3. CASE ServiceRuns(n) BY <1>3 DEF ServiceRuns, MayRollback
<1>4. CASE RollbackGateway(n) BY <1>4 DEF RollbackGateway
<1>5. ASSUME NEW f \in BOOLEAN, RollbackMtu(n, f) PROVE NodeInv(m)'
  <2>1. /\ host'[n].chains = host[n].chains /\ host'[n].guard = host[n].guard
        /\ host'[n].l2 = host[n].l2 /\ host'[n].gateway = host[n].gateway
        /\ host'[n].bridgeNf = host[n].bridgeNf /\ host'[n].mtu = "old"
        /\ \A k \in Nodes \ {n} : host'[k] = host[k]
    BY <1>5, MeshRestarted DEF RollbackMtu
  <2>2. PhaseOf(m)' /\ BootOf(m)' BY <1>5 DEF RollbackMtu
  <2>4. HostOf(m)' BY <1>5, <2>1 DEF RollbackMtu
  <2>5. RollbackOf(m)' BY <1>5, <2>1 DEF RollbackMtu
  <2>6. OwnerOf(m)' BY <1>5, <2>1 DEF RollbackMtu
  <2>7. StartsOf(m)' /\ GuestsOf(m)' BY <1>5, <2>1 DEF RollbackMtu
  <2> HIDE DEF PhaseOf, BootOf, HostOf, RollbackOf, OwnerOf, StartsOf, GuestsOf
  <2> QED BY <2>2, <2>4, <2>5, <2>6, <2>7
<1>6. CASE RollbackForwarding(n) BY <1>6 DEF RollbackForwarding
<1>7. CASE RollbackClear(n) BY <1>7 DEF RollbackClear
<1>8. CASE RollbackDisarm(n) BY <1>8 DEF RollbackDisarm
<1>9. CASE RollbackSave(n) BY <1>9 DEF RollbackSave
<1>10. CASE RollbackEnd(n) BY <1>10 DEF RollbackEnd
<1> HIDE DEF NodeInv, NetInv, NetTypeOK
<1> QED BY <1>1, <1>2, <1>3, <1>4, <1>5, <1>6, <1>7, <1>8, <1>9, <1>10

LEMMA GuestSteps ==
    ASSUME NetTypeOK, NetInv, NEW n \in Nodes, NEW m \in Nodes,
           StartGuests(n) \/ RecordStarting(n) \/
           (\E f \in BOOLEAN : StartAll(n, f)) \/ RecordOutcome(n) \/
           PveGuestsStarts(n) \/ CreateGuest(n)
    PROVE  NodeInv(m)'
<1> USE DEF NetTypeOK, NetInv, NodeInv, PhaseOf, BootOf, HostOf, RollbackOf, OwnerOf,
            StartsOf, GuestsOf, Goto, Enter, Leave, Idle, Unlocked, At, KeepRest, guestVars,
            sdnVars, nodeVars, netVars, Committed, TimerActive, Guarded, Role, Filtered,
            RecoveryAllowed, StateRec, DiskRec, HostRec, ProcRec, Roles, Phases,
            States, Disks, Hosts, Procs, GuestUnits
<1>1. CASE StartGuests(n) BY <1>1 DEF StartGuests
<1>2. CASE RecordStarting(n) BY <1>2 DEF RecordStarting, ValidateCurrent
<1>3. ASSUME NEW f \in BOOLEAN, StartAll(n, f) PROVE NodeInv(m)'
  BY <1>3 DEF StartAll
<1>4. CASE RecordOutcome(n) BY <1>4 DEF RecordOutcome
<1>5. CASE PveGuestsStarts(n) BY <1>5 DEF PveGuestsStarts
<1>6. CASE CreateGuest(n) BY <1>6 DEF CreateGuest
<1> HIDE DEF NodeInv, NetInv, NetTypeOK
<1> QED BY <1>1, <1>2, <1>3, <1>4, <1>5, <1>6

LEMMA FaultSteps ==
    ASSUME NetTypeOK, NetInv, NEW n \in Nodes, NEW m \in Nodes,
           Fails(n) \/ StartupWaitEnds(n) \/ Reboot(n) \/ BootRefused(n) \/
           MoveOwner(n)
    PROVE  NodeInv(m)'
<1> USE DEF NetTypeOK, NetInv, NodeInv, PhaseOf, BootOf, HostOf, RollbackOf, OwnerOf,
            StartsOf, GuestsOf, Goto, Enter, Leave, Idle, Unlocked, At, KeepRest, guestVars,
            sdnVars, nodeVars, netVars, Committed, TimerActive, Guarded, Role, Filtered,
            RecoveryAllowed, StateRec, DiskRec, HostRec, ProcRec, Roles, Phases,
            States, Disks, Hosts, Procs, GuestUnits
<1>1. CASE Fails(n) BY <1>1 DEF Fails
<1>2. CASE StartupWaitEnds(n) BY <1>2 DEF StartupWaitEnds
<1>3. CASE Reboot(n)
  <2>1. /\ host'[n].chains = "none" /\ host'[n].guard = "none" /\ host'[n].l2 = FALSE
        /\ host'[n].gateway = FALSE /\ host'[n].forward = FALSE
        /\ host'[n].bridgeNf = FALSE /\ host'[n].mtu = host[n].mtu
        /\ \A k \in Nodes \ {n} : host'[k] = host[k]
    BY <1>3, HostRebooted
  <2>2. /\ boots' = [boots EXCEPT ![n] = @ + 1]
        /\ timer' = [timer EXCEPT ![n] = 0] /\ service' = [service EXCEPT ![n] = 0]
        /\ proc' = [proc EXCEPT ![n] = Idle]
        /\ guestUnit' = [guestUnit EXCEPT ![n] =
                           IF disk[n].unit THEN "waiting" ELSE "released"]
        /\ guests' = [guests EXCEPT ![n] = FALSE] /\ starts' = [starts EXCEPT ![n] = 0]
        /\ UNCHANGED <<owner, running, vms, state, disk, fenced>>
    BY <1>3 DEF Reboot
  <2>3. PhaseOf(m)' /\ BootOf(m)' BY <2>1, <2>2
  <2>4. HostOf(m)' /\ RollbackOf(m)' BY <2>1, <2>2
  <2>5. OwnerOf(m)' /\ StartsOf(m)' /\ GuestsOf(m)' BY <2>1, <2>2
  <2> HIDE DEF PhaseOf, BootOf, HostOf, RollbackOf, OwnerOf, StartsOf, GuestsOf
  <2> QED BY <2>3, <2>4, <2>5
<1>4. CASE BootRefused(n) BY <1>4 DEF BootRefused
<1>5. CASE MoveOwner(n) BY <1>5 DEF MoveOwner
<1> HIDE DEF NodeInv, NetInv, NetTypeOK
<1> QED BY <1>1, <1>2, <1>3, <1>4, <1>5

LEMMA OperatorSteps ==
    ASSUME NetTypeOK, NetInv, NEW m \in Nodes,
           Verify \/ Fence \/ Unfence \/ UNCHANGED vars
           \/ \E o \in {NoOwner, InitialOwner}, r \in BOOLEAN : Sdn(o, r)
    PROVE  NodeInv(m)'
<1> USE DEF NetTypeOK, NetInv, NodeInv, PhaseOf, BootOf, HostOf, RollbackOf, OwnerOf,
            StartsOf, GuestsOf, Goto, Enter, Leave, Idle, Unlocked, At, KeepRest, guestVars,
            sdnVars, nodeVars, netVars, Committed, TimerActive, Guarded, Role, Filtered,
            RecoveryAllowed, StateRec, DiskRec, HostRec, ProcRec, Roles, Phases,
            States, Disks, Hosts, Procs, GuestUnits
<1>1. CASE Verify BY <1>1 DEF Verify
<1>2. CASE Fence BY <1>2 DEF Fence
<1>3. CASE Unfence BY <1>3 DEF Unfence
<1>4. CASE UNCHANGED vars BY <1>4 DEF vars
<1>5. ASSUME NEW o \in {NoOwner, InitialOwner}, NEW r \in BOOLEAN, Sdn(o, r)
      PROVE  NodeInv(m)'
  <2>1. /\ host'[m].gateway = (host[m].gateway /\ r) /\ host'[m].chains = host[m].chains
        /\ host'[m].guard = host[m].guard /\ host'[m].l2 = host[m].l2
        /\ host'[m].forward = host[m].forward /\ host'[m].bridgeNf = host[m].bridgeNf
        /\ host'[m].mtu = host[m].mtu
    BY <1>5 DEF Sdn
  <2>2. /\ owner' = o /\ running' = r /\ vms = {} /\ fenced = NoOwner
        /\ (r => o # NoOwner) /\ owner \in {NoOwner, InitialOwner}
        /\ running /\ ~r => \A n \in Nodes : state[n].phase \in {"none", "rolled_back"}
        /\ UNCHANGED <<vms, state, disk, timer, service, proc, guestUnit, guests, starts,
                       fenced, boots>>
    BY <1>5 DEF Sdn
  <2>3. PhaseOf(m)' /\ BootOf(m)' BY <2>2
  <2>4. HostOf(m)' /\ RollbackOf(m)' BY <2>1, <2>2
  <2>5. OwnerOf(m)' BY <2>1, <2>2
  <2>6. StartsOf(m)' /\ GuestsOf(m)' BY <2>1, <2>2
  <2> HIDE DEF PhaseOf, BootOf, HostOf, RollbackOf, OwnerOf, StartsOf, GuestsOf
  <2> QED BY <2>3, <2>4, <2>5, <2>6
<1> HIDE DEF NodeInv, NetInv, NetTypeOK
<1> QED BY <1>1, <1>2, <1>3, <1>4, <1>5

LEMMA InvInit == NetInit => NetInv
BY DEF NetInit, NetInv, NodeInv, PhaseOf, BootOf, HostOf, RollbackOf, OwnerOf, StartsOf,
    GuestsOf, NoState, Baseline, Idle, Committed, TimerActive, Guarded, Role, Filtered, At

LEMMA InvNext == NetTypeOK /\ NetInv /\ [NetNext]_vars => NetInv'
<1> SUFFICES ASSUME NetTypeOK, NetInv, [NetNext]_vars, NEW m \in Nodes
             PROVE  NodeInv(m)'
  BY DEF NetInv
<1>1. ASSUME NEW n \in Nodes, NodeNext(n) PROVE NodeInv(m)'
  BY <1>1, PrepareSteps, ReconcileSteps, CommitSteps, RollbackSteps, GuestSteps, FaultSteps
  DEF NodeNext
<1> QED BY <1>1, OperatorSteps DEF NetNext

\* The whole argument of the network, as one invariant of the specification.
THEOREM NetworkInvariant == NetSpec => [](NetTypeOK /\ NetInv)
<1>1. NetInit => NetTypeOK /\ NetInv BY TypeInit, InvInit
<1>2. NetTypeOK /\ NetInv /\ [NetNext]_vars => (NetTypeOK /\ NetInv)'
  BY TypeNext, InvNext
<1> QED BY <1>1, <1>2, PTL DEF NetSpec

(* Whatever fails and whenever, a node that forwards or answers for the     *)
(* gateway does so behind its guards (install before enable, rollback in    *)
(* the opposite order).                                                     *)
THEOREM ForwardsBehindGuards == NetSpec => []GuardsBeforeForwarding
<1>1. NetInv => GuardsBeforeForwarding
  BY DEF NetInv, NodeInv, HostOf, Guarded, GuardsBeforeForwarding
<1> QED BY <1>1, NetworkInvariant, PTL

(* Two nodes never carry the gateway addresses at once, over every          *)
(* interleaving of their reconciles, reboots and manual moves.              *)
THEOREM GatewayIsUnique == NetSpec => []OneGateway
<1>1. NetInv => OneGateway
  BY DEF NetInv, NodeInv, OwnerOf, OneGateway
<1> QED BY <1>1, NetworkInvariant, PTL

(* rollback leaves a node as it found it, also after being interrupted and  *)
(* repeated any number of times.                                            *)
THEOREM RollbackRestores == NetSpec => []RolledBackIsBaseline
<1>1. ASSUME NetTypeOK, NetInv, NEW n \in Nodes, state[n].phase = "rolled_back"
      PROVE  /\ host[n] = [Baseline EXCEPT !.bridgeNf = host[n].bridgeNf]
             /\ ~disk[n].unit /\ timer[n] = 0
  <2>1. host[n] \in HostRec BY <1>1 DEF NetTypeOK, Hosts
  <2>2. /\ host[n].chains = "none" /\ host[n].guard = "none" /\ ~host[n].l2
        /\ ~host[n].gateway /\ ~host[n].forward /\ host[n].mtu = "old"
        /\ ~disk[n].unit /\ timer[n] = 0
    BY <1>1 DEF NetInv, NodeInv, RollbackOf
  <2>3. Baseline \in HostRec BY DEF Baseline, HostRec, Roles
  <2>4. [Baseline EXCEPT !.bridgeNf = host[n].bridgeNf] \in HostRec
    BY <2>1, <2>3 DEF HostRec
  <2>5. \A g, h \in HostRec :
           /\ g.chains = h.chains /\ g.guard = h.guard /\ g.l2 = h.l2 /\ g.gateway = h.gateway
           /\ g.forward = h.forward /\ g.bridgeNf = h.bridgeNf /\ g.mtu = h.mtu
           => g = h
    BY DEF HostRec
  <2>6. host[n] = [Baseline EXCEPT !.bridgeNf = host[n].bridgeNf]
    BY <2>1, <2>2, <2>4, <2>5 DEF Baseline, HostRec
  <2> QED BY <2>2, <2>6
<1>2. NetTypeOK /\ NetInv => RolledBackIsBaseline BY <1>1 DEF RolledBackIsBaseline
<1> QED BY <1>2, NetworkInvariant, PTL

(* No boot starts its on-boot guests twice, however often start-guests is   *)
(* repeated and whatever answer is lost.                                    *)
THEOREM GuestsStartOnce == NetSpec => []GuestsStartOncePerBoot
<1>1. NetInv => GuestsStartOncePerBoot
  BY DEF NetInv, NodeInv, StartsOf, GuestsStartOncePerBoot
<1> QED BY <1>1, NetworkInvariant, PTL

(* Guests only run on a node whose guards and bridge filtering are there.   *)
THEOREM GuestsAreFiltered == NetSpec => []GuestsBehindGuards
<1>1. NetInv => GuestsBehindGuards
  BY DEF NetInv, NodeInv, GuestsOf, Filtered, GuestsBehindGuards
<1> QED BY <1>1, NetworkInvariant, PTL

-----------------------------------------------------------------------------
(* What a step may never do to a committed node, and when it may commit one. *)
Keeps(m) ==
    Committed(m) => /\ Committed(m)' /\ state'[m].op = state[m].op
                    /\ disk'[m].runtime /\ disk'[m].unit = disk[m].unit
Commits(m) == ~Committed(m) /\ Committed(m)' => state[m].boot = boots[m]

\* The steps that write neither state.json nor the installed files.
LEMMA NothingSaved ==
    ASSUME NetInv, NEW m \in Nodes, UNCHANGED <<state, disk>>
    PROVE  Keeps(m) /\ Commits(m)
BY DEF Keeps, Commits, Committed, NetInv, NodeInv, PhaseOf

LEMMA StepKeeps ==
    ASSUME NetTypeOK, NetInv, NEW m \in Nodes, NEW n \in Nodes, NodeNext(n)
    PROVE  Keeps(m) /\ Commits(m)
<1> DEFINE P == Keeps(m) /\ Commits(m)
<1>0. CASE UNCHANGED <<state, disk>> BY <1>0, NothingSaved
<1> USE DEF Keeps, Commits, Committed, NetTypeOK, NetInv, NodeInv, PhaseOf, BootOf, RollbackOf, At, States,
            Disks, StateRec, DiskRec
<1>1. CASE Prepare(n) BY <1>1 DEF Prepare
<1>2. CASE PrepareSave(n)
  <2>1. state[n].phase \in {"none", "rolled_back"} BY <1>2 DEF PrepareSave
  <2>2. /\ state'[n].phase = "preparing" /\ UNCHANGED disk
        /\ \A k \in Nodes \ {n} : state'[k] = state[k]
    BY <1>2, Preparing DEF PrepareSave
  <2> QED BY <2>1, <2>2
<1>3. CASE PrepareEnd(n) BY <1>3 DEF PrepareEnd
<1>4. CASE InstallBootUnit(n) BY <1>4 DEF InstallBootUnit
<1>5. CASE ReconcileEnd(n)
  <2>1. state[n].phase \in {"prepared", "active"} BY <1>5 DEF ReconcileEnd
  <2>2. /\ state'[n].phase = "active" /\ state'[n].pending = state[n].pending
        /\ state'[n].op = state[n].op /\ UNCHANGED disk
        /\ \A k \in Nodes \ {n} : state'[k] = state[k]
    BY <1>5 DEF ReconcileEnd
  <2> QED BY <2>1, <2>2
<1>6. CASE CommitSave(n) BY <1>6 DEF CommitSave
<1>7. CASE Rollback(n) BY <1>7 DEF Rollback, MayRollback
<1>8. CASE ServiceRuns(n) BY <1>8 DEF ServiceRuns, MayRollback
<1>9. CASE RollbackClear(n) BY <1>9 DEF RollbackClear
<1>10. CASE RollbackSave(n) BY <1>10 DEF RollbackSave
<1>11. CASE RollbackEnd(n) BY <1>11 DEF RollbackEnd
<1>12. CASE RecordStarting(n) BY <1>12 DEF RecordStarting
<1>13. CASE RecordOutcome(n) BY <1>13 DEF RecordOutcome
<1> HIDE DEF Keeps, Commits, NetTypeOK, NetInv
<1>14. ASSUME
        \/ ArmTimer(n) \/ PrepareGuards(n) \/ (\E f \in BOOLEAN : PrepareMtu(n, f))
        \/ Activate(n) \/ Reconcile(n) \/ BootReconcile(n) \/ Readiness(n)
        \/ InstallGuards(n) \/ SetAddresses(n) \/ SetForwarding(n) \/ Commit(n)
        \/ CommitStopsTimer(n) \/ TimerFires(n) \/ RollbackGateway(n)
        \/ (\E f \in BOOLEAN : RollbackMtu(n, f)) \/ RollbackForwarding(n)
        \/ RollbackDisarm(n) \/ StartGuests(n) \/ (\E f \in BOOLEAN : StartAll(n, f))
        \/ PveGuestsStarts(n) \/ CreateGuest(n) \/ Fails(n) \/ StartupWaitEnds(n)
        \/ Reboot(n) \/ BootRefused(n) \/ MoveOwner(n)
      PROVE  UNCHANGED <<state, disk>>
  BY <1>14 DEF ArmTimer, PrepareGuards, PrepareMtu, Activate, Reconcile, BootReconcile,
     Readiness, InstallGuards, SetAddresses, SetForwarding, Commit, CommitStopsTimer,
     TimerFires, RollbackGateway, RollbackMtu, RollbackForwarding, RollbackDisarm,
     StartGuests, StartAll, PveGuestsStarts, CreateGuest, Fails, StartupWaitEnds,
     Reboot, BootRefused, MoveOwner, nodeVars, netVars
<1> QED
  BY <1>0, <1>1, <1>2, <1>3, <1>4, <1>5, <1>6, <1>7, <1>8, <1>9, <1>10, <1>11, <1>12, <1>13, <1>14 DEF NodeNext

LEMMA NextKeeps ==
    ASSUME NetTypeOK, NetInv, [NetNext]_vars, NEW m \in Nodes
    PROVE  Keeps(m) /\ Commits(m)
<1>1. ASSUME NEW n \in Nodes, NodeNext(n) PROVE Keeps(m) /\ Commits(m) BY <1>1, StepKeeps
<1>2. ASSUME Verify \/ Fence \/ Unfence \/ UNCHANGED vars
             \/ \E o \in {NoOwner, InitialOwner}, r \in BOOLEAN : Sdn(o, r)
      PROVE  UNCHANGED <<state, disk>>
  BY <1>2 DEF Verify, Fence, Unfence, Sdn, vars, netVars, nodeVars
<1> QED BY <1>1, <1>2, NothingSaved DEF NetNext

(* commit is final: a timer that fired late, a rollback service waiting for *)
(* the lock or a repeated command finds nothing it may undo.                *)
THEOREM CommitIsFinal == NetSpec => CommittedIsNeverUndone
<1>1. NetTypeOK /\ NetInv /\ [NetNext]_vars =>
        [\A n \in Nodes : Committed(n) =>
            /\ Committed(n)' /\ state'[n].op = state[n].op
            /\ disk'[n].runtime /\ disk'[n].unit = disk[n].unit]_vars
  BY NextKeeps DEF Keeps
<1> QED BY <1>1, NetworkInvariant, PTL DEF NetSpec, CommittedIsNeverUndone

(* commit only ever follows a prepare of the same boot, while the timer it  *)
(* armed (or its service) is still there to take the change back.           *)
THEOREM CommitNeedsItsTimer == NetSpec => CommitsUnderItsTimer
<1>1. NetTypeOK /\ NetInv /\ [NetNext]_vars =>
        [\A n \in Nodes : ~Committed(n) /\ Committed(n)' => state[n].boot = boots[n]]_vars
  BY NextKeeps DEF Commits
<1> QED BY <1>1, NetworkInvariant, PTL DEF NetSpec, CommitsUnderItsTimer
=============================================================================
