------------------------- MODULE IsolatedBootstrap -------------------------
(***************************************************************************)
(* The three container bootstraps: isolated_core.py (database and          *)
(* application), isolated_services.py (proxy and SSH gateway, with the     *)
(* optional service validation) and candidate_llm.py (LLM gateway); and    *)
(* AdminBootstrap of isolated_core.py, the one-shot seed that ends with    *)
(* the marker without which the API does not start.                        *)
(*                                                                         *)
(* A bootstrap is a fixed sequence of steps over its roles.  A step may    *)
(* fail before its effect or after it (a command that timed out on the     *)
(* host has still run in the guest), a save of the manifest may fail, and  *)
(* the process may be killed anywhere; nothing is undone or resumed.       *)
(* Operators may start the same command twice: the state directory is the  *)
(* only lock of Bootstrap, and AdminBootstrap has none.                    *)
(***************************************************************************)
EXTENDS Naturals

CONSTANTS Kinds,    \* the bootstraps to follow: "core", "services", "llm"
          Runs      \* processes of one bootstrap; also of AdminBootstrap

VARIABLES
    kind,       \* which bootstrap this behaviour follows
    guest,      \* per role: owner, state, what it has, which services run
    disk,       \* state_dir: the manifest on disk, and a stale temporary
    boot,       \* per run: where Bootstrap.apply() is, its manifest in memory
    admin,      \* per run: where AdminBootstrap.apply() is
    database,   \* "none", "empty", "seeded", "odd" (not the guarded shape), "used"
    seedUnit,   \* 0, or the run whose one-shot unit runs in the guest
    credential, \* the admin's environment file on the application guest
    marker,     \* /etc/pickle/allow-api-start
    api         \* the API service runs

bootstrapVars == <<kind, guest, disk, boot, admin, database, seedUnit,
                   credential, marker, api>>

NoRun == 0

ASSUME BootstrapAssumption == NoRun \notin Runs /\ Kinds \subseteq {"core", "services", "llm"}

AllRoles == {"database", "application", "proxy", "sshgw", "gateway"}

Roles == CASE kind = "core" -> {"database", "application"}
           [] kind = "services" -> {"proxy", "sshgw"}
           [] kind = "llm" -> {"gateway"}

\* The network services a role's packages or units bring.
Service(role) ==
    CASE role = "database" -> "postgresql" [] role = "application" -> "nginx"
      [] role = "proxy" -> "nginx" [] role = "sshgw" -> "sshpiperd"
      [] role = "gateway" -> "llm-gateway"

Position(role, phase) == [role |-> role, phase |-> phase]

\* candidate_llm.py notes its attempt in the first save,
First == CASE kind = "core" -> Position("database", "attempt")
           [] kind = "services" -> Position("proxy", "attempt")
           [] kind = "llm" -> Position("gateway", "create")

\* and keeps no machine identity and no package receipt.
PhaseAfter(phase) ==
    CASE phase = "attempt" -> "create" [] phase = "create" -> "record"
      [] phase = "record" -> "start"
      [] phase = "start" -> IF kind = "llm" THEN "mtu" ELSE "identity"
      [] phase = "identity" -> "mtu" [] phase = "mtu" -> "guard"
      [] phase = "guard" -> "install" [] phase = "install" -> "firewall"
      [] phase = "firewall" -> "unguard"
      [] phase = "unguard" -> IF kind = "llm" THEN "configure" ELSE "receipt"
      [] phase = "receipt" -> "configure" [] phase = "configure" -> "finish"

\* The second role once the first has finished (a database's system identifier
\* comes last), then the end.
RoleAfter(role) ==
    CASE role = "database" -> Position("application", "attempt")
      [] role = "proxy" -> Position("sshgw", "attempt")
      [] role = "sshgw" -> Position("all", "validate")
      [] role \in {"application", "gateway"} -> Position("all", "complete")

\* apply(): what comes after a position.
Following(at) ==
    CASE at.phase = "validate" -> Position("all", "park")
      [] at.phase \in {"park", "complete"} -> Position("all", "complete")
      [] at.phase = "finish" /\ at.role = "database" -> Position("database", "system")
      [] at.phase = "finish" /\ at.role # "database" -> RoleAfter(at.role)
      [] at.phase = "system" -> RoleAfter(at.role)
      [] OTHER -> Position(at.role, PhaseAfter(at.phase))

NoGuest == [owner |-> NoRun, state |-> "absent", has |-> {}, active |-> {}]
NoManifest == [run |-> NoRun, attempted |-> {}, created |-> {}, identified |-> {},
               system |-> FALSE, completed |-> FALSE, partial |-> FALSE, admin |-> FALSE]

BootstrapInit ==
    /\ kind \in Kinds
    /\ guest = [r \in AllRoles |-> NoGuest]
    /\ disk = [manifest |-> NoManifest, temporary |-> FALSE]
    /\ boot = [p \in Runs |-> [pc |-> "new", at |-> First, unwell |-> FALSE,
                               manifest |-> NoManifest]]
    /\ admin = [p \in Runs |-> "new"]
    /\ database = "none"
    /\ seedUnit = NoRun
    /\ credential = FALSE
    /\ marker = FALSE
    /\ api = FALSE

seedVars == <<admin, database, seedUnit, credential, marker, api>>

-----------------------------------------------------------------------------
(***************************************************************************)
(* Bootstrap.apply()                                                       *)
(***************************************************************************)

\* preflight(): no requested container or volume exists in the cluster,
NumbersAreFree == \A r \in AllRoles : guest[r].state = "absent"

\* and no state directory ("do not resume blindly").
Unclaimed == disk.manifest.run = NoRun

Preflight(p) ==
    /\ boot[p].pc = "new"
    /\ NumbersAreFree
    /\ Unclaimed
    /\ boot' = [boot EXCEPT ![p].pc = "preflighted"]
    /\ UNCHANGED <<kind, guest, disk, seedVars>>

\* MUTANT of Claim: mkdir(exist_ok=True).
ClaimAnyway(p) ==
    /\ boot[p].pc = "preflighted"
    /\ LET m == [NoManifest EXCEPT !.run = p,
                    !.attempted = IF kind = "llm" THEN {"gateway"} ELSE {}]
       IN  /\ boot' = [boot EXCEPT ![p].pc = "run", ![p].manifest = m]
           /\ disk' = [disk EXCEPT !.manifest = m]
    /\ UNCHANGED <<kind, guest, seedVars>>

\* mkdir() of the state directory, which one process alone survives, and the
\* first save; killed between the two, it leaves the directory and no guest.
Claim(p) ==
    /\ boot[p].pc = "preflighted"
    /\ IF ~Unclaimed
       THEN /\ boot' = [boot EXCEPT ![p].pc = "ended"]
            /\ UNCHANGED disk
       ELSE LET m == [NoManifest EXCEPT !.run = p,
                         !.attempted = IF kind = "llm" THEN {"gateway"} ELSE {}]
            IN  /\ boot' = [boot EXCEPT ![p].pc = "run", ![p].manifest = m]
                /\ disk' = [disk EXCEPT !.manifest = m]
    /\ UNCHANGED <<kind, guest, seedVars>>

\* owned(): the container's description carries the run.
Owned(p, r) == guest[r].owner = p

At(p) == boot[p].at
Running(p, phases) == boot[p].pc = "run" /\ At(p).phase \in phases

Continue(p) == boot' = [boot EXCEPT ![p].at = Following(@)]
Fail(p) == boot' = [boot EXCEPT ![p].pc = "failed"]

\* What a phase writes to the manifest in memory.
Noted(p) ==
    LET m == boot[p].manifest
        r == At(p).role
    IN  CASE At(p).phase = "attempt" -> [m EXCEPT !.attempted = @ \cup {r}]
          [] At(p).phase = "record" -> [m EXCEPT !.created = @ \cup {r}]
          [] At(p).phase = "identity" -> [m EXCEPT !.identified = @ \cup {r}]
          [] At(p).phase = "system" -> [m EXCEPT !.system = TRUE]
          [] At(p).phase = "complete" -> [m EXCEPT !.completed = TRUE]
          [] OTHER -> m

\* save(): the manifest replaces the one on disk, or the temporary file of a
\* failed save stays and every later save of core and services fails on it.
\* isolated_services.py syncs the directory after the replacement: an error
\* there fails the step with the new file in place.
CanSave == kind = "llm" \/ ~disk.temporary

SaveStep(p) ==
    /\ Running(p, {"attempt", "record", "identity", "receipt", "system", "complete"})
    /\ \/ /\ CanSave
          /\ disk' = [disk EXCEPT !.manifest = Noted(p)]
          /\ boot' = [boot EXCEPT
               ![p].manifest = Noted(p), ![p].at = Following(@),
               ![p].pc = IF At(p).phase = "complete" THEN "ended" ELSE "run"]
       \/ /\ disk' \in {disk, [disk EXCEPT !.temporary = TRUE]} \cup
               (IF CanSave /\ kind = "services" THEN {[disk EXCEPT !.manifest = Noted(p)]} ELSE {})
          /\ boot' = [boot EXCEPT ![p].manifest = Noted(p), ![p].pc = "failed"]
    /\ UNCHANGED <<kind, guest, seedVars>>

\* pct create with the run in the description; it refuses a number in use.
CreateStep(p) ==
    /\ Running(p, {"create"})
    /\ LET r == At(p).role
       IN  \/ /\ guest[r].state = "absent"
              /\ guest' = [guest EXCEPT ![r].owner = p, ![r].state = "stopped"]
              /\ Continue(p) \/ Fail(p)
           \/ /\ Fail(p)
              /\ UNCHANGED guest
    /\ UNCHANGED <<kind, disk, seedVars>>

\* The packages of a role start its service unless policy-rc.d stands in the
\* way; the database's units are masked besides.
Installed(r, g) ==
    [g EXCEPT !.has = @ \cup {"packages"},
              !.active = IF "guard" \in g.has \/ r = "database"
                         THEN @ ELSE @ \cup {Service(r)}]

\* The last phase of a role: database() unmasks and starts PostgreSQL and
\* application() starts nginx, leaving the API disabled;
Opened(r, g) == [g EXCEPT !.active = @ \cup {Service(r)}]

\* the services of the proxy, the SSH gateway and the LLM gateway are disabled
\* and stopped.
Parked(g) == [g EXCEPT !.active = {}]

Effect(r, phase, g) ==
    CASE phase = "start" -> [g EXCEPT !.state = "running"]
      [] phase \in {"mtu", "guard", "firewall"} -> [g EXCEPT !.has = @ \cup {phase}]
      [] phase = "install" -> Installed(r, g)
      [] phase = "unguard" -> [g EXCEPT !.has = @ \ {"guard"}]
      [] phase = "configure" -> [g EXCEPT !.has = @ \cup {"config"}]
      [] phase = "finish" -> IF kind = "core" THEN Opened(r, g) ELSE Parked(g)

\* A step inside the guest.  owned() refuses a container of another run; the
\* application's last step needs the database it has just been told of.
GuestStep(p) ==
    /\ Running(p, {"start", "mtu", "guard", "install", "firewall", "unguard",
                   "configure", "finish"})
    /\ LET r == At(p).role
           phase == At(p).phase
       IN  \/ /\ Owned(p, r)
              /\ guest' = [guest EXCEPT ![r] = Effect(r, phase, @)]
              /\ database' = IF r = "database" /\ phase = "finish"
                             THEN "empty" ELSE database
              /\ \/ (r = "application" /\ phase = "finish" => database = "empty")
                    /\ Continue(p)
                 \/ Fail(p)
           \/ /\ Fail(p)
              /\ UNCHANGED <<guest, database>>
    /\ UNCHANGED <<kind, disk, admin, seedUnit, credential, marker, api>>

\* validate_services(), if asked for: the parked services are started and
\* probed, then parked again whatever the start or the probes answered.  A
\* guest whose clean-up failed keeps what it runs, and any failure ends the
\* bootstrap.
ValidateStep(p) ==
    /\ Running(p, {"validate"})
    /\ \E started \in SUBSET {"proxy", "sshgw"}, unwell \in BOOLEAN :
         /\ guest' = [r \in AllRoles |-> IF r \in started
                        THEN [guest[r] EXCEPT !.active = {Service(r)}] ELSE guest[r]]
         /\ boot' = [boot EXCEPT ![p].unwell = unwell, ![p].at = Following(@)]
    /\ UNCHANGED <<kind, disk, seedVars>>

ParkStep(p) ==
    /\ Running(p, {"park"})
    /\ \E parked \in SUBSET {"proxy", "sshgw"} :
         /\ guest' = [r \in AllRoles |-> IF r \in parked
                        THEN Parked(guest[r]) ELSE guest[r]]
         /\ IF boot[p].unwell \/ parked # {"proxy", "sshgw"}
            THEN Fail(p) ELSE Continue(p)
    /\ UNCHANGED <<kind, disk, seedVars>>

\* The handler of any exception: the partial boundary is saved if it can be.
\* candidate_llm.py first stops the guest it can still prove to be its own.
FailureStep(p) ==
    /\ boot[p].pc = "failed"
    /\ LET m == [boot[p].manifest EXCEPT !.partial = TRUE,
                   !.completed = @ /\ kind # "llm"]
       IN  \/ CanSave /\ disk' = [disk EXCEPT !.manifest = m]
           \/ UNCHANGED disk
    /\ guest' \in {guest} \cup
         (IF kind = "llm" /\ Owned(p, "gateway")
          THEN {[guest EXCEPT !["gateway"].state = "stopped", !["gateway"].active = {}]}
          ELSE {})
    /\ boot' = [boot EXCEPT ![p].pc = "ended"]
    /\ UNCHANGED <<kind, seedVars>>

BootKilled(p) ==
    /\ boot[p].pc \in {"preflighted", "run", "failed"}
    /\ boot' = [boot EXCEPT ![p].pc = "ended"]
    /\ UNCHANGED <<kind, guest, disk, seedVars>>

-----------------------------------------------------------------------------
(***************************************************************************)
(* AdminBootstrap.apply(), once the core guests are complete               *)
(***************************************************************************)
bootVars == <<kind, guest, boot>>

AdminAt(p, pc) == admin[p] = pc
AdminGoto(p, pc) == admin' = [admin EXCEPT ![p] = pc]

\* load_manifest() and preflight(): the completed manifest with both machine
\* identities and the database's, the API stopped, no marker, and a database without tables.
AdminPreflight(p) ==
    /\ AdminAt(p, "new") /\ kind = "core"
    /\ disk.manifest.completed
    /\ disk.manifest.system
    /\ disk.manifest.identified = {"database", "application"}
    /\ \A r \in {"database", "application"} : guest[r].owner = disk.manifest.run
    /\ ~api /\ ~marker
    /\ database = "empty"
    /\ AdminGoto(p, "credential")
    /\ UNCHANGED <<bootVars, disk, database, seedUnit, credential, marker, api>>

\* The credential is pushed unless one is there; a push or a chmod that
\* fails leaves the file, and no later run passes this guard.
AdminCredential(p) ==
    /\ AdminAt(p, "credential")
    /\ \/ /\ ~credential
          /\ credential' = TRUE
          /\ AdminGoto(p, "launch") \/ AdminGoto(p, "ended")
       \/ /\ AdminGoto(p, "ended")
          /\ UNCHANGED credential
    /\ UNCHANGED <<bootVars, disk, database, seedUnit, marker, api>>

\* systemd-run refuses a unit name in use and a missing environment file.
AdminLaunch(p) ==
    /\ AdminAt(p, "launch")
    /\ \/ /\ seedUnit = NoRun /\ credential
          /\ seedUnit' = p
          /\ AdminGoto(p, "wait")
       \/ /\ AdminGoto(p, "withdraw")
          /\ UNCHANGED seedUnit
    /\ UNCHANGED <<bootVars, disk, database, credential, marker, api>>

\* The application's one-shot: under its own lock it refuses a database with
\* rows; it may fail, and what it leaves may not be the guarded shape.
SeedEnds ==
    /\ seedUnit # NoRun
    /\ LET p == seedUnit
       IN  \E ok \in BOOLEAN :
             /\ database' \in (IF database # "empty" THEN {database}
                               ELSE IF ok THEN {"seeded", "odd"} ELSE {"empty", "odd"})
             /\ ok => database = "empty"
             /\ admin' = IF AdminAt(p, "wait")
                         THEN [admin EXCEPT ![p] = IF ok THEN "seeded" ELSE "withdraw"]
                         ELSE admin
    /\ seedUnit' = NoRun
    /\ UNCHANGED <<bootVars, disk, credential, marker, api>>

\* The host gives up after 300 s; the unit goes on in the guest.
AdminTimeout(p) ==
    /\ AdminAt(p, "wait")
    /\ AdminGoto(p, "withdraw")
    /\ UNCHANGED <<bootVars, disk, database, seedUnit, credential, marker, api>>

\* finally: the credential is removed whatever the one-shot did.
AdminWithdraw(p) ==
    /\ admin[p] \in {"seeded", "withdraw"}
    /\ \/ /\ credential' = FALSE
          /\ AdminGoto(p, IF AdminAt(p, "seeded") THEN "postcheck" ELSE "ended")
       \/ /\ AdminGoto(p, "ended")
          /\ UNCHANGED credential
    /\ UNCHANGED <<bootVars, disk, database, seedUnit, marker, api>>

\* postcheck(): exactly the guarded rows, and the API still stopped.
Postcheck == database = "seeded" /\ ~api

AdminPostcheck(p) ==
    /\ AdminAt(p, "postcheck")
    /\ AdminGoto(p, IF Postcheck THEN "save" ELSE "ended")
    /\ UNCHANGED <<bootVars, disk, database, seedUnit, credential, marker, api>>

AdminSave(p) ==
    /\ AdminAt(p, "save")
    /\ \/ /\ disk' = [disk EXCEPT !.manifest.admin = TRUE]
          /\ AdminGoto(p, "mark")
       \/ /\ AdminGoto(p, "ended")
          /\ UNCHANGED disk
    /\ UNCHANGED <<bootVars, database, seedUnit, credential, marker, api>>

AdminMark(p) ==
    /\ AdminAt(p, "mark")
    /\ marker' \in {marker, TRUE}
    /\ AdminGoto(p, "ended")
    /\ UNCHANGED <<bootVars, disk, database, seedUnit, credential, api>>

AdminKilled(p) ==
    /\ admin[p] \notin {"new", "ended"}
    /\ AdminGoto(p, "ended")
    /\ UNCHANGED <<bootVars, disk, database, seedUnit, credential, marker, api>>

\* An operator starts the API: its unit has ConditionPathExists on the marker.
ApiStarts ==
    /\ marker /\ ~api
    /\ api' = TRUE
    /\ database' = "used"
    /\ UNCHANGED <<bootVars, disk, admin, seedUnit, credential, marker>>

BootNext(p) ==
    \/ Preflight(p) \/ Claim(p)
    \/ SaveStep(p) \/ CreateStep(p) \/ GuestStep(p)
    \/ ValidateStep(p) \/ ParkStep(p)
    \/ FailureStep(p) \/ BootKilled(p)

AdminNext(p) ==
    \/ AdminPreflight(p) \/ AdminCredential(p) \/ AdminLaunch(p) \/ AdminTimeout(p)
    \/ AdminWithdraw(p) \/ AdminPostcheck(p) \/ AdminSave(p) \/ AdminMark(p)
    \/ AdminKilled(p)

BootstrapNext ==
    \/ \E p \in Runs : BootNext(p) \/ AdminNext(p)
    \/ SeedEnds
    \/ ApiStarts

BootstrapSpec == BootstrapInit /\ [][BootstrapNext]_bootstrapVars

-----------------------------------------------------------------------------
\* The manifest on disk names the run and, before it exists, every container
\* that carries the run's description (runbook: "attempted" also holds the
\* numbers that failed half way).
EveryGuestIsKnown ==
    \A r \in AllRoles : guest[r].state # "absent" =>
        guest[r].owner = disk.manifest.run /\ r \in disk.manifest.attempted

\* No service the bootstrap brings runs in a guest without its input policy,
\* and PostgreSQL never without its TLS and HBA files.
NothingListensUnguarded ==
    \A r \in AllRoles : guest[r].active # {} =>
        "firewall" \in guest[r].has /\ "config" \in guest[r].has

\* A completed bootstrap stands on guests that finished every phase, with the
\* proxy, SSH gateway and LLM gateway parked.
CompletedIsWhole ==
    disk.manifest.completed =>
        \A r \in Roles :
          LET g == guest[r]
          IN  /\ {"mtu", "packages", "firewall", "config"} \subseteq g.has
              /\ "guard" \notin g.has
              /\ kind \in {"services", "llm"} => g.active = {}

\* The API can start only on a database that a seed brought to the guarded
\* shape, and after the manifest on disk says so, even when a second run is
\* under way or a one-shot outlived the run that launched it.
MarkerFollowsSeed ==
    marker => /\ disk.manifest.admin
              /\ database \in {"seeded", "used"}
              /\ api <=> database = "used"

\* Whatever fails, times out, is killed or is started twice, a bootstrap stays
\* within its containers, its firewall and its marker (the four formulas
\* above).
BootstrapIsContained ==
    EveryGuestIsKnown /\ NothingListensUnguarded /\ CompletedIsWhole /\ MarkerFollowsSeed
=============================================================================
