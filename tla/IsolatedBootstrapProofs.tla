---------------------- MODULE IsolatedBootstrapProofs ----------------------
(***************************************************************************)
(* The container bootstraps stay within their containers, their firewall   *)
(* and their marker, for every number of processes started by operators    *)
(* and wherever they fail, time out or are killed.                         *)
(***************************************************************************)
EXTENDS IsolatedBootstrap, TLAPS

-----------------------------------------------------------------------------
(* Types.                                                                  *)

Owners == Runs \cup {NoRun}
Names == {"attempt", "create", "record", "start", "identity", "mtu", "guard", "install",
          "firewall", "unguard", "receipt", "configure", "finish", "system"}
GuestT == [owner : Owners, state : {"absent", "stopped", "running"},
           has : SUBSET {"mtu", "guard", "packages", "firewall", "config"},
           active : SUBSET {Service(r) : r \in AllRoles}]
ManifestT == [run : Owners, attempted : SUBSET AllRoles, created : SUBSET AllRoles,
              identified : SUBSET AllRoles, system : BOOLEAN, completed : BOOLEAN,
              partial : BOOLEAN, admin : BOOLEAN]
DiskT == [manifest : ManifestT, temporary : BOOLEAN]
PositionT == [role : AllRoles \cup {"all"}, phase : Names \cup {"validate", "park", "complete"}]
BootT == [pc : {"new", "preflighted", "run", "failed", "ended"}, at : PositionT,
          unwell : BOOLEAN, manifest : ManifestT]
AdminPcs == {"new", "credential", "launch", "wait", "seeded", "withdraw", "postcheck", "save",
             "mark", "ended"}

Types ==
    /\ kind \in {"core", "services", "llm"} /\ guest \in [AllRoles -> GuestT] /\ disk \in DiskT
    /\ boot \in [Runs -> BootT] /\ admin \in [Runs -> AdminPcs]
    /\ marker \in BOOLEAN /\ api \in BOOLEAN

-----------------------------------------------------------------------------
(* Where a bootstrap is, and what its guests have by then.                 *)

\* The positions of this kind of bootstrap.
Placed(at) ==
    \/ at.role \in Roles /\ at.phase \in Names /\ (at.phase = "system" => at.role = "database")
    \/ at = Position("all", "complete")
    \/ kind = "services" /\ at \in {Position("all", "validate"), Position("all", "park")}

\* What a guest has when its bootstrap comes to a phase.
Has(g, phase) ==
    /\ phase = "install" => "guard" \in g.has
    /\ phase \in {"finish"} => "config" \in g.has
    /\ phase \in {"receipt", "configure", "finish"} => "guard" \notin g.has
    /\ phase \in {"unguard", "receipt", "configure", "finish"} => "firewall" \in g.has
    /\ phase \in {"firewall", "unguard", "receipt", "configure", "finish"} => "packages" \in g.has
    /\ phase \in {"guard", "install", "firewall", "unguard", "receipt", "configure", "finish"}
         => "mtu" \in g.has

Whole(g) == {"mtu", "packages", "firewall", "config"} \subseteq g.has /\ "guard" \notin g.has
WholeAll == \A r \in Roles : Whole(guest[r]) /\ (kind # "core" => guest[r].active = {})

\* The roles that are behind a bootstrap.
Behind(at) ==
    IF at.role = "all" THEN Roles
    ELSE IF at.role = "application" \/ at.phase = "system" THEN {"database"}
    ELSE IF at.role = "sshgw" THEN {"proxy"} ELSE {}

Progress(at) ==
    /\ at.role # "all" =>
         /\ at.phase # "attempt" => at.role \in disk.manifest.attempted
         /\ Has(guest[at.role], at.phase)
    /\ \A r \in Behind(at) :
         Whole(guest[r]) /\ (kind # "core" /\ at.phase # "park" => guest[r].active = {})

-----------------------------------------------------------------------------
(* The inductive invariant.                                                *)

\* One process at a time is inside, and the manifest on disk is its own.
LockInv == \A p \in Runs : boot[p].pc \in {"run", "failed"} =>
              disk.manifest.run = p /\ boot[p].manifest.run = p

StartOK(b) == b.pc \in {"new", "preflighted"} => b.at = First
RunOK(b) ==
    b.pc = "run" => /\ disk.manifest = b.manifest /\ ~b.manifest.completed
                    /\ Placed(b.at) /\ Progress(b.at)
FailOK(b) ==
    b.pc = "failed" => /\ disk.manifest.attempted \subseteq b.manifest.attempted
                       /\ b.manifest.completed => WholeAll
                       /\ kind = "core" => ~disk.manifest.completed
RunsInv == \A p \in Runs : StartOK(boot[p]) /\ RunOK(boot[p]) /\ FailOK(boot[p])

\* What carries a run's description is in the manifest.
KnownInv ==
    \A r \in AllRoles :
        IF guest[r].owner = NoRun THEN guest[r].state = "absent"
        ELSE guest[r].owner = disk.manifest.run /\ r \in disk.manifest.attempted

DiskInv ==
    /\ disk.manifest.completed => WholeAll /\ disk.manifest.run # NoRun
    /\ disk.manifest.run = NoRun => \A r \in AllRoles : guest[r].owner = NoRun

\* The seed begins when the core is complete, and its order is kept.
SeedInv ==
    /\ (\/ \E p \in Runs : admin[p] # "new"
        \/ seedUnit # NoRun \/ marker \/ api) => kind = "core" /\ disk.manifest.completed
    /\ \A p \in Runs : /\ admin[p] \in {"save", "mark"} => database \in {"seeded", "used"}
                       /\ admin[p] = "mark" => disk.manifest.admin
    /\ marker => disk.manifest.admin /\ database \in {"seeded", "used"}
    /\ api <=> database = "used"
    /\ api => marker

BootInv == Types /\ LockInv /\ RunsInv /\ KnownInv /\ DiskInv /\ NothingListensUnguarded /\ SeedInv

-----------------------------------------------------------------------------
(* Positions.                                                              *)

LEMMA FirstPlaced ==
    ASSUME kind \in {"core", "services", "llm"}
    PROVE  /\ First \in PositionT /\ Placed(First) /\ Behind(First) = {}
           /\ First.role \in AllRoles
           /\ \A g : Has(g, First.phase)
           /\ First.phase # "attempt" => kind = "llm" /\ First.role = "gateway"
BY DEF First, Position, PositionT, Placed, Behind, Has, Roles, AllRoles, Names

LEMMA RoleTypes ==
    ASSUME kind \in {"core", "services", "llm"}
    PROVE  Roles \subseteq AllRoles /\ "all" \notin AllRoles
BY DEF Roles, AllRoles

LEMMA PositionType ==
    ASSUME kind \in {"core", "services", "llm"}, NEW at, Placed(at), at \in PositionT
    PROVE  at.role # "all" => at.role \in Roles /\ at.phase \in Names
BY DEF Placed, Position

\* Inside a role's phases.
LEMMA NextPhase ==
    ASSUME kind \in {"core", "services", "llm"}, NEW at \in PositionT, Placed(at), at.role # "all",
           at.phase \notin {"finish", "system"}
    PROVE  LET f == Following(at) IN
           /\ f \in PositionT /\ Placed(f) /\ f.role = at.role /\ f.phase = PhaseAfter(at.phase)
           /\ f.phase \in Names \ {"attempt", "system"} /\ Behind(f) = Behind(at)
           /\ at.role \notin Behind(at)
<1>1. at.role \in Roles /\ at.phase \in Names /\ at.role \in AllRoles
  BY PositionType, RoleTypes
<1>2. PhaseAfter(at.phase) \in Names \ {"attempt", "system"}
  BY <1>1 DEF PhaseAfter, Names
<1>3. Following(at) = Position(at.role, PhaseAfter(at.phase))
  BY <1>1 DEF Following, Names
<1>4. /\ Following(at) \in PositionT /\ Following(at).role = at.role
      /\ Following(at).phase = PhaseAfter(at.phase)
  BY <1>1, <1>2, <1>3 DEF Position, PositionT
<1>5. Placed(Following(at))
  BY <1>1, <1>2, <1>4 DEF Placed
<1>6. Behind(Following(at)) = Behind(at) /\ at.role \notin Behind(at)
  BY <1>1, <1>2, <1>4 DEF Behind
<1> QED BY <1>2, <1>4, <1>5, <1>6

\* Past a role's last phase.
LEMMA NextRole ==
    ASSUME kind \in {"core", "services", "llm"}, NEW at \in PositionT, Placed(at), at.role # "all",
           at.phase \in {"finish", "system"}
    PROVE  LET f == Following(at) IN
           /\ f \in PositionT /\ Placed(f) /\ f.phase # "park"
           /\ Behind(f) = Behind(at) \cup {at.role}
           /\ f.role # "all" => f.phase \in {"attempt", "system"}
           /\ f.phase = "system" => f.role = at.role
           /\ \A g : f.role # "all" => Has(g, f.phase)
<1>1. at.role \in Roles /\ (at.phase = "system" => at.role = "database")
  BY DEF Placed, Position
<1>2. CASE kind = "core"
  <2>1. at.role \in {"database", "application"} BY <1>1, <1>2 DEF Roles
  <2>2. CASE at.role = "database" /\ at.phase = "finish"
    <3>1. Following(at) = [role |-> "database", phase |-> "system"]
      BY <2>2 DEF Following, Position
    <3> QED BY <1>2, <2>2, <3>1 DEF PositionT, Placed, Behind, Has, Names, AllRoles, Roles
  <2>3. CASE at.role = "database" /\ at.phase = "system"
    <3>1. Following(at) = [role |-> "application", phase |-> "attempt"]
      BY <2>3 DEF Following, RoleAfter, Position
    <3> QED BY <1>2, <2>3, <3>1 DEF PositionT, Placed, Behind, Has, Names, AllRoles, Roles
  <2>4. CASE at.role = "application"
    <3>1. Following(at) = [role |-> "all", phase |-> "complete"]
      BY <1>1, <2>4 DEF Following, RoleAfter, Position
    <3> QED BY <1>1, <1>2, <2>4, <3>1 DEF PositionT, Placed, Behind, Has, Position, Roles
  <2> QED BY <2>1, <2>2, <2>3, <2>4
<1>3. CASE kind = "services"
  <2>1. at.role \in {"proxy", "sshgw"} /\ at.phase = "finish" BY <1>1, <1>3 DEF Roles
  <2>2. CASE at.role = "proxy"
    <3>1. Following(at) = [role |-> "sshgw", phase |-> "attempt"]
      BY <2>1, <2>2 DEF Following, RoleAfter, Position
    <3> QED BY <1>3, <2>1, <2>2, <3>1 DEF PositionT, Placed, Behind, Has, Names, AllRoles, Roles
  <2>3. CASE at.role = "sshgw"
    <3>1. Following(at) = [role |-> "all", phase |-> "validate"]
      BY <2>1, <2>3 DEF Following, RoleAfter, Position
    <3> QED BY <1>3, <2>1, <2>3, <3>1 DEF PositionT, Placed, Behind, Has, Position, Roles
  <2> QED BY <2>1, <2>2, <2>3
<1>4. CASE kind = "llm"
  <2>1. at.role = "gateway" /\ at.phase = "finish" BY <1>1, <1>4 DEF Roles
  <2>2. Following(at) = [role |-> "all", phase |-> "complete"]
    BY <2>1 DEF Following, RoleAfter, Position
  <2> QED BY <1>4, <2>1, <2>2 DEF PositionT, Placed, Behind, Has, Position, Roles
<1> QED BY <1>2, <1>3, <1>4

-----------------------------------------------------------------------------
(* Frames.                                                                 *)

LEMMA Initially == BootstrapInit => BootInv
<1> SUFFICES ASSUME BootstrapInit PROVE BootInv OBVIOUS
<1>1. kind \in {"core", "services", "llm"}
  BY BootstrapAssumption DEF BootstrapInit
<1>2. NoGuest \in GuestT /\ NoGuest.owner = NoRun /\ NoGuest.state = "absent" /\ NoGuest.active = {}
  BY DEF NoGuest, GuestT, Owners
<1>3. NoManifest \in ManifestT /\ NoManifest.run = NoRun /\ ~NoManifest.completed
  BY DEF NoManifest, ManifestT, Owners
<1>4. /\ \A r \in AllRoles : guest[r] = NoGuest
      /\ \A p \in Runs : boot[p].pc = "new" /\ boot[p].at = First /\ admin[p] = "new"
      /\ disk.manifest = NoManifest
  BY DEF BootstrapInit
<1>5. Types
  BY <1>1, <1>2, <1>3, FirstPlaced DEF BootstrapInit, Types, DiskT, BootT, AdminPcs
<1>6. LockInv /\ RunsInv
  BY <1>4 DEF LockInv, RunsInv, StartOK, RunOK, FailOK
<1>7. KnownInv /\ DiskInv /\ NothingListensUnguarded
  BY <1>2, <1>3, <1>4 DEF KnownInv, DiskInv, NothingListensUnguarded
<1>8. SeedInv
  BY <1>4 DEF BootstrapInit, SeedInv
<1> QED BY <1>5, <1>6, <1>7, <1>8 DEF BootInv

\* While a process is inside, no other is, and nothing of the seed has begun.
LEMMA SoleRun ==
    ASSUME BootInv, NEW p \in Runs, boot[p].pc \in {"run", "failed"}
    PROVE  /\ disk.manifest.run = p /\ boot[p].manifest.run = p /\ p # NoRun
           /\ \A q \in Runs : q # p => boot[q].pc \notin {"run", "failed"}
           /\ ~(kind = "core" /\ disk.manifest.completed)
           /\ \A q \in Runs : admin[q] = "new"
           /\ seedUnit = NoRun /\ ~marker /\ ~api
<1>1. disk.manifest.run = p /\ boot[p].manifest.run = p /\ p # NoRun
      /\ \A q \in Runs : q # p => boot[q].pc \notin {"run", "failed"}
  BY BootstrapAssumption DEF BootInv, LockInv
<1>2. ~(kind = "core" /\ disk.manifest.completed)
  BY DEF BootInv, RunsInv, RunOK, FailOK
<1> QED BY <1>1, <1>2 DEF BootInv, SeedInv

\* A step of the process inside, with what is to be shown of it.
LEMMA InsideStep ==
    ASSUME BootInv, NEW p \in Runs, boot[p].pc \in {"run", "failed"}, NEW b \in BootT,
           boot' = [boot EXCEPT ![p] = b], b.pc \in {"run", "failed", "ended"},
           kind' = kind, guest' \in [AllRoles -> GuestT], disk' \in DiskT,
           UNCHANGED <<admin, seedUnit, marker, api>>, database' \in {database, "empty"},
           disk'.manifest.run = p, b.manifest.run = p, RunOK(b)', FailOK(b)',
           KnownInv', disk'.manifest.completed => WholeAll', NothingListensUnguarded'
    PROVE  BootInv'
<1>0. Types /\ RunsInv /\ SeedInv BY DEF BootInv
<1>1. /\ \A q \in Runs : q # p => boot'[q] = boot[q]
      /\ boot'[p] = b /\ boot' \in [Runs -> BootT]
  BY <1>0 DEF Types
<1>2. Types' BY <1>0, <1>1 DEF Types
<1>3. \A q \in Runs : q # p => boot'[q].pc \notin {"run", "failed"}
  BY <1>1, SoleRun
<1>4. LockInv' BY <1>1, <1>3 DEF LockInv
<1>5. RunsInv'
  <2> SUFFICES ASSUME NEW q \in Runs
               PROVE  (StartOK(boot[q]) /\ RunOK(boot[q]) /\ FailOK(boot[q]))'
    BY DEF RunsInv
  <2>1. CASE q = p
    BY <1>1, <2>1 DEF StartOK, RunOK, FailOK
  <2>2. CASE q # p
    <3>1. boot'[q].pc \notin {"run", "failed"} /\ boot'[q] = boot[q] BY <1>1, <1>3, <2>2
    <3>2. StartOK(boot[q]) BY <1>0 DEF RunsInv
    <3>3. First' = First BY DEF First
    <3>4. StartOK(boot[q])' BY <3>1, <3>2, <3>3 DEF StartOK
    <3> QED BY <3>1, <3>4 DEF RunOK, FailOK
  <2> QED BY <2>1, <2>2
<1>6. DiskInv' BY SoleRun DEF DiskInv
<1>7. SeedInv' BY <1>0, SoleRun DEF SeedInv
<1> QED BY <1>2, <1>4, <1>5, <1>6, <1>7 DEF BootInv

\* A process outside moves, or one inside leaves.
LEMMA OutsideStep ==
    ASSUME BootInv, NEW p \in Runs, NEW b \in BootT, boot' = [boot EXCEPT ![p] = b],
           b.pc \in {"preflighted", "ended"}, StartOK(b), UNCHANGED <<kind, guest, disk, seedVars>>
    PROVE  BootInv'
<1>0. Types /\ RunsInv /\ LockInv BY DEF BootInv
<1>1. /\ \A q \in Runs : q # p => boot'[q] = boot[q]
      /\ boot'[p] = b /\ boot' \in [Runs -> BootT]
  BY <1>0 DEF Types
<1>2. Types' BY <1>0, <1>1 DEF Types, seedVars
<1>3. LockInv' BY <1>0, <1>1 DEF LockInv
<1>4. RunsInv'
  <2>1. First' = First BY DEF First
  <2>2. StartOK(b)' BY <2>1 DEF StartOK
  <2>3. ASSUME NEW c
        PROVE  (StartOK(c) <=> StartOK(c)') /\ (RunOK(c) <=> RunOK(c)') /\ (FailOK(c) <=> FailOK(c)')
    BY <2>1 DEF StartOK, RunOK, FailOK, Placed, Progress, WholeAll, Behind, Roles
  <2>4. \A q \in Runs : q # p => (StartOK(boot[q]) /\ RunOK(boot[q]) /\ FailOK(boot[q]))'
    BY <1>0, <1>1, <2>3 DEF RunsInv
  <2>5. (StartOK(boot[p]) /\ RunOK(boot[p]) /\ FailOK(boot[p]))'
    BY <1>1, <2>2 DEF StartOK, RunOK, FailOK
  <2> QED BY <2>4, <2>5 DEF RunsInv
<1>5. KnownInv' /\ DiskInv' /\ NothingListensUnguarded' /\ SeedInv'
  BY DEF BootInv, KnownInv, DiskInv, WholeAll, Roles, NothingListensUnguarded, SeedInv, seedVars
<1> QED BY <1>2, <1>3, <1>4, <1>5 DEF BootInv

-----------------------------------------------------------------------------
(* The process inside goes on.                                             *)

LEMMA KindStays ==
    ASSUME kind' = kind
    PROVE  /\ Roles' = Roles /\ First' = First
           /\ \A at : (Placed(at)' <=> Placed(at)) /\ Behind(at)' = Behind(at)
<1>1. Roles' = Roles BY DEF Roles
<1> QED BY <1>1 DEF First, Placed, Behind

\* What is known of the process inside.
LEMMA AtRun ==
    ASSUME BootInv, NEW p \in Runs, boot[p].pc = "run"
    PROVE  /\ kind \in {"core", "services", "llm"} /\ guest \in [AllRoles -> GuestT]
           /\ disk \in DiskT /\ boot[p] \in BootT /\ boot[p].at \in PositionT
           /\ boot[p].manifest \in ManifestT /\ boot[p].unwell \in BOOLEAN
           /\ disk.manifest = boot[p].manifest
           /\ ~boot[p].manifest.completed /\ Placed(boot[p].at) /\ Progress(boot[p].at)
           /\ boot[p].manifest.run = p /\ disk.manifest.run = p /\ p # NoRun
<1>1. kind \in {"core", "services", "llm"} /\ guest \in [AllRoles -> GuestT] /\ disk \in DiskT
      /\ boot[p] \in BootT
  BY DEF BootInv, Types
<1>2. RunOK(boot[p]) BY DEF BootInv, RunsInv
<1> QED BY <1>1, <1>2, SoleRun DEF RunOK, BootT

LEMMA WithinRole ==
    ASSUME BootInv, NEW p \in Runs, boot[p].pc = "run", NEW at, at = boot[p].at, at.role # "all",
           at.phase \notin {"finish", "system"}, NEW f, f = Following(at), kind' = kind,
           \A r \in AllRoles : r # at.role => guest'[r] = guest[r],
           Has(guest'[at.role], PhaseAfter(at.phase)), at.role \in disk'.manifest.attempted
    PROVE  f \in PositionT /\ Placed(f)' /\ Progress(f)'
<1>1. at \in PositionT /\ Placed(at) /\ Progress(at) /\ kind \in {"core", "services", "llm"}
  BY AtRun
<1>2. /\ f \in PositionT /\ Placed(f) /\ f.role = at.role /\ f.phase = PhaseAfter(at.phase)
      /\ f.phase # "park" /\ Behind(f) = Behind(at) /\ at.role \notin Behind(at)
  BY <1>1, NextPhase DEF Names
<1>3. Placed(f)' /\ Behind(f)' = Behind(at)
  BY <1>2, KindStays
<1>4. Behind(at) \subseteq AllRoles /\ at.phase # "park"
  BY <1>1, RoleTypes, PositionType DEF Behind, AllRoles, Names
<1>5. \A r \in Behind(at) : Whole(guest'[r]) /\ (kind # "core" => guest'[r].active = {})
  BY <1>1, <1>2, <1>4 DEF Progress
<1> QED BY <1>2, <1>3, <1>5 DEF Progress

LEMMA PastRole ==
    ASSUME BootInv, NEW p \in Runs, boot[p].pc = "run", NEW at, at = boot[p].at, at.role # "all",
           at.phase \in {"finish", "system"}, NEW f, f = Following(at), kind' = kind,
           \A r \in AllRoles : r # at.role => guest'[r] = guest[r],
           Whole(guest'[at.role]), kind # "core" => guest'[at.role].active = {},
           at.role \in disk'.manifest.attempted
    PROVE  f \in PositionT /\ Placed(f)' /\ Progress(f)'
<1>1. at \in PositionT /\ Placed(at) /\ Progress(at) /\ kind \in {"core", "services", "llm"}
  BY AtRun
<1>2. /\ f \in PositionT /\ Placed(f) /\ f.phase # "park" /\ Behind(f) = Behind(at) \cup {at.role}
      /\ f.role # "all" => f.phase \in {"attempt", "system"}
      /\ f.phase = "system" => f.role = at.role
      /\ f.role # "all" => Has(guest'[f.role], f.phase)
  BY <1>1, NextRole
<1>3. Placed(f)' /\ Behind(f)' = Behind(at) \cup {at.role}
  BY <1>2, KindStays
<1>4. Behind(at) \subseteq AllRoles
  BY <1>1, RoleTypes DEF Behind, AllRoles
<1>5. \A r \in Behind(at) \cup {at.role} :
         Whole(guest'[r]) /\ (kind # "core" => guest'[r].active = {})
  BY <1>1, <1>4 DEF Progress
<1>6. f.role # "all" /\ f.phase # "attempt" => f.role \in disk'.manifest.attempted
  BY <1>2
<1> QED BY <1>2, <1>3, <1>5, <1>6 DEF Progress

LEMMA WholeAtEnd ==
    ASSUME BootInv, NEW p \in Runs, boot[p].pc = "run", boot[p].at.phase = "complete"
    PROVE  WholeAll /\ boot[p].at.role = "all"
<1>1. Placed(boot[p].at) /\ Progress(boot[p].at)
  BY AtRun
<1>2. boot[p].at.role = "all"
  BY <1>1 DEF Placed, Position, Names
<1> QED BY <1>1, <1>2 DEF Progress, Behind, WholeAll

-----------------------------------------------------------------------------
(* Saves.                                                                  *)

LEMMA NotedFacts ==
    ASSUME BootInv, NEW p \in Runs, boot[p].pc = "run", NEW n, n = Noted(p)
    PROVE  /\ n \in ManifestT /\ n.run = p /\ disk.manifest.attempted \subseteq n.attempted
           /\ At(p).phase = "attempt" => At(p).role \in n.attempted
           /\ At(p).phase # "complete" => ~n.completed
<1> DEFINE m == boot[p].manifest
           r == At(p).role
<1>1. /\ m \in ManifestT /\ m.run = p /\ ~m.completed /\ disk.manifest = m
      /\ Placed(At(p)) /\ At(p) \in PositionT
  BY AtRun DEF At
<1>2. At(p).phase \in {"attempt", "record", "identity"} => r \in AllRoles
  BY <1>1, RoleTypes DEF Placed, Position, PositionT, BootInv, Types
<1>3. CASE At(p).phase = "attempt"
  <2>1. n = [m EXCEPT !.attempted = m.attempted \cup {r}] BY <1>3 DEF Noted
  <2> HIDE DEF m, r
  <2> QED BY <1>1, <1>2, <1>3, <2>1 DEF ManifestT, r
<1>4. CASE At(p).phase = "record"
  <2>1. n = [m EXCEPT !.created = m.created \cup {r}] BY <1>4 DEF Noted
  <2> HIDE DEF m, r
  <2> QED BY <1>1, <1>2, <1>4, <2>1 DEF ManifestT, r
<1>5. CASE At(p).phase = "identity"
  <2>1. n = [m EXCEPT !.identified = m.identified \cup {r}] BY <1>5 DEF Noted
  <2> HIDE DEF m, r
  <2> QED BY <1>1, <1>2, <1>5, <2>1 DEF ManifestT, r
<1>6. CASE At(p).phase = "system"
  <2>1. n = [m EXCEPT !.system = TRUE] BY <1>6 DEF Noted
  <2> HIDE DEF m, r
  <2> QED BY <1>1, <1>6, <2>1 DEF ManifestT
<1>7. CASE At(p).phase = "complete"
  <2>1. n = [m EXCEPT !.completed = TRUE] BY <1>7 DEF Noted
  <2> HIDE DEF m, r
  <2> QED BY <1>1, <1>7, <2>1 DEF ManifestT
<1>8. CASE At(p).phase \notin {"attempt", "record", "identity", "system", "complete"}
  <2>1. n = m BY <1>8 DEF Noted
  <2> QED BY <1>1, <1>8, <2>1
<1> QED BY <1>3, <1>4, <1>5, <1>6, <1>7, <1>8

LEMMA SaveSteps ==
    ASSUME BootInv, NEW p \in Runs, SaveStep(p)
    PROVE  BootInv'
<1> DEFINE Saving == {"attempt", "record", "identity", "receipt", "system", "complete"}
<1>0. boot[p].pc = "run" /\ At(p).phase \in Saving /\ UNCHANGED <<kind, guest, seedVars>>
  BY DEF SaveStep, Running
<1>1. PICK n : n = Noted(p) OBVIOUS
<1>2. PICK at : at = boot[p].at OBVIOUS
<1>3. PICK f : f = Following(at) OBVIOUS
<1>4. /\ n \in ManifestT /\ n.run = p /\ disk.manifest.attempted \subseteq n.attempted
      /\ at.phase = "attempt" => at.role \in n.attempted
      /\ at.phase # "complete" => ~n.completed
  BY <1>0, <1>1, <1>2, NotedFacts DEF At
<1>5. /\ disk \in DiskT /\ boot[p] \in BootT /\ at \in PositionT /\ Placed(at) /\ Progress(at)
      /\ ~disk.manifest.completed /\ disk.manifest.run = p
      /\ at.phase \in Saving /\ kind \in {"core", "services", "llm"}
      /\ guest \in [AllRoles -> GuestT]
  BY <1>0, <1>2, AtRun DEF At
<1>6. at.phase = "complete" => WholeAll
  BY <1>0, <1>2, WholeAtEnd
<1>7. WholeAll' <=> WholeAll
  BY <1>0, KindStays DEF WholeAll
<1>8. NothingListensUnguarded'
  BY <1>0 DEF BootInv, NothingListensUnguarded
<1>9. ASSUME disk'.manifest.run = p, disk.manifest.attempted \subseteq disk'.manifest.attempted
      PROVE  KnownInv'
  BY <1>0, <1>5, <1>9 DEF BootInv, KnownInv
<1>10. CASE /\ disk' = [disk EXCEPT !.manifest = n]
            /\ boot' = [boot EXCEPT ![p].manifest = n, ![p].at = f,
                          ![p].pc = IF at.phase = "complete" THEN "ended" ELSE "run"]
  <2>1. PICK b : b = [boot[p] EXCEPT !.manifest = n, !.at = f,
                        !.pc = IF at.phase = "complete" THEN "ended" ELSE "run"]
    OBVIOUS
  <2>2. boot' = [boot EXCEPT ![p] = b]
    BY <1>10, <2>1 DEF BootInv, Types
  <2>3. disk' \in DiskT /\ disk'.manifest = n
    BY <1>4, <1>5, <1>10 DEF DiskT
  <2>4. f \in PositionT /\ (at.phase # "complete" => Placed(f)' /\ Progress(f)')
    <3>1. CASE at.phase = "complete"
      BY <1>3, <3>1 DEF Following, Position, PositionT
    <3>2. CASE at.phase = "system"
      <4>1. at.role = "database" /\ at.role # "all" /\ at.role \in disk'.manifest.attempted
        BY <1>4, <1>5, <2>3, <3>2 DEF Placed, Position, Progress
      <4>2. "database" \in Behind(at)
        BY <3>2, <4>1 DEF Behind
      <4>3. Whole(guest'[at.role]) /\ (kind # "core" => guest'[at.role].active = {})
        BY <1>0, <1>5, <3>2, <4>1, <4>2 DEF Progress
      <4> QED BY <1>0, <1>2, <1>3, <3>2, <4>1, <4>3, PastRole
    <3>3. CASE at.phase \in {"attempt", "record", "identity", "receipt"}
      <4>1. at.role # "all"
        BY <1>5, <3>3 DEF Placed, Position, Roles
      <4>2. at.role \in disk'.manifest.attempted
        BY <1>4, <1>5, <2>3, <4>1 DEF Progress
      <4>3. Has(guest'[at.role], PhaseAfter(at.phase))
        <5>1. Has(guest[at.role], at.phase) BY <1>5, <4>1 DEF Progress
        <5> QED BY <1>0, <3>3, <5>1 DEF Has, PhaseAfter
      <4> QED BY <1>0, <1>2, <1>3, <3>3, <4>1, <4>2, <4>3, WithinRole
    <3> QED BY <1>5, <3>1, <3>2, <3>3
  <2>5. /\ b \in BootT /\ b.manifest = n /\ b.at = f
        /\ b.pc = IF at.phase = "complete" THEN "ended" ELSE "run"
    BY <1>4, <1>5, <2>1, <2>4 DEF BootT
  <2>6. RunOK(b)' /\ FailOK(b)'
    BY <1>4, <2>3, <2>4, <2>5 DEF RunOK, FailOK
  <2> QED BY <1>0, <1>4, <1>5, <1>6, <1>7, <1>8, <1>9, <2>2, <2>3, <2>5, <2>6, InsideStep DEF seedVars
<1>11. CASE /\ disk' \in {disk, [disk EXCEPT !.temporary = TRUE]} \cup
                  (IF CanSave /\ kind = "services" THEN {[disk EXCEPT !.manifest = n]} ELSE {})
            /\ boot' = [boot EXCEPT ![p].manifest = n, ![p].pc = "failed"]
  <2>1. PICK b : b = [boot[p] EXCEPT !.manifest = n, !.pc = "failed"]
    OBVIOUS
  <2>2. boot' = [boot EXCEPT ![p] = b]
    BY <1>11, <2>1 DEF BootInv, Types
  <2>3. b \in BootT /\ b.manifest = n /\ b.pc = "failed"
    BY <1>4, <1>5, <2>1 DEF BootT
  <2>4. /\ disk' \in DiskT
        /\ disk'.manifest = disk.manifest \/ (kind = "services" /\ disk'.manifest = n)
    <3>1. CASE disk' = disk BY <1>5, <3>1
    <3>2. CASE disk' = [disk EXCEPT !.temporary = TRUE] BY <1>5, <3>2 DEF DiskT
    <3>3. CASE kind = "services" /\ disk' = [disk EXCEPT !.manifest = n]
      BY <1>4, <1>5, <3>3 DEF DiskT
    <3> QED BY <1>11, <3>1, <3>2, <3>3
  <2>5. RunOK(b)' /\ FailOK(b)'
    BY <1>0, <1>4, <1>5, <1>6, <1>7, <2>3, <2>4 DEF RunOK, FailOK
  <2>6. disk'.manifest.run = p /\ disk.manifest.attempted \subseteq disk'.manifest.attempted
        /\ (disk'.manifest.completed => WholeAll')
    BY <1>4, <1>5, <1>6, <1>7, <2>4
  <2> QED BY <1>0, <1>4, <1>5, <1>8, <1>9, <2>2, <2>3, <2>4, <2>5, <2>6, InsideStep DEF seedVars
<1> QED BY <1>1, <1>2, <1>3, <1>10, <1>11 DEF SaveStep, At

-----------------------------------------------------------------------------
(* Steps on the guests.                                                    *)

\* The process inside fails, with or without an effect on a guest.
LEMMA FailStep ==
    ASSUME BootInv, NEW p \in Runs, boot[p].pc = "run", Fail(p), UNCHANGED <<kind, disk>>,
           guest' \in [AllRoles -> GuestT], UNCHANGED <<admin, seedUnit, marker, api>>,
           database' \in {database, "empty"}, KnownInv', NothingListensUnguarded'
    PROVE  BootInv'
<1>1. PICK b : b = [boot[p] EXCEPT !.pc = "failed"] OBVIOUS
<1>2. /\ disk \in DiskT /\ boot[p] \in BootT /\ disk.manifest = boot[p].manifest
      /\ ~boot[p].manifest.completed /\ disk.manifest.run = p
  BY AtRun
<1>3. boot' = [boot EXCEPT ![p] = b]
  BY <1>1 DEF Fail, BootInv, Types
<1>4. b \in BootT /\ b.pc = "failed" /\ b.manifest = disk.manifest
  BY <1>1, <1>2 DEF BootT
<1>5. RunOK(b)' /\ FailOK(b)'
  BY <1>2, <1>4 DEF RunOK, FailOK
<1> QED BY <1>2, <1>3, <1>4, <1>5, InsideStep

\* It goes on to its next position.
LEMMA GoesOn ==
    ASSUME BootInv, NEW p \in Runs, boot[p].pc = "run", NEW f \in PositionT, NEW u \in BOOLEAN,
           boot' = [boot EXCEPT ![p] = [boot[p] EXCEPT !.at = f, !.unwell = u]],
           UNCHANGED <<kind, disk>>, Placed(f)', Progress(f)',
           guest' \in [AllRoles -> GuestT], UNCHANGED <<admin, seedUnit, marker, api>>,
           database' \in {database, "empty"}, KnownInv', NothingListensUnguarded'
    PROVE  BootInv'
<1>1. PICK b : b = [boot[p] EXCEPT !.at = f, !.unwell = u] OBVIOUS
<1>2. /\ disk \in DiskT /\ boot[p] \in BootT /\ disk.manifest = boot[p].manifest
      /\ ~boot[p].manifest.completed /\ disk.manifest.run = p
  BY AtRun
<1>3. boot' = [boot EXCEPT ![p] = b]
  BY <1>1
<1>4. b \in BootT /\ b.pc = "run" /\ b.at = f /\ b.manifest = disk.manifest
  BY <1>1, <1>2 DEF BootT
<1>5. RunOK(b)' /\ FailOK(b)'
  BY <1>2, <1>4 DEF RunOK, FailOK
<1> QED BY <1>2, <1>3, <1>4, <1>5, InsideStep

LEMMA ContinueStep ==
    ASSUME BootInv, NEW p \in Runs, boot[p].pc = "run", Continue(p), NEW f,
           f = Following(boot[p].at), f \in PositionT, UNCHANGED <<kind, disk>>,
           Placed(f)', Progress(f)', guest' \in [AllRoles -> GuestT],
           UNCHANGED <<admin, seedUnit, marker, api>>,
           database' \in {database, "empty"}, KnownInv', NothingListensUnguarded'
    PROVE  BootInv'
<1>1. PICK u : u = boot[p].unwell OBVIOUS
<1>2. boot[p] \in BootT /\ u \in BOOLEAN
  BY <1>1, AtRun
<1>3. boot' = [boot EXCEPT ![p] = [boot[p] EXCEPT !.at = f]]
  BY DEF Continue, BootInv, Types
<1>4. [boot[p] EXCEPT !.at = f] = [boot[p] EXCEPT !.at = f, !.unwell = u]
  BY <1>1, <1>2 DEF BootT
<1> QED BY <1>2, <1>3, <1>4, GoesOn

LEMMA CreateSteps ==
    ASSUME BootInv, NEW p \in Runs, CreateStep(p)
    PROVE  BootInv'
<1>1. PICK at : at = boot[p].at OBVIOUS
<1>2. PICK f : f = Following(at) OBVIOUS
<1>3. /\ boot[p].pc = "run" /\ at.phase = "create" /\ UNCHANGED <<kind, disk, seedVars>>
  BY <1>1 DEF CreateStep, Running, At
<1>4. /\ at \in PositionT /\ Placed(at) /\ Progress(at) /\ kind \in {"core", "services", "llm"}
      /\ guest \in [AllRoles -> GuestT] /\ disk.manifest.run = p
  BY <1>1, <1>3, AtRun
<1>5. at.role # "all" /\ at.role \in AllRoles /\ at.role \in disk.manifest.attempted
  <2>1. at.role # "all" BY <1>3, <1>4 DEF Placed, Position, Roles
  <2> QED BY <1>3, <1>4, <2>1, PositionType, RoleTypes DEF Progress
<1>6. CASE Fail(p) /\ guest' = guest
  BY <1>3, <1>4, <1>6, FailStep DEF BootInv, KnownInv, NothingListensUnguarded, seedVars
<1>7. CASE /\ guest' = [guest EXCEPT ![at.role].owner = p, ![at.role].state = "stopped"]
           /\ Continue(p) \/ Fail(p)
  <2>1. /\ guest' \in [AllRoles -> GuestT]
        /\ \A r \in AllRoles : r # at.role => guest'[r] = guest[r]
        /\ guest'[at.role].owner = p /\ guest'[at.role].has = guest[at.role].has
        /\ guest'[at.role].active = guest[at.role].active
    BY <1>4, <1>5, <1>7 DEF GuestT, Owners
  <2>2. KnownInv'
    BY <1>3, <1>4, <1>5, <2>1, BootstrapAssumption DEF BootInv, KnownInv
  <2>3. NothingListensUnguarded'
    BY <2>1 DEF BootInv, NothingListensUnguarded
  <2>4. CASE Fail(p)
    BY <1>3, <2>1, <2>2, <2>3, <2>4, FailStep DEF seedVars
  <2>5. CASE Continue(p)
    <3>1. Has(guest'[at.role], PhaseAfter(at.phase)) BY <1>3 DEF Has, PhaseAfter
    <3>2. f \in PositionT /\ Placed(f)' /\ Progress(f)'
      BY <1>1, <1>2, <1>3, <1>5, <2>1, <3>1, WithinRole
    <3> QED BY <1>1, <1>2, <1>3, <2>1, <2>2, <2>3, <2>5, <3>2, ContinueStep DEF seedVars
  <2> QED BY <1>7, <2>4, <2>5
<1> QED BY <1>1, <1>6, <1>7 DEF CreateStep, At

\* What a phase leaves behind in its guest.
LEMMA EffectFacts ==
    ASSUME kind \in {"core", "services", "llm"}, NEW r \in AllRoles, NEW g \in GuestT,
           NEW phase \in {"start", "mtu", "guard", "install", "firewall", "unguard", "configure",
                          "finish"},
           Has(g, phase), g.active # {} => "firewall" \in g.has /\ "config" \in g.has,
           NEW h, h = Effect(r, phase, g)
    PROVE  /\ h \in GuestT /\ h.owner = g.owner
           /\ h.state = "absent" => g.state = "absent"
           /\ phase # "finish" => Has(h, PhaseAfter(phase))
           /\ phase = "finish" => Whole(h) /\ (kind # "core" => h.active = {})
           /\ h.active # {} => "firewall" \in h.has /\ "config" \in h.has
<1>1. CASE phase = "start"
  <2>1. h = [g EXCEPT !.state = "running"] BY <1>1 DEF Effect
  <2> QED BY <1>1, <2>1 DEF GuestT, Has, PhaseAfter
<1>2. CASE phase \in {"mtu", "guard", "firewall"}
  <2>1. h = [g EXCEPT !.has = g.has \cup {phase}] BY <1>2 DEF Effect
  <2>2. /\ h \in GuestT /\ h.has = g.has \cup {phase} /\ h.owner = g.owner
        /\ h.state = g.state /\ h.active = g.active
    BY <1>2, <2>1 DEF GuestT
  <2> QED BY <1>2, <2>2 DEF Has, PhaseAfter
<1>3. CASE phase = "install"
  <2>1. h = [g EXCEPT !.has = g.has \cup {"packages"}, !.active = g.active]
    BY <1>3 DEF Effect, Installed, Has
  <2> QED BY <1>3, <2>1 DEF GuestT, Has, PhaseAfter
<1>4. CASE phase = "unguard"
  <2>1. h = [g EXCEPT !.has = g.has \ {"guard"}] BY <1>4 DEF Effect
  <2>2. /\ h \in GuestT /\ h.has = g.has \ {"guard"} /\ h.owner = g.owner
        /\ h.state = g.state /\ h.active = g.active
    BY <2>1 DEF GuestT
  <2> QED BY <1>4, <2>2 DEF Has, PhaseAfter
<1>5. CASE phase = "configure"
  <2>1. h = [g EXCEPT !.has = g.has \cup {"config"}] BY <1>5 DEF Effect
  <2> QED BY <1>5, <2>1 DEF GuestT, Has, PhaseAfter
<1>6. CASE phase = "finish"
  <2>1. Whole(g) BY <1>6 DEF Has, Whole
  <2>2. CASE kind = "core"
    <3>1. h = [g EXCEPT !.active = g.active \cup {Service(r)}] BY <1>6, <2>2 DEF Effect, Opened
    <3>2. h \in GuestT /\ h.has = g.has /\ h.owner = g.owner /\ h.state = g.state
      BY <3>1 DEF GuestT
    <3> QED BY <1>6, <2>1, <2>2, <3>2 DEF Whole
  <2>3. CASE kind # "core"
    <3>1. h = [g EXCEPT !.active = {}] BY <1>6, <2>3 DEF Effect, Parked
    <3>2. h \in GuestT /\ h.has = g.has /\ h.owner = g.owner /\ h.state = g.state /\ h.active = {}
      BY <3>1 DEF GuestT
    <3> QED BY <1>6, <2>1, <2>3, <3>2 DEF Whole
  <2> QED BY <2>2, <2>3
<1> QED BY <1>1, <1>2, <1>3, <1>4, <1>5, <1>6

LEMMA GuestSteps ==
    ASSUME BootInv, NEW p \in Runs, GuestStep(p)
    PROVE  BootInv'
<1> DEFINE Working == {"start", "mtu", "guard", "install", "firewall", "unguard", "configure",
                       "finish"}
<1>1. PICK at : at = boot[p].at OBVIOUS
<1>2. PICK f : f = Following(at) OBVIOUS
<1>3. /\ boot[p].pc = "run" /\ at.phase \in Working
      /\ UNCHANGED <<kind, disk, admin, seedUnit, marker, api>>
  BY <1>1 DEF GuestStep, Running, At
<1>4. /\ at \in PositionT /\ Placed(at) /\ Progress(at) /\ kind \in {"core", "services", "llm"}
      /\ guest \in [AllRoles -> GuestT] /\ disk.manifest.run = p /\ p # NoRun
  BY <1>1, <1>3, AtRun
<1>5. /\ at.role # "all" /\ at.role \in AllRoles /\ at.role \in disk.manifest.attempted
      /\ Has(guest[at.role], at.phase)
  <2>1. at.role # "all" BY <1>3, <1>4 DEF Placed, Position, Roles
  <2> QED BY <1>3, <1>4, <2>1, PositionType, RoleTypes DEF Progress
<1>6. CASE Fail(p) /\ UNCHANGED <<guest, database>>
  BY <1>3, <1>4, <1>6, FailStep DEF BootInv, KnownInv, NothingListensUnguarded
<1>7. CASE /\ Owned(p, at.role)
           /\ guest' = [guest EXCEPT ![at.role] = Effect(at.role, at.phase, guest[at.role])]
           /\ database' \in {database, "empty"}
           /\ Continue(p) \/ Fail(p)
  <2>1. PICK h : h = Effect(at.role, at.phase, guest[at.role]) OBVIOUS
  <2>2. PICK g : g = guest[at.role] OBVIOUS
  <2>3. g \in GuestT /\ Has(g, at.phase)
        /\ (g.active # {} => "firewall" \in g.has /\ "config" \in g.has)
    BY <1>4, <1>5, <2>2 DEF BootInv, NothingListensUnguarded
  <2>4. /\ h \in GuestT /\ h.owner = g.owner
        /\ at.phase # "finish" => Has(h, PhaseAfter(at.phase))
        /\ at.phase = "finish" => Whole(h) /\ (kind # "core" => h.active = {})
        /\ h.active # {} => "firewall" \in h.has /\ "config" \in h.has
    BY <1>3, <1>4, <1>5, <2>1, <2>2, <2>3, EffectFacts
  <2>5. /\ guest' \in [AllRoles -> GuestT] /\ guest'[at.role] = h
        /\ \A r \in AllRoles : r # at.role => guest'[r] = guest[r]
    BY <1>4, <1>5, <1>7, <2>1, <2>4
  <2>6. h.owner = p BY <1>7, <2>2, <2>4 DEF Owned
  <2>7. KnownInv'
    BY <1>3, <1>4, <1>5, <2>5, <2>6 DEF BootInv, KnownInv
  <2>8. NothingListensUnguarded'
    BY <2>4, <2>5 DEF BootInv, NothingListensUnguarded
  <2>9. CASE Fail(p)
    BY <1>3, <1>7, <2>5, <2>7, <2>8, <2>9, FailStep
  <2>10. CASE Continue(p)
    <3>1. CASE at.phase = "finish"
      <4>1. f \in PositionT /\ Placed(f)' /\ Progress(f)'
        BY <1>1, <1>2, <1>3, <1>5, <2>4, <2>5, <3>1, PastRole
      <4> QED BY <1>1, <1>2, <1>3, <1>7, <2>5, <2>7, <2>8, <2>10, <4>1, ContinueStep
    <3>2. CASE at.phase # "finish"
      <4>1. f \in PositionT /\ Placed(f)' /\ Progress(f)'
        BY <1>1, <1>2, <1>3, <1>5, <2>4, <2>5, <3>2, WithinRole
      <4> QED BY <1>1, <1>2, <1>3, <1>7, <2>5, <2>7, <2>8, <2>10, <4>1, ContinueStep
    <3> QED BY <3>1, <3>2
  <2> QED BY <1>7, <2>9, <2>10
<1> QED BY <1>1, <1>6, <1>7 DEF GuestStep, At

\* The validation of the services, and their parking.
LEMMA ServiceSteps ==
    ASSUME BootInv, NEW p \in Runs, ValidateStep(p) \/ ParkStep(p)
    PROVE  BootInv'
<1>1. PICK at : at = boot[p].at OBVIOUS
<1>2. PICK f : f = Following(at) OBVIOUS
<1>3. /\ boot[p].pc = "run" /\ at.phase \in {"validate", "park"} /\ UNCHANGED <<kind, disk, seedVars>>
  BY <1>1 DEF ValidateStep, ParkStep, Running, At
<1>4. /\ Placed(at) /\ Progress(at) /\ guest \in [AllRoles -> GuestT]
  BY <1>1, <1>3, AtRun
<1>5. kind = "services" /\ Roles = {"proxy", "sshgw"} /\ at.role = "all"
  BY <1>3, <1>4 DEF Placed, Position, Names, Roles
<1>6. Whole(guest["proxy"]) /\ Whole(guest["sshgw"])
  BY <1>4, <1>5 DEF Progress, Behind
<1>7. Roles' = {"proxy", "sshgw"}
  BY <1>3, <1>5, KindStays
<1>8. CASE ValidateStep(p)
  <2>1. at.phase = "validate"
    BY <1>1, <1>8 DEF ValidateStep, Running, At
  <2>2. f = [role |-> "all", phase |-> "park"]
    BY <1>2, <2>1 DEF Following, Position
  <2>3. PICK started \in SUBSET {"proxy", "sshgw"}, u \in BOOLEAN :
          /\ guest' = [r \in AllRoles |-> IF r \in started
                         THEN [guest[r] EXCEPT !.active = {Service(r)}] ELSE guest[r]]
          /\ boot' = [boot EXCEPT ![p].unwell = u, ![p].at = Following(boot[p].at)]
    BY <1>8 DEF ValidateStep
  <2>4. boot' = [boot EXCEPT ![p] = [boot[p] EXCEPT !.at = f, !.unwell = u]]
    <3>1. boot[p] \in BootT /\ boot \in [Runs -> BootT] BY DEF BootInv, Types
    <3>2. [boot[p] EXCEPT !.at = f, !.unwell = u] = [boot[p] EXCEPT !.unwell = u, !.at = f]
      BY <3>1 DEF BootT
    <3>3. boot' = [boot EXCEPT ![p] = [boot[p] EXCEPT !.unwell = u, !.at = f]]
      BY <1>1, <1>2, <2>3, <3>1
    <3> QED BY <3>2, <3>3
  <2>5. \A r \in AllRoles :
          /\ guest'[r] \in GuestT /\ guest'[r].owner = guest[r].owner
          /\ guest'[r].state = guest[r].state /\ guest'[r].has = guest[r].has
          /\ r \notin {"proxy", "sshgw"} => guest'[r].active = guest[r].active
    <3> SUFFICES ASSUME NEW r \in AllRoles
                 PROVE  /\ guest'[r] \in GuestT /\ guest'[r].owner = guest[r].owner
                        /\ guest'[r].state = guest[r].state /\ guest'[r].has = guest[r].has
                        /\ r \notin {"proxy", "sshgw"} => guest'[r].active = guest[r].active
      OBVIOUS
    <3>1. guest[r] \in GuestT BY <1>4
    <3>2. CASE r \in started
      <4>1. guest'[r] = [guest[r] EXCEPT !.active = {Service(r)}] BY <2>3, <3>2
      <4> QED BY <3>1, <3>2, <4>1 DEF GuestT
    <3>3. CASE r \notin started
      BY <2>3, <3>1, <3>3
    <3> QED BY <3>2, <3>3
  <2>6. guest' \in [AllRoles -> GuestT]
    BY <2>3, <2>5
  <2>7. KnownInv'
    BY <1>3, <2>5 DEF BootInv, KnownInv
  <2>8. NothingListensUnguarded'
    <3>1. ASSUME NEW r \in AllRoles, guest'[r].active # {}
          PROVE  "firewall" \in guest'[r].has /\ "config" \in guest'[r].has
      <4>1. CASE r \in {"proxy", "sshgw"} BY <1>6, <2>5, <4>1 DEF Whole
      <4>2. CASE r \notin {"proxy", "sshgw"}
        BY <2>5, <3>1, <4>2 DEF BootInv, NothingListensUnguarded
      <4> QED BY <4>1, <4>2
    <3> QED BY <3>1 DEF NothingListensUnguarded
  <2>9. f \in PositionT /\ Placed(f)'
    BY <1>3, <1>5, <2>2 DEF PositionT, Placed, Position
  <2>10. Progress(f)'
    <3>1. Whole(guest'["proxy"]) /\ Whole(guest'["sshgw"])
      BY <1>6, <2>5 DEF Whole, AllRoles
    <3>2. Behind(f)' = {"proxy", "sshgw"}
      BY <1>7, <2>2 DEF Behind
    <3> QED BY <2>2, <3>1, <3>2 DEF Progress
  <2> QED BY <1>3, <2>4, <2>6, <2>7, <2>8, <2>9, <2>10, GoesOn DEF seedVars
<1>9. CASE ParkStep(p)
  <2>1. at.phase = "park"
    BY <1>1, <1>9 DEF ParkStep, Running, At
  <2>2. f = [role |-> "all", phase |-> "complete"]
    BY <1>2, <2>1 DEF Following, Position
  <2>3. PICK parked \in SUBSET {"proxy", "sshgw"} :
          /\ guest' = [r \in AllRoles |-> IF r \in parked THEN Parked(guest[r]) ELSE guest[r]]
          /\ IF boot[p].unwell \/ parked # {"proxy", "sshgw"} THEN Fail(p) ELSE Continue(p)
    BY <1>9 DEF ParkStep
  <2>4. \A r \in AllRoles :
          /\ guest'[r] \in GuestT /\ guest'[r].owner = guest[r].owner
          /\ guest'[r].state = guest[r].state /\ guest'[r].has = guest[r].has
          /\ guest'[r].active \in {guest[r].active, {}}
          /\ r \in parked => guest'[r].active = {}
    <3> SUFFICES ASSUME NEW r \in AllRoles
                 PROVE  /\ guest'[r] \in GuestT /\ guest'[r].owner = guest[r].owner
                        /\ guest'[r].state = guest[r].state /\ guest'[r].has = guest[r].has
                        /\ guest'[r].active \in {guest[r].active, {}}
                        /\ r \in parked => guest'[r].active = {}
      OBVIOUS
    <3>1. guest[r] \in GuestT BY <1>4
    <3>2. CASE r \in parked
      <4>1. guest'[r] = [guest[r] EXCEPT !.active = {}] BY <2>3, <3>2 DEF Parked
      <4> QED BY <3>1, <3>2, <4>1 DEF GuestT
    <3>3. CASE r \notin parked
      BY <2>3, <3>1, <3>3
    <3> QED BY <3>2, <3>3
  <2>5. guest' \in [AllRoles -> GuestT]
    BY <2>3, <2>4
  <2>6. KnownInv'
    BY <1>3, <2>4 DEF BootInv, KnownInv
  <2>7. NothingListensUnguarded'
    BY <2>4 DEF BootInv, NothingListensUnguarded
  <2>8. CASE Fail(p)
    BY <1>3, <2>5, <2>6, <2>7, <2>8, FailStep DEF seedVars
  <2>9. CASE Continue(p) /\ parked = {"proxy", "sshgw"}
    <3>1. f \in PositionT /\ Placed(f)'
      BY <2>2 DEF PositionT, Placed, Position
    <3>2. /\ Whole(guest'["proxy"]) /\ guest'["proxy"].active = {}
          /\ Whole(guest'["sshgw"]) /\ guest'["sshgw"].active = {}
      BY <1>6, <2>4, <2>9 DEF Whole, AllRoles
    <3>3. Behind(f)' = {"proxy", "sshgw"}
      BY <1>7, <2>2 DEF Behind
    <3>4. Progress(f)' BY <2>2, <3>2, <3>3 DEF Progress
    <3> QED BY <1>1, <1>2, <1>3, <2>5, <2>6, <2>7, <2>9, <3>1, <3>4, ContinueStep DEF seedVars
  <2> QED BY <2>3, <2>8, <2>9
<1> QED BY <1>8, <1>9

\* The handler of an exception.
LEMMA HandlerStep ==
    ASSUME BootInv, NEW p \in Runs, FailureStep(p)
    PROVE  BootInv'
<1>1. PICK m : m = [boot[p].manifest EXCEPT !.partial = TRUE,
                      !.completed = boot[p].manifest.completed /\ kind # "llm"]
  OBVIOUS
<1>2. /\ boot[p].pc = "failed" /\ UNCHANGED <<kind, seedVars>>
      /\ disk' = disk \/ disk' = [disk EXCEPT !.manifest = m]
      /\ boot' = [boot EXCEPT ![p].pc = "ended"]
  BY <1>1 DEF FailureStep
<1>3. /\ disk \in DiskT /\ boot[p] \in BootT /\ guest \in [AllRoles -> GuestT]
      /\ boot \in [Runs -> BootT] /\ boot[p].manifest \in ManifestT
  BY DEF BootInv, Types, BootT
<1>4. /\ disk.manifest.run = p /\ boot[p].manifest.run = p /\ p # NoRun
      /\ FailOK(boot[p])
  BY <1>2, SoleRun DEF BootInv, RunsInv
<1>5. /\ m \in ManifestT /\ m.run = p /\ m.attempted = boot[p].manifest.attempted
      /\ m.completed => boot[p].manifest.completed
  BY <1>1, <1>3, <1>4 DEF ManifestT
<1>6. /\ disk' \in DiskT /\ disk'.manifest.run = p
      /\ disk.manifest.attempted \subseteq disk'.manifest.attempted
      /\ disk'.manifest.completed => WholeAll
  <2>1. CASE disk' = disk
    BY <1>3, <1>4, <2>1 DEF BootInv, DiskInv
  <2>2. CASE disk' = [disk EXCEPT !.manifest = m]
    <3>1. disk' \in DiskT /\ disk'.manifest = m BY <1>3, <1>5, <2>2 DEF DiskT
    <3> QED BY <1>2, <1>4, <1>5, <3>1 DEF FailOK
  <2> QED BY <1>2, <2>1, <2>2
<1>7. PICK b : b = [boot[p] EXCEPT !.pc = "ended"] OBVIOUS
<1>8. /\ b \in BootT /\ b.pc = "ended" /\ b.manifest.run = p /\ boot' = [boot EXCEPT ![p] = b]
      /\ RunOK(b)' /\ FailOK(b)'
  BY <1>2, <1>3, <1>4, <1>7 DEF BootT, RunOK, FailOK
<1>9. \A r \in AllRoles :
        /\ guest'[r] \in GuestT /\ guest'[r].owner = guest[r].owner
        /\ guest'[r].has = guest[r].has /\ guest'[r].active \in {guest[r].active, {}}
        /\ guest[r].owner = NoRun => guest'[r].state = guest[r].state
  <2>1. CASE guest' = guest BY <1>3, <2>1
  <2>2. CASE /\ Owned(p, "gateway")
             /\ guest' = [guest EXCEPT !["gateway"].state = "stopped", !["gateway"].active = {}]
    <3>1. "gateway" \in AllRoles BY DEF AllRoles
    <3>2. \A r \in AllRoles : r # "gateway" => guest'[r] = guest[r]
      BY <1>3, <2>2
    <3>3. guest'["gateway"] = [guest["gateway"] EXCEPT !.state = "stopped", !.active = {}]
      BY <1>3, <2>2, <3>1
    <3>4. /\ guest'["gateway"] \in GuestT /\ guest'["gateway"].owner = p
          /\ guest["gateway"].owner = p /\ guest'["gateway"].has = guest["gateway"].has
          /\ guest'["gateway"].active = {}
      <4>1. PICK g : g = guest["gateway"] OBVIOUS
      <4>2. g \in GuestT /\ g.owner = p
        BY <1>3, <2>2, <3>1, <4>1 DEF Owned
      <4>3. guest'["gateway"] = [g EXCEPT !.state = "stopped", !.active = {}]
        BY <3>3, <4>1
      <4>4. /\ guest'["gateway"] \in GuestT /\ guest'["gateway"].owner = p
            /\ guest'["gateway"].has = g.has /\ guest'["gateway"].active = {}
        BY <4>2, <4>3 DEF GuestT
      <4> QED BY <4>1, <4>2, <4>4
    <3> QED BY <1>3, <1>4, <3>2, <3>4
  <2> QED BY <2>1, <2>2 DEF FailureStep
<1>10. guest' \in [AllRoles -> GuestT]
  <2>1. guest' = [r \in AllRoles |-> guest'[r]]
    BY <1>3 DEF FailureStep, AllRoles
  <2> QED BY <1>9, <2>1
<1>11. KnownInv'
  BY <1>4, <1>6, <1>9 DEF BootInv, KnownInv
<1>12. NothingListensUnguarded'
  BY <1>9 DEF BootInv, NothingListensUnguarded
<1>13. WholeAll => WholeAll'
  <2>1. Roles' = Roles /\ Roles \subseteq AllRoles
    BY <1>2, KindStays, RoleTypes DEF BootInv, Types
  <2> QED BY <1>2, <1>9, <2>1 DEF WholeAll, Whole
<1> QED BY <1>2, <1>4, <1>6, <1>8, <1>10, <1>11, <1>12, <1>13, InsideStep DEF seedVars

-----------------------------------------------------------------------------
(* Entering and leaving.                                                   *)

LEMMA DoorSteps ==
    ASSUME BootInv, NEW p \in Runs, Preflight(p) \/ BootKilled(p)
    PROVE  BootInv'
<1>1. boot[p] \in BootT /\ boot \in [Runs -> BootT] /\ StartOK(boot[p])
  BY DEF BootInv, Types, RunsInv
<1>2. PICK c \in {"preflighted", "ended"} :
        /\ boot' = [boot EXCEPT ![p].pc = c] /\ (c = "preflighted" => boot[p].pc = "new")
  BY DEF Preflight, BootKilled
<1>3. UNCHANGED <<kind, guest, disk, seedVars>>
  BY DEF Preflight, BootKilled
<1>4. PICK b : b = [boot[p] EXCEPT !.pc = c] OBVIOUS
<1>5. b \in BootT /\ b.pc = c /\ b.at = boot[p].at /\ boot' = [boot EXCEPT ![p] = b]
  BY <1>1, <1>2, <1>4 DEF BootT
<1>6. StartOK(b)
  BY <1>1, <1>2, <1>5 DEF StartOK
<1> QED BY <1>3, <1>5, <1>6, OutsideStep

LEMMA ClaimStep ==
    ASSUME BootInv, NEW p \in Runs, Claim(p)
    PROVE  BootInv'
<1>0. /\ Types /\ LockInv /\ RunsInv /\ KnownInv /\ DiskInv /\ NothingListensUnguarded /\ SeedInv
      /\ boot[p] \in BootT /\ boot \in [Runs -> BootT] /\ StartOK(boot[p]) /\ disk \in DiskT
      /\ kind \in {"core", "services", "llm"}
  BY DEF BootInv, Types, RunsInv
<1>1. boot[p].pc = "preflighted" /\ UNCHANGED <<kind, guest, seedVars>>
  BY DEF Claim
<1>2. CASE ~Unclaimed
  <2>1. boot' = [boot EXCEPT ![p].pc = "ended"] /\ disk' = disk
    BY <1>2 DEF Claim
  <2>2. PICK b : b = [boot[p] EXCEPT !.pc = "ended"] OBVIOUS
  <2>3. b \in BootT /\ b.pc = "ended" /\ boot' = [boot EXCEPT ![p] = b] /\ StartOK(b)
    BY <1>0, <2>1, <2>2 DEF BootT, StartOK
  <2> QED BY <1>1, <2>1, <2>3, OutsideStep
<1>3. CASE Unclaimed
  <2>1. PICK m : m = [NoManifest EXCEPT !.run = p,
                        !.attempted = IF kind = "llm" THEN {"gateway"} ELSE {}]
    OBVIOUS
  <2>2. /\ boot' = [boot EXCEPT ![p].pc = "run", ![p].manifest = m]
        /\ disk' = [disk EXCEPT !.manifest = m]
    BY <1>3, <2>1 DEF Claim
  <2>3. /\ m \in ManifestT /\ m.run = p /\ ~m.completed
        /\ kind = "llm" => "gateway" \in m.attempted
    BY <2>1 DEF NoManifest, ManifestT, Owners, AllRoles
  <2>4. PICK b : b = [boot[p] EXCEPT !.pc = "run", !.manifest = m] OBVIOUS
  <2>5. /\ b \in BootT /\ b.pc = "run" /\ b.manifest = m /\ b.at = boot[p].at
        /\ boot' = [boot EXCEPT ![p] = b]
    BY <1>0, <2>2, <2>3, <2>4 DEF BootT
  <2>6. disk' \in DiskT /\ disk'.manifest = m
    BY <1>0, <2>2, <2>3 DEF DiskT
  <2>7. /\ \A q \in Runs : q # p => boot'[q] = boot[q] /\ boot[q].pc \notin {"run", "failed"}
        /\ boot'[p] = b /\ boot' \in [Runs -> BootT]
    BY <1>0, <1>3, <2>5, BootstrapAssumption DEF Unclaimed, LockInv
  <2>8. Types' BY <1>0, <1>1, <2>6, <2>7 DEF Types, seedVars
  <2>9. LockInv' BY <2>3, <2>5, <2>6, <2>7 DEF LockInv
  <2>10. b.at = First
    BY <1>0, <1>1, <2>5 DEF StartOK
  <2>11. Placed(b.at)' /\ Progress(b.at)'
    <3>1. PICK at : at = b.at OBVIOUS
    <3>2. Placed(at)' /\ Behind(at)' = {} /\ Has(guest'[at.role], at.phase)
          /\ (at.phase # "attempt" => kind = "llm" /\ at.role = "gateway")
      BY <1>0, <1>1, <2>10, <3>1, FirstPlaced, KindStays
    <3> QED BY <2>3, <2>6, <3>1, <3>2 DEF Progress
  <2>12. RunsInv'
    <3>1. (StartOK(boot[p]) /\ RunOK(boot[p]) /\ FailOK(boot[p]))'
      BY <2>3, <2>5, <2>6, <2>7, <2>11 DEF StartOK, RunOK, FailOK
    <3>2. First' = First BY <1>1, KindStays
    <3>3. \A q \in Runs : q # p => (StartOK(boot[q]) /\ RunOK(boot[q]) /\ FailOK(boot[q]))'
      BY <1>0, <2>7, <3>2 DEF RunsInv, StartOK, RunOK, FailOK
    <3> QED BY <3>1, <3>3 DEF RunsInv
  <2>13. \A r \in AllRoles : guest[r].owner = NoRun
    BY <1>0, <1>3 DEF DiskInv, Unclaimed
  <2>14. KnownInv' BY <1>0, <1>1, <2>13 DEF KnownInv
  <2>15. DiskInv' BY <2>3, <2>6, BootstrapAssumption DEF DiskInv
  <2>16. NothingListensUnguarded' BY <1>0, <1>1 DEF NothingListensUnguarded
  <2>17. SeedInv'
    <3>1. ~disk.manifest.completed BY <1>0, <1>3 DEF DiskInv, Unclaimed
    <3>2. /\ \A q \in Runs : admin[q] = "new"
          /\ seedUnit = NoRun /\ ~marker /\ ~api
      BY <1>0, <3>1 DEF SeedInv
    <3> QED BY <1>0, <1>1, <3>2 DEF SeedInv, seedVars
  <2> QED BY <2>8, <2>9, <2>12, <2>14, <2>15, <2>16, <2>17 DEF BootInv
<1> QED BY <1>2, <1>3

-----------------------------------------------------------------------------
(* The seed.                                                               *)

\* A step of the seed, which may only add its word to the manifest.
LEMMA SeedFrame ==
    ASSUME BootInv, UNCHANGED bootVars, admin' \in [Runs -> AdminPcs], marker' \in BOOLEAN,
           api' \in BOOLEAN, SeedInv',
           \/ disk' = disk
           \/ /\ disk' = [disk EXCEPT !.manifest.admin = TRUE]
              /\ kind = "core" /\ disk.manifest.completed
    PROVE  BootInv'
<1>0. Types /\ LockInv /\ RunsInv /\ KnownInv /\ DiskInv /\ NothingListensUnguarded /\ disk \in DiskT
  BY DEF BootInv, Types
<1>1. UNCHANGED <<kind, guest, boot>> BY DEF bootVars
<1>2. /\ disk' \in DiskT /\ disk'.manifest.run = disk.manifest.run
      /\ disk'.manifest.attempted = disk.manifest.attempted
      /\ disk'.manifest.completed = disk.manifest.completed
  <2>1. CASE disk' = disk BY <1>0, <2>1
  <2>2. CASE disk' = [disk EXCEPT !.manifest.admin = TRUE]
    <3>1. disk' = [disk EXCEPT !.manifest = [disk.manifest EXCEPT !.admin = TRUE]]
      BY <1>0, <2>2 DEF DiskT
    <3>2. disk.manifest \in ManifestT BY <1>0 DEF DiskT
    <3>3. PICK m : m = [disk.manifest EXCEPT !.admin = TRUE] OBVIOUS
    <3>4. /\ m \in ManifestT /\ m.run = disk.manifest.run /\ m.attempted = disk.manifest.attempted
          /\ m.completed = disk.manifest.completed
      BY <3>2, <3>3 DEF ManifestT
    <3>5. disk' \in DiskT /\ disk'.manifest = m
      BY <1>0, <3>1, <3>3, <3>4 DEF DiskT
    <3> QED BY <3>4, <3>5
  <2> QED BY <2>1, <2>2
<1>3. Types' BY <1>0, <1>1, <1>2 DEF Types
<1>4. LockInv' BY <1>0, <1>1, <1>2 DEF LockInv
<1>5. RunsInv'
  <2>1. CASE disk' = disk
    BY <1>0, <1>1, <2>1 DEF RunsInv, StartOK, RunOK, FailOK, Placed, Progress, WholeAll, Behind,
                            Roles, First
  <2>2. CASE kind = "core" /\ disk.manifest.completed
    <3>1. \A q \in Runs : boot[q].pc \notin {"run", "failed"}
      BY <2>2, SoleRun
    <3>2. First' = First BY <1>1, KindStays
    <3> QED BY <1>0, <1>1, <3>1, <3>2 DEF RunsInv, StartOK, RunOK, FailOK
  <2> QED BY <2>1, <2>2
<1>6. KnownInv' /\ NothingListensUnguarded'
  BY <1>0, <1>1, <1>2 DEF KnownInv, NothingListensUnguarded
<1>7. DiskInv'
  BY <1>0, <1>1, <1>2 DEF DiskInv, WholeAll, Roles
<1> QED BY <1>3, <1>4, <1>5, <1>6, <1>7 DEF BootInv

LEMMA AdminSteps ==
    ASSUME BootInv, NEW p \in Runs, AdminNext(p)
    PROVE  BootInv'
<1>0. /\ admin \in [Runs -> AdminPcs] /\ marker \in BOOLEAN /\ api \in BOOLEAN /\ SeedInv
      /\ disk \in DiskT
  BY DEF BootInv, Types
<1>1. ASSUME UNCHANGED <<bootVars, disk, database, marker, api>>, NEW c \in AdminPcs,
             admin' = [admin EXCEPT ![p] = c],
             kind = "core" /\ disk.manifest.completed,
             c \in {"save", "mark"} => database \in {"seeded", "used"}, c # "mark"
      PROVE  BootInv'
  <2>1. admin' \in [Runs -> AdminPcs] /\ admin'[p] = c
        /\ \A q \in Runs : q # p => admin'[q] = admin[q]
    BY <1>0, <1>1
  <2>2. SeedInv' BY <1>0, <1>1, <2>1 DEF SeedInv, bootVars
  <2> QED BY <1>0, <1>1, <2>1, <2>2, SeedFrame
<1>2. admin[p] # "new" => kind = "core" /\ disk.manifest.completed
  BY <1>0 DEF SeedInv
<1> USE DEF AdminAt, AdminGoto, AdminPcs
<1>3. CASE AdminPreflight(p)
  BY <1>1, <1>3 DEF AdminPreflight
<1>4. CASE AdminCredential(p)
  BY <1>1, <1>2, <1>4 DEF AdminCredential
<1>5. CASE AdminLaunch(p)
  BY <1>1, <1>2, <1>5 DEF AdminLaunch
<1>6. CASE AdminTimeout(p)
  BY <1>1, <1>2, <1>6 DEF AdminTimeout
<1>7. CASE AdminWithdraw(p)
  BY <1>1, <1>2, <1>7 DEF AdminWithdraw
<1>8. CASE AdminPostcheck(p)
  BY <1>1, <1>2, <1>8 DEF AdminPostcheck, Postcheck
<1>9. CASE AdminKilled(p)
  BY <1>1, <1>2, <1>9 DEF AdminKilled
<1>10. CASE AdminSave(p)
  <2>1. CASE admin' = [admin EXCEPT ![p] = "ended"] /\ disk' = disk
    BY <1>1, <1>2, <1>10, <2>1 DEF AdminSave
  <2>2. CASE admin' = [admin EXCEPT ![p] = "mark"] /\ disk' = [disk EXCEPT !.manifest.admin = TRUE]
    <3>1. admin[p] = "save" /\ UNCHANGED <<bootVars, database, seedUnit, marker, api>>
      BY <1>10 DEF AdminSave
    <3>2. kind = "core" /\ disk.manifest.completed BY <1>2, <3>1
    <3>3. /\ admin' \in [Runs -> AdminPcs] /\ admin'[p] = "mark"
          /\ \A q \in Runs : q # p => admin'[q] = admin[q]
      BY <1>0, <2>2
    <3>4. disk'.manifest.admin /\ disk'.manifest.completed = disk.manifest.completed
      <4>1. disk.manifest \in ManifestT BY <1>0 DEF DiskT
      <4>2. disk'.manifest = [disk.manifest EXCEPT !.admin = TRUE] BY <1>0, <2>2 DEF DiskT
      <4> QED BY <4>1, <4>2 DEF ManifestT
    <3>5. SeedInv' BY <1>0, <3>1, <3>2, <3>3, <3>4 DEF SeedInv, bootVars
    <3> QED BY <1>0, <2>2, <3>1, <3>2, <3>3, <3>5, SeedFrame
  <2> QED BY <1>10, <2>1, <2>2 DEF AdminSave
<1>11. CASE AdminMark(p)
  <2>1. /\ admin[p] = "mark" /\ admin' = [admin EXCEPT ![p] = "ended"] /\ marker' \in {marker, TRUE}
        /\ UNCHANGED <<bootVars, disk, database, seedUnit, api>>
    BY <1>11 DEF AdminMark
  <2>2. /\ admin' \in [Runs -> AdminPcs] /\ admin'[p] = "ended"
        /\ \A q \in Runs : q # p => admin'[q] = admin[q]
    BY <1>0, <2>1
  <2>3. marker' \in BOOLEAN /\ (marker => marker')
    BY <1>0, <2>1
  <2>4. SeedInv' BY <1>0, <1>2, <2>1, <2>2, <2>3 DEF SeedInv, bootVars
  <2> QED BY <1>0, <2>1, <2>2, <2>3, <2>4, SeedFrame
<1> QED BY <1>3, <1>4, <1>5, <1>6, <1>7, <1>8, <1>9, <1>10, <1>11 DEF AdminNext

LEMMA UnitSteps ==
    ASSUME BootInv, SeedEnds \/ ApiStarts
    PROVE  BootInv'
<1>0. /\ admin \in [Runs -> AdminPcs] /\ marker \in BOOLEAN /\ api \in BOOLEAN /\ SeedInv
  BY DEF BootInv, Types
<1>1. CASE SeedEnds
  <2>1. /\ seedUnit # NoRun /\ seedUnit' = NoRun /\ UNCHANGED <<bootVars, disk, marker, api>>
        /\ database' = database \/ (database = "empty" /\ database' \in {"empty", "seeded", "odd"})
    BY <1>1 DEF SeedEnds
  <2>2. admin' = admin \/ \E c \in {"seeded", "withdraw"} : admin' = [admin EXCEPT ![seedUnit] = c]
    BY <1>1 DEF SeedEnds
  <2>3. /\ admin' \in [Runs -> AdminPcs]
        /\ \A q \in Runs : admin'[q] = admin[q] \/ admin'[q] \in {"seeded", "withdraw"}
    BY <1>0, <2>2 DEF AdminPcs
  <2>4. kind = "core" /\ disk.manifest.completed
    BY <1>0, <2>1 DEF SeedInv
  <2>5. SeedInv' BY <1>0, <2>1, <2>3, <2>4 DEF SeedInv, bootVars
  <2> QED BY <1>0, <2>1, <2>3, <2>5, SeedFrame
<1>2. CASE ApiStarts
  <2>1. /\ marker /\ api' = TRUE /\ database' = "used"
        /\ UNCHANGED <<bootVars, disk, admin, seedUnit, marker>>
    BY <1>2 DEF ApiStarts
  <2>2. SeedInv' BY <1>0, <2>1 DEF SeedInv, bootVars
  <2> QED BY <1>0, <2>1, <2>2, SeedFrame
<1> QED BY <1>1, <1>2

-----------------------------------------------------------------------------
(* The theorems.                                                           *)

LEMMA BootstrapStep == BootInv /\ [BootstrapNext]_bootstrapVars => BootInv'
<1> SUFFICES ASSUME BootInv, [BootstrapNext]_bootstrapVars PROVE BootInv' OBVIOUS
<1>1. CASE UNCHANGED bootstrapVars
  <2>1. /\ UNCHANGED <<kind, guest, disk, boot, admin, database, seedUnit, marker, api>>
        /\ UNCHANGED bootVars
    BY <1>1 DEF bootstrapVars, bootVars
  <2>2. SeedInv' BY <2>1 DEF BootInv, SeedInv
  <2> QED BY <2>1, <2>2, SeedFrame DEF BootInv, Types
<1>2. CASE \E p \in Runs : BootNext(p)
  BY <1>2, DoorSteps, ClaimStep, SaveSteps, CreateSteps, GuestSteps, ServiceSteps, HandlerStep
     DEF BootNext
<1>3. CASE \E p \in Runs : AdminNext(p)
  BY <1>3, AdminSteps
<1>4. CASE SeedEnds \/ ApiStarts
  BY <1>4, UnitSteps
<1> QED BY <1>1, <1>2, <1>3, <1>4 DEF BootstrapNext

(* Bootstrap.apply and AdminBootstrap.apply: whatever fails, times out, is  *)
(* killed or is started again, the manifest knows every guest, nothing     *)
(* listens unguarded, a completed bootstrap is whole and the marker        *)
(* follows the seed.                                                       *)
THEOREM BootstrapsAreContained == BootstrapSpec => []BootstrapIsContained
<1>1. BootInv => BootstrapIsContained
  <2> SUFFICES ASSUME BootInv PROVE BootstrapIsContained OBVIOUS
  <2>1. EveryGuestIsKnown
    BY DEF BootInv, KnownInv, EveryGuestIsKnown
  <2>2. CompletedIsWhole
    BY DEF BootInv, Types, DiskInv, WholeAll, Whole, CompletedIsWhole
  <2>3. MarkerFollowsSeed
    BY DEF BootInv, SeedInv, MarkerFollowsSeed
  <2> QED BY <2>1, <2>2, <2>3 DEF BootInv, BootstrapIsContained
<1> QED BY <1>1, Initially, BootstrapStep, PTL DEF BootstrapSpec
=============================================================================
