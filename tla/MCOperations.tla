---------------------------- MODULE MCOperations ----------------------------
(***************************************************************************)
(* The operator's jobs that share no state with one another, checked side  *)
(* by side: a behaviour is one job, chosen by its initial state, with the  *)
(* variables of the others at rest.                                        *)
(***************************************************************************)
EXTENDS ProductionSdn, FirewallPlan, StartupReadiness, DatabaseBackup,
        PbsMonitors, HealthTransport, IsolatedBootstrap

VARIABLE job

opsVars == <<job, sdnVars, vms, plan, readinessVars, backupVars, monitorVars,
             transportVars, bootstrapVars>>

-----------------------------------------------------------------------------
\* Firewall: every feature alone and together, and endpoints out of place.
SomeConfig ==
    [has |-> {}, bmc |-> TRUE, api |-> "api", proxy |-> "proxy", sshgw |-> "sshgw",
     relay |-> "relay",
     backup |-> [source |-> "dbbackup", destination |-> "pbs"],
     ingress |-> [source |-> "edge", destination |-> "proxy"],
     ssh |-> [source |-> "edge", destination |-> "sshgw"],
     transit |-> [source |-> "relay", destination |-> "api"]]
Features == {"backup", "ingress", "ssh", "relay_transit"}
SomeConfigs ==
    {[SomeConfig EXCEPT !.has = h, !.bmc = b] :
        h \in {{}, Features} \cup {{f} : f \in Features}, b \in BOOLEAN}
    \cup {[SomeConfig EXCEPT !.has = {"backup"}, !.backup.destination = "mesh2"],
          [SomeConfig EXCEPT !.has = {"ingress"}, !.ingress.source = "campus2"],
          [SomeConfig EXCEPT !.has = {"ssh"}, !.ssh.destination = "api"],
          [SomeConfig EXCEPT !.has = {"relay_transit"}, !.transit.source = "vm"]}
\* Mostly tcp, and enough of the others for the rules that name them.
SomePackets ==
    [nf : {"ipv4", "ipv6"}, i : {"uplink", "mesh", "pguest", "pinfra"},
     o : {"local", "uplink", "pguest", "pinfra"}, s : {"vm", "api", "mesh2", "internet"},
     d : {"vm", "proxy"}, p : {"udp", "icmp"}, dport : {22, 4789}, sport : {8007},
     ct : {"NEW", "ESTABLISHED"}, orig : {<<"none", 0>>}]
    \cup
    [nf : {"ipv4", "ipv6"}, i : {"uplink", "mesh", "pguest", "pinfra", "bmc"},
     o : {"local", "uplink", "mesh", "pguest", "pinfra"},
     s : {"vm", "api", "dbbackup", "relay", "edge", "mesh2", "internet"},
     d : {"vm", "api", "proxy", "mesh2", "pbs"}, p : {"tcp"},
     dport : {22, 8006, 8007, 8080, 24443}, sport : {8007},
     ct : {"NEW", "ESTABLISHED"}, orig : {<<"none", 0>>, <<"campus1", 24443>>}]

-----------------------------------------------------------------------------
\* Readiness: what the cluster, the links, the marks and the rules may show.
SomeClusters ==
    [name : {"right", "wrong", "absent"},
     nodes : {{"self"}, {"self", "peer"}, {"self", "stranger"}}, quorate : BOOLEAN]
SomeLinks == {"missing", "noPeer", "wrong", "right"}
ForeignMark == [bits |-> {1}, full |-> TRUE]
OverlappingMark == [bits |-> {2}, full |-> TRUE]
SomeLayouts ==
    {[accepted |-> {}, setters |-> {}],
     [accepted |-> {ExpectedMark}, setters |-> {}],
     [accepted |-> {ExpectedMark}, setters |-> {ExpectedMark}],
     [accepted |-> {ForeignMark}, setters |-> {ForeignMark}],
     [accepted |-> {OverlappingMark}, setters |-> {}],
     [accepted |-> {ExpectedMark, ForeignMark}, setters |-> {ExpectedMark}]}
SomeFirewalls == {"noChain", "disabled", "right"}

-----------------------------------------------------------------------------
\* Monitors: every way one container's archives may look, the other's good.
GoodRows == <<"protected", "absent", "good", "absent">>
SomeRows ==
    {GoodRows,
     <<"absent", "absent", "good", "absent">>,
     <<"good", "absent", "good", "absent">>,
     <<"bad", "good", "good", "absent">>,
     <<"protected", "absent", "absent", "absent">>,
     <<"protected", "good", "absent", "absent">>,
     <<"protected", "good", "bad", "absent">>,
     <<"protected", "absent", "good", "good">>,
     <<"absent", "absent", "absent", "absent">>}
SomeInventories ==
    {[c \in Cts |-> IF c = x THEN rows ELSE GoodRows] : x \in Cts, rows \in SomeRows}

-----------------------------------------------------------------------------
OpsInit ==
    /\ job \in {"sdn", "firewall", "readiness", "backup", "monitors", "transport",
                "bootstrap"}
    /\ SdnInit /\ vms = {}
    /\ BackupInit /\ TransportInit
    /\ FirewallInit /\ ReadinessInit /\ MonitorsInit /\ BootstrapInit
    /\ job # "monitors" => mon = "core"
    /\ job # "bootstrap" => kind = "core"

Sdn == job = "sdn" /\ SdnNext
       /\ UNCHANGED <<plan, readinessVars, backupVars, monitorVars, transportVars,
                      bootstrapVars>>
Firewall == job = "firewall" /\ FirewallNext
       /\ UNCHANGED <<sdnVars, vms, readinessVars, backupVars, monitorVars,
                      transportVars, bootstrapVars>>
Readiness == job = "readiness" /\ ReadinessNext
       /\ UNCHANGED <<sdnVars, vms, plan, backupVars, monitorVars, transportVars,
                      bootstrapVars>>
Backup == job = "backup" /\ BackupNext
       /\ UNCHANGED <<sdnVars, vms, plan, readinessVars, monitorVars, transportVars,
                      bootstrapVars>>
Monitors == job = "monitors" /\ MonitorsNext
       /\ UNCHANGED <<sdnVars, vms, plan, readinessVars, backupVars, transportVars,
                      bootstrapVars>>
Transport == job = "transport" /\ TransportNext
       /\ UNCHANGED <<sdnVars, vms, plan, readinessVars, backupVars, monitorVars,
                      bootstrapVars>>
Bootstrap == job = "bootstrap" /\ BootstrapNext
       /\ UNCHANGED <<sdnVars, vms, plan, readinessVars, backupVars, monitorVars,
                      transportVars>>

OpsNext ==
    /\ \/ Sdn \/ Firewall \/ Readiness \/ Backup \/ Monitors \/ Transport \/ Bootstrap
    /\ UNCHANGED job

OpsSpec == OpsInit /\ [][OpsNext]_opsVars
=============================================================================
