---------------------------- MODULE FirewallPlan ----------------------------
(***************************************************************************)
(* scripts/lib/production_network.py: the configuration the tools accept   *)
(* (validate_config), the ordered rules they install from it               *)
(* (firewall_plan, nft_guard_text) and what these rules do to a packet     *)
(* (nft_filter_rule).                                                      *)
(*                                                                         *)
(* A rule is [m, t]: m maps the packet fields it looks at to the values it *)
(* accepts, t is its target.  RETURN hands the packet to the guest         *)
(* firewall of PVE; a packet no rule names is handed on too.  Addresses    *)
(* are names with a place: a VNet, a node's own address, or outside.       *)
(* Plans are those of node 1 of the two nodes.                             *)
(***************************************************************************)
EXTENDS Naturals, Sequences

CONSTANTS
    Candidates,     \* configurations somebody may write
    Packets         \* packets the policy is checked for

ASSUME FirewallAssumption ==
    /\ \A c \in Candidates : c.bmc \in BOOLEAN
    /\ \A p \in Packets : p.nf \in {"ipv4", "ipv6"}

VARIABLES
    plan            \* <<>>, or <<accepted configuration, has the gateway role>>

VNets == {"pinfra", "pguest"}
NodeAddresses == {"campus1", "mesh1", "campus2", "mesh2"}
Place(a) ==
    CASE a \in {"vm"} -> "pguest"
      [] a \in {"api", "proxy", "sshgw", "dbbackup"} -> "pinfra"
      [] a \in NodeAddresses -> "node"
      [] OTHER -> "outside"

-----------------------------------------------------------------------------
\* validate_config.

\* MUTANT of ValidBackup: a node address is accepted as the backup server.
ValidBackupAnywhere(c) ==
    "backup" \in c.has => Place(c.backup.source) = "pinfra" /\ Place(c.backup.destination) # "pinfra"

\* backup_service: from a pinfra host to a server outside every VNet and node.
ValidBackup(c) ==
    "backup" \in c.has =>
        Place(c.backup.source) = "pinfra" /\ Place(c.backup.destination) = "outside"

\* interim_ingress: an outside source to the proxy.
ValidIngress(c) ==
    "ingress" \in c.has =>
        Place(c.ingress.source) = "outside" /\ c.ingress.destination = c.proxy
        /\ Place(c.proxy) = "pinfra"

\* public_ssh_transit: an outside source to the SSH gateway.
ValidSshTransit(c) ==
    "ssh" \in c.has =>
        Place(c.ssh.source) = "outside" /\ c.ssh.destination = c.sshgw
        /\ Place(c.sshgw) = "pinfra"

\* relay_transit: the relay's own outside address to the API.
ValidRelayTransit(c) ==
    "relay_transit" \in c.has =>
        /\ c.transit.source = c.relay /\ Place(c.relay) = "outside"
        /\ c.transit.destination = c.api /\ Place(c.api) = "pinfra"

ValidateConfig(c) ==
    ValidBackup(c) /\ ValidIngress(c) /\ ValidSshTransit(c) /\ ValidRelayTransit(c)

-----------------------------------------------------------------------------
\* firewall_plan.
Drop(m) == [m |-> m, t |-> "DROP"]
Return(m) == [m |-> m, t |-> "RETURN"]
When(condition, rules) == IF condition THEN rules ELSE <<>>

V4 == {"ipv4"}
V6 == {"ipv6"}
Replies == {"ESTABLISHED"}

BmcInput(c, family) == When(c.bmc,
    <<Return([nf |-> family, i |-> {"bmc"}, ct |-> Replies]), Drop([nf |-> family, i |-> {"bmc"}])>>)
BmcForward(c, family) == When(c.bmc,
    <<Drop([nf |-> family, i |-> {"bmc"}]), Drop([nf |-> family, o |-> {"bmc"}])>>)

\* v4["input"] and v6["input"], behind the VXLAN rules of nft_guard_text: only
\* the peer's mesh address may reach the tunnel port.
InputRules(c) ==
    <<Return([i |-> {"mesh"}, s |-> {"mesh2"}, p |-> {"udp"}, dport |-> {4789}]),
      Drop([p |-> {"udp"}, dport |-> {4789}])>>
    \o BmcInput(c, V4)
    \o <<Return([nf |-> V4, i |-> {"pguest"}, ct |-> Replies]),
         Return([nf |-> V4, i |-> {"pguest"}, p |-> {"icmp"}]),
         Drop([nf |-> V4, i |-> {"pguest"}]),
         Return([nf |-> V4, i |-> {"pinfra"}, s |-> {c.api}, p |-> {"tcp"}, dport |-> {8006}]),
         Drop([nf |-> V4, i |-> {"pinfra"}, p |-> {"tcp"}, dport |-> {22, 8006, 3128, 111}])>>
    \o When("ingress" \in c.has,
            <<Drop([nf |-> V4, d |-> {"campus1"}, p |-> {"tcp"}, dport |-> {24080, 24443}])>>)
    \o When("ssh" \in c.has,
            <<Drop([nf |-> V4, d |-> {"campus1"}, p |-> {"tcp"}, dport |-> {2224}])>>)
    \o BmcInput(c, V6)
    \o <<Drop([nf |-> V6, i |-> VNets])>>

\* A DNAT'ed connection is let through by its original destination and port.
DnatForward(service, port) ==
    Return([nf |-> V4, i |-> {"uplink"}, o |-> {"pinfra"}, s |-> {service.source},
            d |-> {service.destination}, p |-> {"tcp"}, dport |-> {port},
            ct |-> {"NEW"}, orig |-> {<<"campus1", port>>}])

\* What is forwarded only with the gateway role: new connections from the
\* uplink that the configuration names.
TransitRules(c) ==
    When("ingress" \in c.has, <<DnatForward(c.ingress, 24080), DnatForward(c.ingress, 24443)>>)
    \o When("ssh" \in c.has, <<DnatForward(c.ssh, 2224)>>)
    \o When("relay_transit" \in c.has,
         <<Return([nf |-> V4, i |-> {"uplink"}, o |-> {"pguest"}, s |-> {c.transit.source},
                   d |-> {"vm"}, p |-> {"tcp", "udp"}, ct |-> {"NEW"}]),
           Return([nf |-> V4, i |-> {"uplink"}, o |-> {"pinfra"}, s |-> {c.transit.source},
                   d |-> {c.transit.destination}, p |-> {"tcp"}, dport |-> {8080},
                   ct |-> {"NEW"}])>>)

BackupRules(c) == When("backup" \in c.has,
    <<Return([nf |-> V4, i |-> {"pinfra"}, o |-> {"mesh"}, s |-> {c.backup.source},
              d |-> {c.backup.destination}, p |-> {"tcp"}, dport |-> {8007}]),
      Return([nf |-> V4, i |-> {"mesh"}, o |-> {"pinfra"}, s |-> {c.backup.destination},
              d |-> {c.backup.source}, p |-> {"tcp"}, sport |-> {8007}, ct |-> Replies])>>)

\* Inside a VNet; never from a guest to a node; never port 22 over the relay;
\* replies and, with the role, everything out; then the exceptions; then drop.
ForwardRules(c, active) ==
    BmcForward(c, V4)
    \o <<Return([nf |-> V4, i |-> {"pguest"}, o |-> {"pguest"}]),
         Return([nf |-> V4, i |-> {"pinfra"}, o |-> {"pinfra"}]),
         Drop([nf |-> V4, i |-> {"pguest"}, d |-> NodeAddresses])>>
    \o When("relay_transit" \in c.has /\ active,
            <<Drop([nf |-> V4, i |-> {"uplink"}, o |-> {"pguest"}, s |-> {c.transit.source},
                    d |-> {"vm"}, p |-> {"tcp", "udp"}, dport |-> {22}])>>)
    \o <<Return([nf |-> V4, i |-> {"uplink"}, o |-> VNets, ct |-> Replies])>>
    \o When(active, <<Return([nf |-> V4, i |-> VNets, o |-> {"uplink"}])>> \o TransitRules(c))
    \o <<Return([nf |-> V4, i |-> {"pguest"}, o |-> {"pinfra"}, ct |-> Replies]),
         Return([nf |-> V4, i |-> {"pinfra"}, o |-> {"pguest"}, s |-> {c.proxy, c.sshgw, c.relay}])>>
    \o When(active, BackupRules(c))
    \o <<Drop([nf |-> V4, i |-> VNets]), Drop([nf |-> V4, o |-> VNets])>>
    \o BmcForward(c, V6)
    \o <<Return([nf |-> V6, i |-> {"pguest"}, o |-> {"pguest"}]),
         Return([nf |-> V6, i |-> {"pinfra"}, o |-> {"pinfra"}]),
         Drop([nf |-> V6, i |-> VNets]), Drop([nf |-> V6, o |-> VNets])>>

\* v4["dnat"]: with the role, a new connection to a published port of the node
\* goes on to the service behind it.
Dnat(c, active, p) ==
    LET to(service) == [p EXCEPT !.o = "pinfra", !.d = service.destination, !.orig = <<p.d, p.dport>>]
        hit(name, service, ports) ==
            active /\ name \in c.has /\ p.nf = "ipv4" /\ p.i = "uplink" /\ p.s = service.source
            /\ p.d = "campus1" /\ p.p = "tcp" /\ p.dport \in ports IN
    CASE hit("ingress", c.ingress, {24080, 24443}) -> to(c.ingress)
      [] hit("ssh", c.ssh, {2224}) -> to(c.ssh)
      [] OTHER -> p

\* nft_filter_rule: a rule matches when every field it names does.
Matches(rule, p) == \A f \in DOMAIN rule.m : p[f] \in rule.m[f]

\* The first rule that matches decides; the chain's policy is accept.
Verdict(rules, p) ==
    LET hits == {k \in DOMAIN rules : Matches(rules[k], p)} IN
    IF hits = {} THEN "RETURN" ELSE rules[CHOOSE k \in hits : \A l \in hits : k <= l].t

-----------------------------------------------------------------------------
FirewallInit == plan = <<>>

\* A configuration that validates is installed for a role; a later one
\* replaces it.
InstallPlan(c, active) ==
    /\ plan = <<>> /\ ValidateConfig(c)
    /\ plan' = <<c, active>>

RemovePlan == plan # <<>> /\ plan' = <<>>

FirewallNext == (\E c \in Candidates, a \in BOOLEAN : InstallPlan(c, a)) \/ RemovePlan

FirewallSpec == FirewallInit /\ [][FirewallNext]_plan

-----------------------------------------------------------------------------
Outside(a) == Place(a) = "outside"

\* What may be let into a VNet from another interface.
MayEnter(c, active, p) ==
    \/ p.i = "uplink" /\ p.ct # "NEW"
    \/ p.i = "pguest" /\ p.ct # "NEW"
    \/ p.i = "pinfra" /\ p.s \in {c.proxy, c.sshgw, c.relay}
    \/ active /\ p.i = "mesh" /\ p.ct # "NEW" /\ Outside(p.s) /\ "backup" \in c.has
    \/ active /\ p.i = "uplink" /\ Outside(p.s)
       /\ \/ p.orig = <<"campus1", p.dport>> /\ p.dport \in {24080, 24443, 2224}
             /\ p.d = IF p.dport = 2224 THEN c.sshgw ELSE c.proxy
          \/ p.s = c.relay /\ p.dport # 22 /\ p.d \in {"vm", c.api} /\ "relay_transit" \in c.has

\* What may leave a VNet for another interface.
MayLeave(c, active, p) ==
    \/ p.o \in VNets
    \/ active /\ p.o = "uplink" /\ ~(p.i = "pguest" /\ p.d \in NodeAddresses)
    \/ active /\ p.o = "mesh" /\ p.i = "pinfra" /\ Outside(p.d) /\ "backup" \in c.has

\* What a packet that the forward chain lets through has to be.
ForwardPolicy(c, active, p) ==
    /\ c.bmc => "bmc" \notin {p.i, p.o}
    /\ p.nf = "ipv6" /\ {p.i, p.o} \cap VNets # {} => p.i = p.o
    /\ p.o \in VNets /\ p.i # p.o => MayEnter(c, active, p)
    /\ p.i \in VNets /\ p.i # p.o => MayLeave(c, active, p)

\* What a packet that the input chain lets through has to be.
InputPolicy(c, p) ==
    /\ p.i \in VNets => p.nf = "ipv4"
    /\ p.i = "pguest" => p.ct # "NEW" \/ p.p = "icmp"
    /\ p.i = "pinfra" /\ p.p = "tcp" /\ p.dport \in {22, 8006} => p.s = c.api /\ p.dport = 8006
    /\ p.p = "udp" /\ p.dport = 4789 => p.s = "mesh2"

\* The published ports, and a new connection of the service's source to one.
Published(c) ==
    (IF "ingress" \in c.has THEN {[of |-> c.ingress, port |-> k] : k \in {24080, 24443}} ELSE {})
    \cup (IF "ssh" \in c.has THEN {[of |-> c.ssh, port |-> 2224]} ELSE {})
Knock(x) ==
    [nf |-> "ipv4", i |-> "uplink", o |-> "local", s |-> x.of.source, d |-> "campus1",
     p |-> "tcp", dport |-> x.port, sport |-> 0, ct |-> "NEW", orig |-> <<"none", 0>>]

\* With the role it gets through to its service, without it it is dropped.
Reached(c, active, x, q) ==
    IF active THEN q.d = x.of.destination /\ Verdict(ForwardRules(c, active), q) = "RETURN"
              ELSE q.o = "local" /\ Verdict(InputRules(c), q) = "DROP"

(* The installed order of the rules lets through no more than the network's *)
(* policy: a standby forwards nothing new between a VNet and the outside, a *)
(* guest reaches no node address and nothing in pinfra by itself, only the  *)
(* named transits enter from the uplink and never port 22 over the relay,   *)
(* IPv6 stays inside its VNet, the BMC port forwards nothing, and a guest   *)
(* or pinfra host other than the API cannot open a management port of the   *)
(* node.  And no less: with the role the published ports reach their        *)
(* services, without it they are dropped.  For every configuration          *)
(* validate_config accepts.                                                 *)
PolicyHolds ==
    plan # <<>> =>
      LET c == plan[1]
          active == plan[2]
          forward == ForwardRules(c, active)
          input == InputRules(c) IN
      /\ \A p \in Packets :
           /\ p.o # "local" /\ Verdict(forward, p) = "RETURN" => ForwardPolicy(c, active, p)
           /\ p.o = "local" /\ Verdict(input, p) = "RETURN" => InputPolicy(c, p)
      /\ \A x \in Published(c) : Reached(c, active, x, Dnat(c, active, Knock(x)))
=============================================================================
