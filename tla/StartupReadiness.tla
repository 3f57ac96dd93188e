-------------------------- MODULE StartupReadiness --------------------------
(***************************************************************************)
(* scripts/production-network.py: the read-only checks before a reconcile  *)
(* and the two waits on them.  Each check reads a part of the world that   *)
(* appears piece by piece after a boot or a NetBird restart, and answers   *)
(* "ready", "absent" (a typed NotReady error, worth waiting for) or        *)
(* "refused" (any other error, which ends the wait at once).               *)
(*                                                                         *)
(* A mark is [bits, full]: its bits and whether its mask is complete.  A   *)
(* layout is the marks one family's rules accept and set.  The commands of *)
(* one attempt are one step; the world changes between attempts.           *)
(***************************************************************************)
EXTENDS Naturals, FiniteSets

CONSTANTS
    Clusters, Links, Layouts, Firewalls,   \* what the checks may find
    MaxAttempts                            \* bound: attempts before the deadline

Marks == [bits : SUBSET (0 .. 31), full : BOOLEAN]

ASSUME ReadinessAssumption ==
    /\ \A c \in Clusters : c.name \in {"right", "wrong", "absent"} /\ c.quorate \in BOOLEAN
    /\ Links \subseteq {"missing", "noPeer", "noRoute", "wrong", "right"}
    /\ Layouts \subseteq [accepted : SUBSET Marks, setters : SUBSET Marks]
    /\ Firewalls \subseteq {"disabled", "noChain", "right", "noGuests"}
    /\ MaxAttempts \in Nat

VARIABLES
    world,      \* [cluster, links, iptables, ip6tables, firewall], as it is now
    waiter      \* [mode, attempts, consecutive, outcome, streak, seen]

readinessVars == <<world, waiter>>

Members == {"self", "peer"}
PveBits == {2}
ExpectedMark == [bits |-> {0}, full |-> TRUE]

-----------------------------------------------------------------------------
\* cluster_check: an identity that contradicts the configuration is refused,
\* however incomplete the metadata still is.
ClusterCheck(c) ==
    IF c.name = "wrong" \/ c.nodes \ Members # {} THEN "refused"
    ELSE IF c.name = "absent" \/ Members \ c.nodes # {} THEN "absent"
    ELSE IF ~c.quorate THEN "absent"
    ELSE "ready"

\* check_links: the VNets and their tunnels, the peer and the route to it.
CheckLinks(l) ==
    CASE l \in {"missing", "noPeer", "noRoute"} -> "absent"
      [] l = "wrong" -> "refused"
      [] OTHER -> "ready"

\* parse_netbird_accept_mark: at most one mark that accepts and one that is
\* set, of known shape and clear of PVE's bits; then both must be there and be
\* the same.
ParseNetbirdAcceptMark(layout) ==
    IF \/ Cardinality(layout.accepted) > 1 \/ Cardinality(layout.setters) > 1
       \/ \E m \in layout.accepted \cup layout.setters :
             ~m.full \/ m.bits = {} \/ m.bits \cap PveBits # {} THEN "refused"
    ELSE IF layout.accepted = {} \/ layout.setters = {} THEN "absent"
    ELSE IF layout.accepted # layout.setters THEN "refused"
    ELSE "ready"

\* MUTANT of AcceptMark: the families are not compared with each other.
AcceptMarkEither(v4, v6) ==
    IF ParseNetbirdAcceptMark(v4) # "ready" THEN ParseNetbirdAcceptMark(v4)
    ELSE ParseNetbirdAcceptMark(v6)

\* accept_mark: ip6tables is read only after iptables was parsed, so whatever
\* is missing there hides what is wrong here; the two must have the same mark.
AcceptMark(v4, v6) ==
    IF ParseNetbirdAcceptMark(v4) # "ready" THEN ParseNetbirdAcceptMark(v4)
    ELSE IF ParseNetbirdAcceptMark(v6) # "ready" THEN ParseNetbirdAcceptMark(v6)
    ELSE IF v4.accepted # v6.accepted THEN "refused"
    ELSE "ready"

\* Both waits compare the mark with the one the installation recorded.
ObservedMark(w) ==
    IF AcceptMark(w.iptables, w.ip6tables) = "ready" /\ w.iptables.accepted # {ExpectedMark}
    THEN "refused" ELSE AcceptMark(w.iptables, w.ip6tables)

\* guest_firewall_check: with guests the PVE firewall is on and has its chain.
GuestFirewallCheck(f) ==
    CASE f = "disabled" -> "refused" [] f = "noChain" -> "absent" [] OTHER -> "ready"

\* reconcile_readiness: the checks in their order; the first that does not
\* pass decides.
ReconcileReadiness(w) ==
    LET checks == <<ClusterCheck(w.cluster), CheckLinks(w.links), ObservedMark(w),
                    GuestFirewallCheck(w.firewall)>>
        failed == {k \in DOMAIN checks : checks[k] # "ready"} IN
    IF failed = {} THEN "ready" ELSE checks[CHOOSE k \in failed : \A l \in failed : k <= l]

-----------------------------------------------------------------------------
Complete(w) ==
    /\ w.cluster.name = "right" /\ w.cluster.nodes = Members /\ w.cluster.quorate
    /\ w.links = "right" /\ w.firewall \in {"right", "noGuests"}
Whole(layout, m) == layout.accepted = {m} /\ layout.setters = {m}
MarkComplete(w) == Whole(w.iptables, ExpectedMark) /\ Whole(w.ip6tables, ExpectedMark)

\* "startup" is wait_for_startup_readiness, "mark" is wait_for_accept_mark.
NoWait == [mode |-> "none", attempts |-> 0, consecutive |-> 0, outcome |-> "none",
           streak |-> 0, seen |-> FALSE]
Reading(mode, w) == IF mode = "mark" THEN ObservedMark(w) ELSE ReconcileReadiness(w)
Needed(mode) == IF mode = "mark" THEN 2 ELSE 1
Proven(mode, w) == MarkComplete(w) /\ (mode = "mark" \/ Complete(w))

NoMarks == [accepted |-> {}, setters |-> {}]
FirstWorld == [cluster |-> [name |-> "absent", nodes |-> {"self"}, quorate |-> FALSE],
               links |-> "missing", iptables |-> NoMarks, ip6tables |-> NoMarks,
               firewall |-> "noChain"]

ReadinessInit == world = FirstWorld /\ waiter = NoWait

BeginWait(mode) ==
    /\ waiter = NoWait
    /\ waiter' = [NoWait EXCEPT !.mode = mode, !.outcome = "waiting"]
    /\ UNCHANGED world

\* The rules, links and rows appear, change and vanish one by one.
WorldChanges ==
    /\ waiter.outcome \in {"none", "waiting"}
    /\ \/ \E c \in Clusters : world' = [world EXCEPT !.cluster = c]
       \/ \E l \in Links : world' = [world EXCEPT !.links = l]
       \/ \E y \in Layouts : world' = [world EXCEPT !.iptables = y]
       \/ \E y \in Layouts : world' = [world EXCEPT !.ip6tables = y]
       \/ \E f \in Firewalls : world' = [world EXCEPT !.firewall = f]
    /\ waiter' = [waiter EXCEPT !.seen = FALSE]

\* One attempt; a success counts only in a row, an absence starts over, and
\* anything else ends the wait.
Attempt ==
    LET reading == Reading(waiter.mode, world)
        row == IF reading = "ready" THEN waiter.consecutive + 1 ELSE 0 IN
    /\ waiter.outcome = "waiting" /\ waiter.attempts < MaxAttempts
    /\ waiter' = [waiter EXCEPT
          !.attempts = @ + 1, !.consecutive = row, !.seen = TRUE,
          !.streak = IF Proven(waiter.mode, world) THEN @ + 1 ELSE 0,
          !.outcome = CASE reading = "refused" -> "refused"
                        [] row = Needed(waiter.mode) -> "ready"
                        [] OTHER -> "waiting"]
    /\ UNCHANGED world

\* The deadline passes without the success that was needed.
WaitExpires ==
    /\ waiter.outcome = "waiting" /\ waiter.attempts = MaxAttempts
    /\ waiter' = [waiter EXCEPT !.outcome = "expired"]
    /\ UNCHANGED world

\* The caller goes on, or raises; later another wait begins.
WaitEnds ==
    /\ waiter.outcome \in {"ready", "refused", "expired"}
    /\ waiter' = NoWait /\ world' = FirstWorld

ReadinessNext ==
    (\E m \in {"startup", "mark"} : BeginWait(m)) \/ WorldChanges \/ Attempt \/ WaitExpires \/ WaitEnds

ReadinessSpec == ReadinessInit /\ [][ReadinessNext]_readinessVars

-----------------------------------------------------------------------------
\* A mark that is masked or takes PVE's bits.
Foul(layout) ==
    \E m \in layout.accepted \cup layout.setters : ~m.full \/ m.bits \cap PveBits # {}

\* What no further waiting can put right, as far as the wait can see it: it
\* looks at ip6tables only when iptables has its mark.
MarkContradicts(w) ==
    \/ Foul(w.iptables)
    \/ \E m \in w.iptables.accepted :
          /\ Whole(w.iptables, m)
          /\ Foul(w.ip6tables) \/ \E n \in w.ip6tables.accepted :
                Whole(w.ip6tables, n) /\ (m # ExpectedMark \/ n # ExpectedMark)

Contradicts(mode, w) ==
    \/ mode = "startup" /\ (w.cluster.name = "wrong" \/ w.cluster.nodes \ Members # {})
    \/ mode = "mark" /\ MarkContradicts(w)

(* A wait ends well only on readings in which everything was there and as   *)
(* recorded, in both rule families, the mark twice in a row although        *)
(* NetBird rebuilds its rules between the readings; and it goes on only     *)
(* for what is absent.  At boot another cluster's identity ends it however  *)
(* incomplete the rest still is.  After a NetBird restart a mark with a     *)
(* partial mask or PVE's bits ends it, in iptables whatever else is         *)
(* missing, in ip6tables once iptables has its mark; and so does a mark in  *)
(* both families that is not the recorded one in each.                      *)
ReadinessIsProven ==
    /\ waiter.outcome = "ready" => waiter.streak >= Needed(waiter.mode)
    /\ waiter.outcome = "waiting" /\ waiter.seen => ~Contradicts(waiter.mode, world)
=============================================================================
