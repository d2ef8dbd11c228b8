------------------------------ MODULE Planner ------------------------------
(***************************************************************************)
(* What the daemon reads from the host before it connects                  *)
(* (internal/network/snapshot), the full-tunnel plan it makes of it        *)
(* (internal/network/planner), the part of the plan the transaction record *)
(* keeps, and which entries of a record recovery recognises as its own     *)
(* (internal/recovery).  All of it is data: nothing here has a state.      *)
(*                                                                         *)
(* A host is what the plan depends on: the tools, the uplink, and the      *)
(* addresses of the VPN server in the order the resolver returns them.     *)
(* Warnings, descriptions and the IPv6 default route only reach the user   *)
(* and are left out.                                                       *)
(***************************************************************************)
EXTENDS Integers, Sequences

ToolStates == {"ok", "absent", "failing"}
Statuses   == {"detected", "missing", "unknown"}

\* The IPv4 and the IPv6 address of the server, and any other destination.
Family(address) == IF address = "s6" THEN "ipv6" ELSE "ipv4"
Destinations == {"s4", "site"}

-----------------------------------------------------------------------------
(* Networking state: what `ip`, `resolvectl` and `nft` create.  An entry   *)
(* of another kind leaves the fields it has no use for empty.              *)

ManagedInterface   == "podlaz0"
ServerRulePriority == 9999
TunRulePriority    == 10000
MainRulePriority   == 32766

Blank == [kind |-> "", to |-> "", table |-> "", via |-> "", dev |-> "",
          prio |-> 0, backend |-> ""]
Link  == [Blank EXCEPT !.kind = "link", !.dev = ManagedInterface]
Route(to, table, via, dev) ==
  [Blank EXCEPT !.kind = "route", !.to = to, !.table = table, !.via = via, !.dev = dev]
PolicyRule(prio, to, table) ==
  [Blank EXCEPT !.kind = "rule", !.prio = prio, !.to = to, !.table = table]
DNSEntry   == [Blank EXCEPT !.kind = "dns", !.dev = ManagedInterface,
                            !.backend = "systemd-resolved per-link DNS"]
\* "inet podlaz" with its output chain: it accepts what goes to the server,
\* to loopback and into the tunnel, and rejects the rest.
NFTable(server) == [Blank EXCEPT !.kind = "table", !.to = server]

OfKind(net, kind) == {e \in net : e.kind = kind}

\* The kernel drops the routes, and resolved the settings, of a deleted link.
Without(net, gone) ==
  {e \in net \ gone : Link \in gone => e.dev # ManagedInterface}

-----------------------------------------------------------------------------
(* The kernel: rules in the order of their priority, the longest prefix in *)
(* the first table that has a route, then the filter on the way out.       *)

Uplink(host) ==
  IF host.dev = "" THEN {} ELSE {Route("default", "main", host.gw, host.dev)}
RoutesTo(host, net, table, dest) ==
  {r \in OfKind(net, "route") \cup Uplink(host) :
     r.table = table /\ r.to \in {"default", dest}}
RulesFor(host, net, dest) ==
  {r \in OfKind(net, "rule") \cup {PolicyRule(MainRulePriority, "all", "main")} :
     r.to \in {"all", dest} /\ RoutesTo(host, net, r.table, dest) # {}}
Out(host, net, dest) ==
  LET rules == RulesFor(host, net, dest)
  IN  IF rules = {} THEN "none"
      ELSE LET first  == CHOOSE r \in rules : \A s \in rules : r.prio <= s.prio
               routes == RoutesTo(host, net, first.table, dest)
           IN  (CHOOSE r \in routes : r.to = dest \/ \A s \in routes : s.to # dest).dev

Passes(net, dest, dev) ==
  \A t \in OfKind(net, "table") : dest = t.to \/ dev = ManagedInterface

\* The server is reached on the uplink, everything else through the tunnel,
\* and nothing else leaves on the uplink.
Tunnelled(host, net) ==
  /\ Out(host, net, "s4") = host.dev /\ Passes(net, "s4", host.dev)
  /\ Out(host, net, "site") = ManagedInterface /\ Passes(net, "site", ManagedInterface)
  /\ ~Passes(net, "site", host.dev)

-----------------------------------------------------------------------------
(* The snapshot (collect.go).                                              *)

ToolStatus(tool) == CASE tool = "ok"     -> "detected"
                      [] tool = "absent" -> "missing"
                      [] OTHER           -> "unknown"

\* The first IPv4 address, or else the first one.
chooseResolvedIP(answers) ==
  LET v4 == {k \in DOMAIN answers : Family(answers[k]) = "ipv4"}
  IN  IF v4 # {} THEN answers[CHOOSE k \in v4 : \A j \in v4 : k <= j]
      ELSE IF answers # <<>> THEN Head(answers) ELSE ""

\* `ip -4 route show default` prints the main table.
DefaultRoute(host) ==
  CASE host.ip # "ok" -> [status |-> ToolStatus(host.ip), via |-> "", dev |-> ""]
    [] host.ip = "ok" /\ host.dev = ""  -> [status |-> "missing", via |-> "", dev |-> ""]
    [] OTHER          -> [status |-> "detected", via |-> host.gw, dev |-> host.dev]

\* `ip route get <address>` answers for the tables and rules of the moment;
\* the host has no IPv6 uplink of its own unless it says so.
ServerRoute(host, net) ==
  LET ip == chooseResolvedIP(host.answers)
      routed == IF ip = "s6" THEN host.v6 ELSE Out(host, net, ip) # "none"
  IN  CASE host.ip = "absent" -> [status |-> "missing", ip |-> ""]
        [] host.ip # "absent" /\ (host.ip = "failing" \/ ip = "" \/ ~routed) ->
             [status |-> "unknown", ip |-> ""]
        [] OTHER -> [status |-> "detected", ip |-> ip]

CollectSnapshot(host, net) ==
  [default4  |-> DefaultRoute(host),
   server    |-> ServerRoute(host, net),
   resolved  |-> ToolStatus(host.resolvectl),
   nftables  |-> ToolStatus(host.nft),
   nftTable  |-> IF host.nft # "ok" THEN ToolStatus(host.nft)
                 ELSE IF OfKind(net, "table") # {} THEN "detected" ELSE "missing"]

-----------------------------------------------------------------------------
(* The plan (tun.go).                                                      *)

ServerBypassIP(s) == IF s.server.status = "detected" THEN s.server.ip ELSE ""

\* Through the gateway and the interface of the default route.
ServerBypassRoute(s) ==
  Route(ServerBypassIP(s), "main", s.default4.via, s.default4.dev)

Routes(s) == {Route("default", "podlaz", "", ManagedInterface)} \cup
             (IF ServerBypassIP(s) = "" THEN {} ELSE {ServerBypassRoute(s)})

\* BUG: the rule of the server comes after the rule of the tunnel.
RulesServerLast(s) ==
  {PolicyRule(TunRulePriority, "all", "podlaz")} \cup
  (IF ServerBypassIP(s) = "" THEN {}
   ELSE {PolicyRule(TunRulePriority + 1, ServerBypassIP(s), "main")})
PolicyRules(s) ==
  {PolicyRule(TunRulePriority, "all", "podlaz")} \cup
  (IF ServerBypassIP(s) = "" THEN {}
   ELSE {PolicyRule(ServerRulePriority, ServerBypassIP(s), "main")})

DNSAction(s) == IF s.resolved = "detected" THEN "configure" ELSE "blocked"
FirewallTableAction(s) ==
  CASE s.nftTable = "detected" -> "validate-or-replace"
    [] s.nftables # "detected" -> "blocked"
    [] OTHER                   -> "create"

PlanTun(s) ==
  [entries  |-> {Link, DNSEntry, NFTable(ServerBypassIP(s))}
                  \cup Routes(s) \cup PolicyRules(s),
   bypass   |-> ServerBypassIP(s),
   dns      |-> DNSAction(s),
   firewall |-> FirewallTableAction(s)]

-----------------------------------------------------------------------------
(* Apply, as far as the plan and the host decide how it ends: what the     *)
(* executors refuse, and what the kernel does, step by step.               *)

\* A route to the server that is there already is adopted only if it names
\* a gateway and an interface.
mainServerBypassRoute(r) == /\ r.table = "main" /\ Family(r.to) = "ipv4"
                            /\ r.via # "" /\ r.dev # ""

\* validate comes first: a plan that it refuses changes nothing.
Validated(plan) == plan.dns = "configure" /\ plan.firewall = "create"

\* One step of the plan; a rule is adopted if it is the same.
Applicable(e, host, net) ==
  /\ e.kind = "link"  => host.ip = "ok" /\ e \notin net
  /\ e.kind = "route" => /\ Family(e.to) = "ipv4" /\ (e.via # "" \/ e.dev # "")
                         /\ e \in net => mainServerBypassRoute(e)
  /\ e.kind = "rule"  => \A old \in OfKind(net, "rule") : old.prio = e.prio => old = e

Applies(plan, host, net) ==
  Validated(plan) /\ \A e \in plan.entries : Applicable(e, host, net)

\* The order of Apply.
Position(e) == CASE e.kind = "link"                                 -> 1
                 [] e.kind = "route" /\ e.to = "default"            -> 2
                 [] e.kind = "route" /\ e.to # "default"            -> 3
                 [] e.kind = "rule"  /\ e.prio = ServerRulePriority -> 4
                 [] e.kind = "rule"  /\ e.prio # ServerRulePriority -> 5
                 [] e.kind = "dns"                                  -> 6
                 [] OTHER                                           -> 7
Before(plan, e) == {f \in plan.entries : Position(f) < Position(e)}

\* What Apply reports, and so what the record knows of.
Applied(entries, net) == entries \ net

-----------------------------------------------------------------------------
(* What recovery recognises in a record (daemon_executor.go).              *)

\* BUG: the priority that is checked is the one of the other rule.
SafeRuleOfTunPriority(r) == /\ r.prio = TunRulePriority /\ r.table = "main"
                            /\ Family(r.to) = "ipv4"
safeMainServerBypassPolicyRule(r) == /\ r.prio = ServerRulePriority /\ r.table = "main"
                                     /\ Family(r.to) = "ipv4"
safeMainServerBypassRoute(r) == /\ r.table = "main" /\ Family(r.to) = "ipv4"
                                /\ r.via # "" /\ r.dev # ""
managedTable(table) == table = "podlaz"

RecognisedRule(r)  == safeMainServerBypassPolicyRule(r) \/ managedTable(r.table)
RecognisedRoute(r) == \/ safeMainServerBypassRoute(r)
                      \/ managedTable(r.table) /\ r.dev \in {"", ManagedInterface}
RecognisedDNS(d)   == d.dev = ManagedInterface /\ d.backend \in {"", "systemd-resolved"}
Recognised(e) == CASE e.kind = "rule"  -> RecognisedRule(e)
                   [] e.kind = "route" -> RecognisedRoute(e)
                   [] e.kind = "dns"   -> RecognisedDNS(e)
                   [] OTHER            -> e = Link \/ e.kind = "table"

\* The command that undoes an entry.
Tool(e) == IF e.kind = "table" THEN "nft" ELSE "ip"
=============================================================================
