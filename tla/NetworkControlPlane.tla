------------------------- MODULE NetworkControlPlane -------------------------
(***************************************************************************)
(* NetworkControlPlane (src/src/service/network_control_plane*.cpp) over   *)
(* NetworkConfigurator and the DHCP client: which default routes and which *)
(* resolver content the service owns, and how lease facts, policy changes, *)
(* explicit applies and repair passes move them.                           *)
(*                                                                         *)
(* lock_ makes every entry point atomic.  Inside one, each platform call   *)
(* may fail; an entry point is therefore a set of outcomes [ok, s].        *)
(* A fault budget bounds the failures, a drift budget what other managers  *)
(* do to the kernel and to /etc/resolv.conf.                               *)
(***************************************************************************)
EXTENDS Outcomes

CONSTANTS
    Facts,        \* Facts[i]: the lease facts the client of interface i may publish
    Statics,      \* the static Ethernet configurations that may be applied
    Policies,     \* the policies set_route_policy may be given
    ForeignRoutes,\* default routes another manager may add
    ForeignDns,   \* a nameserver another manager may write
    NoGw, NoDns,  \* the empty gateway and nameserver strings
    MaxFaults,    \* bound: platform calls that fail
    MaxDrift      \* bound: changes made by other managers

Ifaces == {"eth", "wifi"}
\* LeaseState{}.lease, StaticEthernetState{} and OwnedRouteState{}.
NoFact   == [event |-> "None", gw |-> NoGw, dns |-> NoDns]
NoStatic == [gw |-> NoGw, dns |-> NoDns, active |-> FALSE, metric |-> 10]
NoLink   == [active |-> FALSE, managed |-> FALSE, lease |-> NoFact]
NoRoute  == [gw |-> NoGw, metric |-> 0, iface |-> "none"]
NoAddr   == [event |-> "NoAddr", gw |-> NoGw, dns |-> NoDns]

Route(i, g, m) == [gw |-> g, metric |-> m, iface |-> i]
Configured(fact) == fact.event \in {"Bound", "Renew"}

DhcpLeaseEvent == {"None", "Bound", "Renew", "Deconfig"}
RoutePolicy == {"EthernetPreferred", "WifiPreferred", "WifiOnly", "ManualMetric"}

\* Addresses, gateways and nameservers are strings.
LeaseFact == [event : DhcpLeaseEvent, gw : STRING, dns : STRING]
StaticCfg == [active : BOOLEAN, gw : STRING, dns : STRING, metric : Int]
Routes    == [iface : Ifaces \cup {"none"}, gw : STRING, metric : Int]

ASSUME StringAssumption ==
    /\ NoGw \in STRING /\ NoDns \in STRING /\ ForeignDns \in STRING
    /\ ForeignRoutes \subseteq Routes
    /\ Policies \subseteq RoutePolicy

\* No manager writes an empty nameserver.
ASSUME DnsAssumption == ForeignDns # NoDns

ASSUME FactAssumption == Facts \in [Ifaces -> SUBSET LeaseFact]

ASSUME StaticAssumption == Statics \subseteq StaticCfg

ASSUME BudgetAssumption == MaxFaults \in Nat /\ MaxDrift \in Nat

VARIABLES
    link,            \* eth_, wifi_ (a lease stands for its fingerprint too)
    static_eth,      \* static_eth_
    owned,           \* eth_route_, wifi_route_
    route_policy,    \* route_policy_
    dns_initialized, managed_dns, last_dns,
    client,          \* interfaces whose udhcpc runs
    lease,           \* the published lease fact, NoFact if none
    routes,          \* live default routes
    addr,            \* live IPv4 address: the fact or static config that names it
    resolver,        \* /etc/resolv.conf: nameserver and ownership marker
    created,         \* history: those of the live routes that this process added
    faults, drift    \* budgets left

vars == <<link, static_eth, owned, route_policy, dns_initialized, managed_dns,
          last_dns, client, lease, routes, addr, resolver, created, faults, drift>>

State ==
    [link |-> link, static |-> static_eth, owned |-> owned, policy |-> route_policy,
     init |-> dns_initialized, managed |-> managed_dns, last |-> last_dns,
     client |-> client, lease |-> lease, routes |-> routes, addr |-> addr,
     resolver |-> resolver, created |-> created, faults |-> faults]

\* The step leaves the state s.
Become(s) ==
    /\ link' = s.link /\ static_eth' = s.static /\ owned' = s.owned
    /\ route_policy' = s.policy /\ dns_initialized' = s.init
    /\ managed_dns' = s.managed /\ last_dns' = s.last
    /\ client' = s.client /\ lease' = s.lease /\ routes' = s.routes
    /\ addr' = s.addr /\ resolver' = s.resolver /\ created' = s.created
    /\ faults' = s.faults

-----------------------------------------------------------------------------
(***************************************************************************)
(* Platform: NetworkConfigurator and UdhcpcProcess.                        *)
(***************************************************************************)
apply_ipv4(s, i, a) == Ok([s EXCEPT !.addr[i] = a]) \cup Failed(s)

\* The kernel drops the interface's routes with its last address.
clear_ipv4(s, i) ==
    LET u == [s EXCEPT !.addr[i] = NoAddr]
        on_i == {r \in s.routes : r.iface = i}
    IN  Ok(u) \cup Ok([u EXCEPT !.routes = @ \ on_i, !.created = @ \ on_i]) \cup Failed(s)

\* Ensure-exact: an existing identical route is success without a command.
set_default_route(s, r) ==
    IF r \in s.routes THEN Ok(s)
    ELSE Ok([s EXCEPT !.routes = @ \cup {r}, !.created = @ \cup {r}]) \cup Failed(s)

clear_default_route(s, r) ==
    IF r \notin s.routes THEN Ok(s)
    ELSE Ok([s EXCEPT !.routes = @ \ {r}, !.created = @ \ {r}]) \cup Failed(s)

\* Opening with trunc and then failing to write leaves the file empty.
set_primary_dns(s, d) ==
    Ok([s EXCEPT !.resolver = [ns |-> d, marker |-> TRUE]])
        \cup Failed(s)
        \cup Failed([s EXCEPT !.resolver = [ns |-> NoDns, marker |-> FALSE]])

\* Mutant: truncates without looking at the marker.
clear_dns_Unmarked(s) ==
    Ok([s EXCEPT !.resolver = [ns |-> NoDns, marker |-> FALSE]]) \cup Failed(s)

clear_dns(s) ==
    IF ~s.resolver.marker THEN Ok(s)
    ELSE Ok([s EXCEPT !.resolver = [ns |-> NoDns, marker |-> FALSE]]) \cup Failed(s)

\* UdhcpcProcess::stop and DhcpLeaseStore::clear.
stop_client(s, i) == [s EXCEPT !.client = @ \ {i}, !.lease[i] = NoFact]
start_client(s, i) == Ok([s EXCEPT !.client = @ \cup {i}]) \cup Failed(s)

(***************************************************************************)
(* Route ownership.                                                        *)
(***************************************************************************)
clear_owned_route(s, i) ==
    IF s.owned[i] = NoRoute THEN Ok(s)
    ELSE Then(clear_default_route(s, s.owned[i]),
              LAMBDA u : Ok([u EXCEPT !.owned[i] = NoRoute]))

\* Mutant: a changed gateway or metric forgets the old identity.
ensure_owned_route_Forget(s, i, g, m) ==
    IF g = NoGw THEN clear_owned_route(s, i)
    ELSE Then(set_default_route(s, Route(i, g, m)),
              LAMBDA u : Ok([u EXCEPT !.owned[i] = Route(i, g, m)]))

\* Mutant: facts without a gateway are taken for a route like any other.
ensure_owned_route_NoGateway(s, i, g, m) ==
    Then(IF s.owned[i] \notin {NoRoute, Route(i, g, m)}
         THEN clear_owned_route(s, i) ELSE Ok(s),
         LAMBDA u : Then(set_default_route(u, Route(i, g, m)),
                         LAMBDA v : Ok([v EXCEPT !.owned[i] = Route(i, g, m)])))

ensure_owned_route(s, i, g, m) ==
    IF g = NoGw THEN clear_owned_route(s, i)
    ELSE Then(IF s.owned[i] \notin {NoRoute, Route(i, g, m)}
              THEN clear_owned_route(s, i) ELSE Ok(s),
              LAMBDA u : Then(set_default_route(u, Route(i, g, m)),
                              LAMBDA v : Ok([v EXCEPT !.owned[i] = Route(i, g, m)])))

route_allowed(s, i) == ~(s.policy = "WifiOnly" /\ i = "eth")

\* manual is -1 unless the route belongs to a static configuration.
route_metric(s, i, manual) ==
    CASE s.policy \in {"WifiPreferred", "WifiOnly"} -> IF i = "wifi" THEN 10 ELSE 20
      [] s.policy = "ManualMetric" /\ manual >= 0 -> manual
      [] OTHER -> IF i = "eth" THEN 10 ELSE 20

\* The gateway and metric the current facts ask for, NoGw for no route.
DesiredGw(s, i) ==
    IF i = "eth" /\ s.static.active /\ s.static.gw # NoGw
    THEN IF route_allowed(s, i) THEN s.static.gw ELSE NoGw
    ELSE IF s.link[i].active /\ route_allowed(s, i) THEN s.link[i].lease.gw ELSE NoGw

DesiredMetric(s, i) ==
    route_metric(s, i, IF i = "eth" /\ s.static.active /\ s.static.gw # NoGw
                       THEN s.static.metric ELSE -1)

ensure_desired(s, i) == ensure_owned_route(s, i, DesiredGw(s, i), DesiredMetric(s, i))

apply_routes(s) == Then(ensure_desired(s, "eth"), LAMBDA u : ensure_desired(u, "wifi"))

(***************************************************************************)
(* recompute_dns_locked.                                                   *)
(***************************************************************************)
EthRoute(s) ==
    /\ route_allowed(s, "eth")
    /\ \/ s.static.active /\ s.static.gw # NoGw
       \/ s.link["eth"].active /\ s.link["eth"].lease.gw # NoGw
WifiRoute(s) == s.link["wifi"].active /\ s.link["wifi"].lease.gw # NoGw
EthDns(s)  == IF s.static.active THEN s.static.dns ELSE s.link["eth"].lease.dns
WifiDns(s) == s.link["wifi"].lease.dns

\* A live Ethernet default route that no managed state asks for is someone else's.
PreserveExternal(s) ==
    /\ s.policy = "EthernetPreferred"
    /\ ~EthRoute(s)
    /\ \E r \in s.routes : r.iface = "eth"

EthSelected(s)  == IF EthRoute(s) THEN EthDns(s) ELSE NoDns
WifiSelected(s) == IF WifiRoute(s) THEN WifiDns(s) ELSE NoDns

SelectedDns(s) ==
    CASE s.policy = "WifiPreferred" ->
            IF WifiSelected(s) # NoDns THEN WifiSelected(s) ELSE EthSelected(s)
      [] s.policy = "WifiOnly" -> WifiSelected(s)
      [] s.policy = "ManualMetric" ->
            IF /\ WifiRoute(s)
               /\ \/ ~EthRoute(s)
                  \/ route_metric(s, "wifi", -1) < route_metric(s, "eth", s.static.metric)
            THEN WifiDns(s) ELSE EthSelected(s)
      [] OTHER -> IF EthSelected(s) # NoDns THEN EthSelected(s) ELSE WifiSelected(s)

\* The first pass recovers ownership of the resolver from its marker.
init_dns_ownership(s) ==
    IF s.init THEN s
    ELSE [s EXCEPT !.init = TRUE,
                   !.managed = s.resolver.marker,
                   !.last = IF s.resolver.marker THEN s.resolver.ns ELSE NoDns]

relinquish_dns(s) ==
    IF ~s.managed THEN Ok(s)
    ELSE Then(clear_dns(s), LAMBDA u : Ok([u EXCEPT !.managed = FALSE, !.last = NoDns]))

select_dns(s, d) ==
    IF s.managed /\ s.last = d /\ s.resolver.ns = d THEN Ok(s)
    ELSE Then(set_primary_dns(s, d),
              LAMBDA u : Ok([u EXCEPT !.managed = TRUE, !.last = d]))

\* Mutant: a fresh process starts with ownership unknown and never recovers it.
recompute_dns_NoRecovery(s0) ==
    LET s == [s0 EXCEPT !.init = TRUE]
    IN  IF ~PreserveExternal(s) /\ SelectedDns(s) # NoDns
        THEN select_dns(s, SelectedDns(s)) ELSE relinquish_dns(s)

recompute_dns(s0) ==
    LET s == init_dns_ownership(s0)
    IN  IF ~PreserveExternal(s) /\ SelectedDns(s) # NoDns
        THEN select_dns(s, SelectedDns(s)) ELSE relinquish_dns(s)

(***************************************************************************)
(* Entry points.                                                           *)
(***************************************************************************)
reset_link(s, i) == [s EXCEPT !.link[i] = NoLink]

\* Mutant: a DHCP start leaves the static configuration in force.
start_dhcp_KeepStatic(s, i) ==
    Then(clear_owned_route(s, i), LAMBDA a :
    Always(clear_ipv4(stop_client(a, i), i), LAMBDA b :
    Then(recompute_dns(reset_link(b, i)), LAMBDA d :
    Then(start_client(d, i), LAMBDA e :
        Ok([e EXCEPT !.link[i].managed = TRUE])))))

start_dhcp(s, i) ==
    Then(clear_owned_route(s, i), LAMBDA a :
    Always(clear_ipv4(stop_client(a, i), i), LAMBDA b :
    LET c == IF i = "eth" THEN [reset_link(b, i) EXCEPT !.static = NoStatic]
                          ELSE reset_link(b, i)
    IN
    Then(recompute_dns(c), LAMBDA d :
    Then(start_client(d, i), LAMBDA e :
        Ok([e EXCEPT !.link[i].managed = TRUE])))))

stop_dhcp(s, i) ==
    Always(clear_owned_route(s, i), LAMBDA a :
    Always(clear_ipv4(stop_client(a, i), i), LAMBDA b :
    recompute_dns(reset_link(b, i))))

apply_ethernet_static(s, cfg) ==
    Then(clear_owned_route(s, "eth"), LAMBDA a :
    LET b == [reset_link(stop_client(a, "eth"), "eth") EXCEPT !.static = NoStatic]
    IN
    Then(apply_ipv4(b, "eth", cfg), LAMBDA c :
    Then(apply_routes([c EXCEPT !.static = cfg]), recompute_dns)))

\* A lease fact whose fingerprint is not the applied one.
NewFact(s, i) == s.link[i].managed /\ s.lease[i] \notin {NoFact, s.link[i].lease}

reconcile_link(s, i) ==
    LET fact == s.lease[i]
        done(u) == Ok([u EXCEPT !.link[i].active = Configured(fact),
                                !.link[i].lease = fact])
    IN  IF ~s.link[i].managed THEN Ok(s)
        ELSE Failed(s) \cup                                    \* read_lease fails
             IF ~NewFact(s, i) THEN Ok(s)
             ELSE IF ~Configured(fact)
             THEN Then(clear_owned_route(s, i), LAMBDA a :
                  Then(clear_ipv4(a, i), done))
             ELSE Then(apply_ipv4(s, i, fact), LAMBDA a :
                  Then(IF route_allowed(a, i)
                       THEN ensure_owned_route(a, i, fact.gw, route_metric(a, i, -1))
                       ELSE clear_owned_route(a, i), done))

reconcile_links(s) ==
    Then(reconcile_link(s, "eth"), LAMBDA u : reconcile_link(u, "wifi"))

\* Mutant: the live address and route are trusted once they were applied.
repair_link_Skip(s, i) == Ok(s)

\* Address, then route, of a link with desired facts; a route the policy does
\* not allow, or that nothing asks for, is left alone.  The interfaces exist.  A
\* recorded route that is live is not asked for again; here ensure_desired is, and
\* changes nothing or fails.
repair_link(s, i) ==
    LET want == IF i = "eth" /\ s.static.active THEN s.static ELSE s.link[i].lease
    IN  IF ~(i = "eth" /\ s.static.active) /\ ~s.link[i].active THEN Ok(s)
        ELSE Then(IF s.addr[i] = want THEN Ok(s) ELSE apply_ipv4(s, i, want),
                  LAMBDA u : IF ~route_allowed(u, i) \/ want.gw = NoGw THEN Ok(u)
                             ELSE ensure_desired(u, i))

repair_owned_state(s) ==
    Then(repair_link(s, "eth"), LAMBDA u : repair_link(u, "wifi"))

\* reconcile(changed, error): the 250 ms tick with Netlink available.
reconcile_changed(s) ==
    Then(reconcile_links(s), LAMBDA u :
        IF u.link # s.link \/ ~u.init THEN recompute_dns(u) ELSE Ok(u))

\* reconcile(error): the 250 ms tick without Netlink.
reconcile_full(s) ==
    Then(reconcile_links(s), LAMBDA u : Then(repair_owned_state(u), recompute_dns))

refresh_external_state(s) == Then(repair_owned_state(s), recompute_dns)

\* Mutant: a failed change is not rolled back.
set_route_policy_NoRollback(s, p) ==
    Then(apply_routes([s EXCEPT !.policy = p]), recompute_dns)

set_route_policy(s, p) ==
    Rollback(Then(apply_routes([s EXCEPT !.policy = p]), recompute_dns),
             LAMBDA u : Always(apply_routes([u EXCEPT !.policy = s.policy]), recompute_dns))

-----------------------------------------------------------------------------
(* Construction: fresh, or adopting clients that outlived the last process, *)
(* over whatever routes and resolver the host already has.                  *)
adopt_dhcp(i, adopted) ==
    IF i \in adopted THEN [NoLink EXCEPT !.managed = TRUE] ELSE NoLink

Init ==
    /\ client \in SUBSET Ifaces
    /\ link = [i \in Ifaces |-> adopt_dhcp(i, client)]
    /\ static_eth = NoStatic
    /\ owned = [i \in Ifaces |-> NoRoute]
    /\ route_policy = "EthernetPreferred"
    /\ dns_initialized = FALSE /\ managed_dns = FALSE /\ last_dns = NoDns
    /\ lease = [i \in Ifaces |-> NoFact]
    /\ routes \in SUBSET ForeignRoutes
    /\ addr = [i \in Ifaces |-> NoAddr]
    /\ resolver \in {[ns |-> NoDns, marker |-> FALSE],
                     [ns |-> ForeignDns, marker |-> FALSE],
                     [ns |-> ForeignDns, marker |-> TRUE]}
    /\ created = {}
    /\ faults = MaxFaults
    /\ drift = MaxDrift

Perform(outs) == (\E o \in outs : Become(o.s)) /\ UNCHANGED drift

StartDhcp(i)      == Perform(start_dhcp(State, i))
StopDhcp          == Perform(stop_dhcp(State, "wifi"))
SetRoutePolicy(p) == Perform(set_route_policy(State, p))
Reconcile         == Perform(reconcile_changed(State))
ReconcileFull     == Perform(reconcile_full(State))
Refresh           == Perform(refresh_external_state(State))

\* The callback script of a running client publishes a fact.
PublishLease(i) ==
    /\ i \in client
    /\ \E f \in Facts[i] : lease' = [lease EXCEPT ![i] = f]
    /\ UNCHANGED <<link, static_eth, owned, route_policy, dns_initialized, managed_dns,
                   last_dns, client, routes, addr, resolver, created, faults, drift>>

\* Another manager, or the kernel, changes routes, an address or the resolver.
Drift ==
    /\ drift > 0 /\ drift' = drift - 1
    /\ \/ /\ \E r \in routes : routes' = routes \ {r} /\ created' = created \ {r}
          /\ UNCHANGED <<addr, resolver>>
       \/ /\ \E r \in ForeignRoutes \ routes : routes' = routes \cup {r}
          /\ UNCHANGED <<addr, resolver, created>>
       \/ /\ \E i \in Ifaces : addr' = [addr EXCEPT ![i] = NoAddr]
          /\ UNCHANGED <<routes, resolver, created>>
       \/ /\ resolver' = [ns |-> ForeignDns, marker |-> FALSE]
          /\ UNCHANGED <<routes, addr, created>>
    /\ UNCHANGED <<link, static_eth, owned, route_policy, dns_initialized, managed_dns,
                   last_dns, client, lease, faults>>

-----------------------------------------------------------------------------
(* Properties *)
\* Types of the fields (one type invariant for the module); an active
\* OwnedRouteState is a whole identity: its interface's own, with a gateway.
StateType ==
    [link : [Ifaces -> [managed : BOOLEAN, active : BOOLEAN, lease : LeaseFact]],
     static : StaticCfg, owned : [Ifaces -> Routes], policy : RoutePolicy,
     init : BOOLEAN, managed : BOOLEAN, last : STRING,
     client : SUBSET Ifaces, lease : [Ifaces -> LeaseFact],
     routes : SUBSET Routes, addr : [Ifaces -> LeaseFact \cup StaticCfg \cup {NoAddr}],
     resolver : [ns : STRING, marker : BOOLEAN],
     created : SUBSET Routes, faults : Nat]
OwnedWhole(o) == \A i \in Ifaces : o[i] = NoRoute \/ (o[i].iface = i /\ o[i].gw # NoGw)
TypeOK == State \in StateType /\ OwnedWhole(owned) /\ drift \in Nat

\* No leaked routes: a default route this process added and that is still live
\* is the identity it records for that interface, so a later stop, deconfig or
\* policy change can remove it.  Every failure path of ensure/clear must keep it.
NoLeakedRoute == \A r \in created : owned[r.iface] = r

\* The resolver marker is never orphaned: a resolver file that carries the
\* service's marker is known to be managed once ownership was initialized, so
\* recompute_dns_locked will update or clear it.
MarkerTracked == resolver.marker => managed_dns \/ ~dns_initialized

\* Ethernet has one owner: static configuration and managed DHCP are never both
\* in force, whatever failures interrupt start_dhcp or apply_ethernet_static.
StaticExcludesDhcp == ~(static_eth.active /\ link["eth"].managed)

\* What the present facts and policy ask for is in place.
RouteInPlace(i) ==
    LET want == Route(i, DesiredGw(State, i), DesiredMetric(State, i))
    IN  want.gw # NoGw => owned[i] = want /\ want \in routes
RouteGone(i) == DesiredGw(State, i) = NoGw => owned[i] = NoRoute
DnsInPlace ==
    IF ~PreserveExternal(State) /\ SelectedDns(State) # NoDns
    THEN resolver.ns = SelectedDns(State)
    ELSE ~resolver.marker

\* A policy change is all or nothing: when set_route_policy changes the policy,
\* it leaves both routes and the resolver as the new policy asks, with every
\* route the new policy does not want gone.
PolicyChangeComplete ==
    [][route_policy' # route_policy =>
         (\A i \in Ifaces : RouteInPlace(i) /\ RouteGone(i))' /\ DnsInPlace']_vars

\* Someone else's resolver file is not truncated: only a file with the marker,
\* or a failed write of a new one, becomes empty.
ForeignDnsKept ==
    [][resolver.ns # NoDns /\ resolver'.ns = NoDns =>
         resolver.marker \/ faults' < faults]_vars

Converged == (\A i \in Ifaces : RouteInPlace(i)) /\ DnsInPlace

\* Self-healing: whatever finitely many failures and foreign changes did, again
\* and again the routes of active links and the resolver are as the facts ask.
SelfHealing == []<>Converged
=============================================================================
