------------------------- MODULE ControlPlaneProofs --------------------------
(***************************************************************************)
(* Proofs about NetworkControlPlane and EthernetTransaction for any lease  *)
(* facts, static configurations, policies and foreign changes and any      *)
(* number of failures.  One lemma per operation says that each of its      *)
(* outcomes, successful or not, leaves a sound state.                      *)
(***************************************************************************)
EXTENDS EthernetTransaction, TLAPS

\* A leaf that names no prover is one for Zenon.
USE ZenonT(60)

\* Routes: what this process created is live and recorded.
RoutesSound(s) ==
    /\ s.created \subseteq s.routes
    /\ \A i \in Ifaces : s.owned[i] = NoRoute \/ (s.owned[i].iface = i /\ s.owned[i].gw # NoGw)
    /\ \A r \in s.created : r.iface \in Ifaces /\ s.owned[r.iface] = r

MarkerSound(s) == s.resolver.marker => s.managed \/ ~s.init

MethodSound(s) == ~(s.static.active /\ s.link["eth"].managed)

Sound(s) == s \in StateType /\ RoutesSound(s) /\ MarkerSound(s) /\ MethodSound(s)

\* Ethernet's method and the policy are the same in both states.
SameMethod(s, u) ==
    u.static = s.static /\ u.link["eth"].managed = s.link["eth"].managed
SamePolicy(s, u) == u.policy = s.policy

Kept(s, u) == Sound(u) /\ SameMethod(s, u) /\ SamePolicy(s, u)

-----------------------------------------------------------------------------
LEMMA Constants ==
    /\ NoFact \in LeaseFact
    /\ NoRoute \in Routes /\ NoRoute.iface \notin Ifaces
    /\ NoStatic \in StaticCfg /\ NoStatic.active = FALSE
    /\ "eth" \in Ifaces /\ "wifi" \in Ifaces
<1> USE StringAssumption
<1>1. NoFact \in LeaseFact  BY DEF NoFact, LeaseFact, DhcpLeaseEvent
<1>2. NoRoute \in Routes /\ NoRoute.iface \notin Ifaces  BY SMTT(60) DEF NoRoute, Routes, Ifaces
<1>3. NoStatic \in StaticCfg /\ NoStatic.active = FALSE  BY SMTT(60) DEF NoStatic, StaticCfg
<1> QED BY <1>1, <1>2, <1>3 DEF Ifaces

LEMMA RouteType ==
    ASSUME NEW i \in Ifaces, NEW g \in STRING, NEW m \in Int
    PROVE  Route(i, g, m) \in Routes /\ Route(i, g, m).iface = i /\ Route(i, g, m).gw = g
  BY DEF Route, Routes

\* Fields that soundness does not mention may change.
LEMMA Untouched ==
    ASSUME NEW s, Sound(s), NEW u \in StateType,
           u.created = s.created, u.routes = s.routes, u.owned = s.owned,
           u.resolver = s.resolver, u.managed = s.managed, u.init = s.init,
           u.static = s.static, u.policy = s.policy, u.link = s.link
    PROVE  Kept(s, u)
  BY DEF Kept, Sound, SameMethod, SamePolicy, RoutesSound, MarkerSound, MethodSound

LEMMA KeptTwice ==
    ASSUME NEW s, NEW u, NEW v, Kept(s, u), Kept(u, v)
    PROVE  Kept(s, v)
  BY DEF Kept, SameMethod, SamePolicy

LEMMA OutcomeOk == ASSUME NEW s, NEW o \in Ok(s) PROVE o.ok = TRUE /\ o.s = s
  BY SMTT(60) DEF Ok

LEMMA OutcomeFailed ==
    ASSUME NEW s \in StateType, NEW o \in Failed(s)
    PROVE  o.ok = FALSE /\ s.faults > 0 /\ o.s = [s EXCEPT !.faults = s.faults - 1]
  BY SMTT(60) DEF Failed, StateType

LEMMA FailedKept ==
    ASSUME NEW s, Sound(s), NEW o \in Failed(s)
    PROVE  o.ok = FALSE /\ Kept(s, o.s)
<1>1. s \in StateType
  BY DEF Sound
<1>2. o.ok = FALSE /\ s.faults > 0 /\ o.s = [s EXCEPT !.faults = s.faults - 1]
  BY <1>1, OutcomeFailed
<1>3. o.s \in StateType
  BY <1>1, <1>2, SMTT(60) DEF StateType
<1>4. /\ o.s.created = s.created /\ o.s.routes = s.routes /\ o.s.owned = s.owned
      /\ o.s.resolver = s.resolver /\ o.s.managed = s.managed /\ o.s.init = s.init
      /\ o.s.static = s.static /\ o.s.policy = s.policy /\ o.s.link = s.link
  BY <1>1, <1>2 DEF StateType
<1> QED BY <1>2, <1>3, <1>4, Untouched

LEMMA OkKept ==
    ASSUME NEW s, Sound(s), NEW o \in Ok(s)
    PROVE  o.ok = TRUE /\ Kept(s, o.s)
  BY OutcomeOk DEF Kept, SameMethod, SamePolicy

-----------------------------------------------------------------------------
(* The platform. *)
LEMMA ApplyIpv4 ==
    ASSUME NEW s, Sound(s), NEW i \in Ifaces, NEW a \in LeaseFact \cup StaticCfg,
           NEW o \in apply_ipv4(s, i, a)
    PROVE  Kept(s, o.s)
<1> DEFINE u == [s EXCEPT !.addr[i] = a]
<1>1. s \in StateType
  BY DEF Sound
<1>2. u \in StateType
  BY <1>1 DEF StateType
<1>3. /\ u.created = s.created /\ u.routes = s.routes /\ u.owned = s.owned
      /\ u.resolver = s.resolver /\ u.managed = s.managed /\ u.init = s.init
      /\ u.static = s.static /\ u.policy = s.policy /\ u.link = s.link
  BY <1>1 DEF StateType
<1>4. Kept(s, u)
  BY <1>2, <1>3, Untouched
<1>5. CASE o \in Ok(u)  BY <1>4, <1>5, OutcomeOk
<1>6. CASE o \in Failed(s)  BY <1>6, FailedKept
<1> QED BY <1>5, <1>6 DEF apply_ipv4

LEMMA ClearIpv4 ==
    ASSUME NEW s, Sound(s), NEW i \in Ifaces, NEW o \in clear_ipv4(s, i)
    PROVE  Kept(s, o.s)
<1> DEFINE u == [s EXCEPT !.addr[i] = NoAddr]
           on_i == {r \in s.routes : r.iface = i}
           v == [u EXCEPT !.routes = @ \ on_i, !.created = @ \ on_i]
<1>1. s \in StateType
  BY DEF Sound
<1>2. u \in StateType
  BY <1>1 DEF StateType
<1>3. /\ u.created = s.created /\ u.routes = s.routes /\ u.owned = s.owned
      /\ u.resolver = s.resolver /\ u.managed = s.managed /\ u.init = s.init
      /\ u.static = s.static /\ u.policy = s.policy /\ u.link = s.link
  BY <1>1 DEF StateType
<1>4. Kept(s, u)
  BY <1>2, <1>3, Untouched
<1> HIDE DEF u
<1>5. v \in StateType
  BY <1>2, <1>3 DEF StateType
<1>6. /\ v.created = u.created \ on_i /\ v.routes = u.routes \ on_i /\ v.owned = u.owned
      /\ v.resolver = u.resolver /\ v.managed = u.managed /\ v.init = u.init
      /\ v.static = u.static /\ v.policy = u.policy /\ v.link = u.link
  BY <1>2 DEF StateType
<1>7. Kept(s, v)
  BY <1>4, <1>5, <1>6 DEF Kept, Sound, SameMethod, SamePolicy, RoutesSound, MarkerSound, MethodSound
<1>8. CASE o \in Ok(u)  BY <1>4, <1>8, OutcomeOk
<1>9. CASE o \in Ok(v)  BY <1>7, <1>9, OutcomeOk
<1>10. CASE o \in Failed(s)  BY <1>10, FailedKept
<1> QED BY <1>8, <1>9, <1>10 DEF clear_ipv4, u

LEMMA RouteRemoved ==
    ASSUME NEW s \in StateType, NEW r
    PROVE  [s EXCEPT !.routes = @ \ {r}, !.created = @ \ {r}] \in StateType
  BY DEF StateType

\* Routes that nothing records any more are gone before the record goes.
LEMMA ClearOwnedRoute ==
    ASSUME NEW s, Sound(s), NEW i \in Ifaces, NEW o \in clear_owned_route(s, i)
    PROVE  Kept(s, o.s) /\ (o.ok => o.s.owned[i] = NoRoute)
<1> DEFINE r == s.owned[i]
           u == [s EXCEPT !.routes = @ \ {r}, !.created = @ \ {r}]
<1>1. s \in StateType
  BY DEF Sound
<1>2. CASE r = NoRoute
  BY <1>2, OkKept, OutcomeOk DEF clear_owned_route
<1>3. CASE r # NoRoute
  <2>1. PICK p \in clear_default_route(s, r) :
           IF p.ok THEN o \in Ok([p.s EXCEPT !.owned[i] = NoRoute]) ELSE o = p
    BY <1>3 DEF clear_owned_route, Then
  <2>2. CASE ~p.ok
    <3>1. p \in Failed(s)
      BY <2>1, <2>2, OutcomeOk DEF clear_default_route
    <3> QED BY <2>1, <2>2, <3>1, FailedKept
  <2>3. CASE p.ok
    <3>1. (p.s = s /\ r \notin s.routes) \/ p.s = u
      BY <1>1, <2>1, <2>3, OutcomeOk, OutcomeFailed DEF clear_default_route
    <3>2. p.s \in StateType /\ p.s.created = s.created \ {r} /\ p.s.routes \subseteq s.routes
      /\ p.s.created \subseteq p.s.routes
      /\ p.s.owned = s.owned
      /\ p.s.resolver = s.resolver /\ p.s.managed = s.managed /\ p.s.init = s.init
      /\ p.s.static = s.static /\ p.s.policy = s.policy /\ p.s.link = s.link
      <4>1. s.created \subseteq s.routes
        BY DEF Sound, RoutesSound
      <4>2. CASE p.s = s /\ r \notin s.routes
        BY <1>1, <4>1, <4>2
      <4>3. CASE p.s = u
        <5>1. u \in StateType
          BY <1>1, RouteRemoved
        <5>2. u.routes = s.routes \ {r} /\ u.created = s.created \ {r}
          BY <1>1 DEF StateType
        <5>3. /\ u.owned = s.owned /\ u.resolver = s.resolver /\ u.managed = s.managed
              /\ u.init = s.init /\ u.static = s.static /\ u.policy = s.policy /\ u.link = s.link
          BY <1>1 DEF StateType
        <5> HIDE DEF u
        <5> QED BY <4>1, <4>3, <5>1, <5>2, <5>3
      <4> QED BY <3>1, <4>2, <4>3
    <3> DEFINE v == [p.s EXCEPT !.owned[i] = NoRoute]
    <3>3. v \in StateType
      BY <3>2, Constants DEF StateType
    <3>4. /\ v.created = p.s.created /\ v.routes = p.s.routes
          /\ v.owned = [s.owned EXCEPT ![i] = NoRoute]
          /\ v.resolver = s.resolver /\ v.managed = s.managed /\ v.init = s.init
          /\ v.static = s.static /\ v.policy = s.policy /\ v.link = s.link
      BY <3>2 DEF StateType
    <3>5. v.owned[i] = NoRoute /\ \A j \in Ifaces : j # i => v.owned[j] = s.owned[j]
      BY <1>1, <3>4 DEF StateType
    <3>6. RoutesSound(v)
      BY <3>2, <3>4, <3>5, SMTT(60) DEF Sound, RoutesSound
    <3>7. Kept(s, v)
      BY <3>3, <3>4, <3>6 DEF Kept, Sound, SameMethod, SamePolicy, MarkerSound, MethodSound
    <3>8. o.s = v
      BY <2>1, <2>3, OutcomeOk
    <3> QED BY <3>5, <3>7, <3>8
  <2> QED BY <2>2, <2>3
<1> QED BY <1>2, <1>3

LEMMA RouteAdded ==
    ASSUME NEW s \in StateType, NEW r \in Routes
    PROVE  [s EXCEPT !.routes = @ \cup {r}, !.created = @ \cup {r}] \in StateType
  BY DEF StateType

\* A route with a changed gateway or metric replaces the recorded one.
LEMMA EnsureOwnedRoute ==
    ASSUME NEW s, Sound(s), NEW i \in Ifaces, NEW g \in STRING, NEW m \in Int,
           NEW o \in ensure_owned_route(s, i, g, m)
    PROVE  Kept(s, o.s)
<1> DEFINE r == Route(i, g, m)
           first == IF s.owned[i] \notin {NoRoute, r} THEN clear_owned_route(s, i) ELSE Ok(s)
<1>1. CASE g = NoGw
  BY <1>1, ClearOwnedRoute DEF ensure_owned_route
<1>2. CASE g # NoGw
  <2>1. PICK p \in first :
           IF p.ok THEN o \in Then(set_default_route(p.s, r), LAMBDA v : Ok([v EXCEPT !.owned[i] = r]))
                   ELSE o = p
    BY <1>2 DEF ensure_owned_route, Then
  <2>2. Kept(s, p.s) /\ (p.ok => p.s.owned[i] \in {NoRoute, r})
    BY <2>1, ClearOwnedRoute, OkKept, OutcomeOk
  <2>3. CASE ~p.ok  BY <2>1, <2>2, <2>3
  <2>4. CASE p.ok
    <3>0. r \in Routes /\ r.iface = i /\ r.gw # NoGw
      BY <1>2, RouteType
    <3> HIDE DEF r
    <3>1. PICK q \in set_default_route(p.s, r) :
             IF q.ok THEN o \in Ok([q.s EXCEPT !.owned[i] = r]) ELSE o = q
      BY <2>1, <2>4 DEF Then
    <3> DEFINE u == [p.s EXCEPT !.routes = @ \cup {r}, !.created = @ \cup {r}]
    <3>2. Sound(p.s) /\ p.s \in StateType
      BY <2>2 DEF Kept, Sound
    <3>3. CASE ~q.ok
      <4>1. q \in Failed(p.s)
        BY <3>1, <3>3, OutcomeOk DEF set_default_route
      <4> QED BY <2>2, <3>1, <3>2, <3>3, <4>1, FailedKept, KeptTwice
    <3>4. CASE q.ok
      <4>1. (q.s = p.s /\ r \in p.s.routes) \/ q.s = u
        BY <3>1, <3>2, <3>4, OutcomeOk, OutcomeFailed DEF set_default_route
      <4>2. /\ q.s \in StateType /\ q.s.created \subseteq p.s.created \cup {r}
            /\ q.s.created \subseteq q.s.routes /\ q.s.owned = p.s.owned
            /\ q.s.resolver = p.s.resolver /\ q.s.managed = p.s.managed /\ q.s.init = p.s.init
            /\ q.s.static = p.s.static /\ q.s.policy = p.s.policy /\ q.s.link = p.s.link
        <5>1. p.s.created \subseteq p.s.routes
          BY <3>2 DEF Sound, RoutesSound
        <5>2. CASE q.s = p.s  BY <3>2, <5>1, <5>2
        <5>3. CASE q.s = u
          <6>1. q.s.routes = p.s.routes \cup {r} /\ q.s.created = p.s.created \cup {r}
            BY <3>2, <5>3 DEF StateType
          <6>2. q.s \in StateType
            <7>1. u \in StateType
              BY <3>0, <3>2, RouteAdded
            <7> HIDE DEF u
            <7> QED BY <5>3, <7>1
          <6> QED BY <3>2, <5>1, <5>3, <6>1, <6>2 DEF StateType
        <5> QED BY <4>1, <5>2, <5>3
      <4> DEFINE v == [q.s EXCEPT !.owned[i] = r]
      <4>3. v \in StateType
        BY <3>0, <4>2 DEF StateType
      <4>4. /\ v.created = q.s.created /\ v.routes = q.s.routes
            /\ v.owned = [p.s.owned EXCEPT ![i] = r]
            /\ v.resolver = p.s.resolver /\ v.managed = p.s.managed /\ v.init = p.s.init
            /\ v.static = p.s.static /\ v.policy = p.s.policy /\ v.link = p.s.link
        BY <4>2 DEF StateType
      <4>5. v.owned[i] = r /\ \A j \in Ifaces : j # i => v.owned[j] = p.s.owned[j]
        BY <3>2, <4>4 DEF StateType
      <4>6. RoutesSound(v)
        BY <2>2, <2>4, <3>0, <3>2, <4>2, <4>4, <4>5, Constants, SMTT(60) DEF Sound, RoutesSound
      <4>7. Kept(p.s, v)
        BY <3>2, <4>3, <4>4, <4>6 DEF Kept, Sound, SameMethod, SamePolicy, MarkerSound, MethodSound
      <4>8. o.s = v
        BY <3>1, <3>4, OutcomeOk
      <4> QED BY <2>2, <4>7, <4>8, KeptTwice
    <3> QED BY <3>3, <3>4
  <2> QED BY <2>3, <2>4
<1> QED BY <1>1, <1>2

\* The desired route is well-formed.
LEMMA Metric ==
    ASSUME NEW s, NEW i \in Ifaces, NEW manual \in Int
    PROVE  route_metric(s, i, manual) \in Int
<1>1. CASE s.policy \in {"WifiPreferred", "WifiOnly"}  BY <1>1, SMTT(60) DEF route_metric
<1>2. CASE s.policy = "ManualMetric" /\ manual >= 0  BY <1>2 DEF route_metric
<1>3. CASE s.policy \notin {"WifiPreferred", "WifiOnly"} /\ ~(s.policy = "ManualMetric" /\ manual >= 0)
  BY <1>3, SMTT(60) DEF route_metric
<1> QED BY <1>1, <1>2, <1>3

LEMMA Desired ==
    ASSUME NEW s \in StateType, NEW i \in Ifaces
    PROVE  DesiredGw(s, i) \in STRING /\ DesiredMetric(s, i) \in Int
<1>1. DesiredGw(s, i) \in STRING
  BY StringAssumption DEF DesiredGw, StateType, StaticCfg, LeaseFact
<1>2. s.static.metric \in Int
  BY DEF StateType, StaticCfg
<1> QED BY <1>1, <1>2, Metric, SMTT(60) DEF DesiredMetric

LEMMA ApplyRoutes ==
    ASSUME NEW s, Sound(s), NEW o \in apply_routes(s)
    PROVE  Kept(s, o.s)
<1>1. ASSUME NEW u, Sound(u), NEW i \in Ifaces, NEW p \in ensure_desired(u, i)
      PROVE  Kept(u, p.s)
  BY <1>1, Desired, EnsureOwnedRoute DEF ensure_desired, Sound
<1>2. PICK p \in ensure_desired(s, "eth") : IF p.ok THEN o \in ensure_desired(p.s, "wifi") ELSE o = p
  BY DEF apply_routes, Then
<1>3. Kept(s, p.s)
  BY <1>1, <1>2, Constants
<1> QED BY <1>1, <1>2, <1>3, Constants, KeptTwice DEF Kept

-----------------------------------------------------------------------------
(* The resolver. *)
WithResolver(s, d, m) == [s EXCEPT !.resolver = [ns |-> d, marker |-> m]]
WithOwnership(s, m, d) == [s EXCEPT !.managed = m, !.last = d]

\* u differs from s at most in what concerns the resolver.
SameButDns(s, u) ==
    /\ u.created = s.created /\ u.routes = s.routes /\ u.owned = s.owned
    /\ u.static = s.static /\ u.policy = s.policy /\ u.link = s.link
    /\ u.addr = s.addr

LEMMA ResolverUpdate ==
    ASSUME NEW s \in StateType, NEW d \in STRING, NEW m \in BOOLEAN
    PROVE  /\ WithResolver(s, d, m) \in StateType /\ SameButDns(s, WithResolver(s, d, m))
           /\ WithResolver(s, d, m).resolver = [ns |-> d, marker |-> m]
<1> DEFINE f == [ns |-> d, marker |-> m]
           u == [s EXCEPT !.resolver = f]
<1>1. f \in [ns : STRING, marker : BOOLEAN]
  OBVIOUS
<1>2. u = WithResolver(s, d, m)
  BY DEF WithResolver
<1> HIDE DEF f
<1>3. u \in StateType /\ u.resolver = f
  BY <1>1 DEF StateType
<1>4. SameButDns(s, u)
  BY DEF SameButDns, StateType
<1> QED BY <1>2, <1>3, <1>4 DEF f

LEMMA OwnershipUpdate ==
    ASSUME NEW s \in StateType, NEW d \in STRING, NEW m \in BOOLEAN
    PROVE  LET u == WithOwnership(s, m, d)
           IN  /\ u \in StateType /\ SameButDns(s, u)
               /\ u.resolver = s.resolver /\ u.managed = m /\ u.init = s.init
<1> DEFINE u == [s EXCEPT !.managed = m, !.last = d]
<1>1. u \in StateType /\ u.resolver = s.resolver /\ u.managed = m /\ u.init = s.init
  BY DEF StateType
<1>2. SameButDns(s, u)
  BY DEF SameButDns, StateType
<1> QED BY <1>1, <1>2 DEF WithOwnership

LEMMA OnlyDns ==
    ASSUME NEW s, Sound(s), NEW u \in StateType, MarkerSound(u), SameButDns(s, u)
    PROVE  Kept(s, u)
  BY DEF Kept, Sound, SameMethod, SamePolicy, RoutesSound, MethodSound, SameButDns

LEMMA SameButDnsTwice ==
    ASSUME NEW s, NEW u, NEW v, SameButDns(s, u), SameButDns(u, v)
    PROVE  SameButDns(s, v)
  BY DEF SameButDns

\* clear_dns that succeeds leaves a file without the marker.
LEMMA ClearDns ==
    ASSUME NEW s, Sound(s), NEW p \in clear_dns(s)
    PROVE  /\ ~p.ok => p \in Failed(s)
           /\ p.ok => p.s \in StateType /\ SameButDns(s, p.s) /\ ~p.s.resolver.marker
<1> DEFINE c == WithResolver(s, NoDns, FALSE)
<1>1. s \in StateType /\ NoDns \in STRING
  BY StringAssumption DEF Sound
<1>2. c \in StateType /\ SameButDns(s, c) /\ c.resolver = [ns |-> NoDns, marker |-> FALSE]
  BY <1>1, ResolverUpdate
<1>3. CASE ~s.resolver.marker
  <2>1. p.ok /\ p.s = s
    BY <1>3, OutcomeOk DEF clear_dns
  <2> QED BY <1>1, <1>3, <2>1 DEF SameButDns
<1>4. CASE s.resolver.marker
  <2>1. p \in Ok(c) \/ p \in Failed(s)
    BY <1>4 DEF clear_dns, WithResolver
  <2> HIDE DEF c
  <2>2. CASE p \in Ok(c)
    <3>1. p.ok /\ p.s = c
      BY <2>2, OutcomeOk
    <3>2. ~c.resolver.marker
      BY <1>2, SMTT(60)
    <3> QED BY <1>2, <3>1, <3>2
  <2>3. CASE p \in Failed(s)
    BY <2>3, FailedKept
  <2> QED BY <2>1, <2>2, <2>3
<1> QED BY <1>3, <1>4

\* Ownership is given up only once the file has no marker.
LEMMA RelinquishDns ==
    ASSUME NEW s, Sound(s), NEW o \in relinquish_dns(s)
    PROVE  /\ Kept(s, o.s)
           /\ o.ok => SameButDns(s, o.s) /\ (s.init => ~o.s.resolver.marker)
<1>1. CASE ~s.managed
  <2>1. o.s = s /\ o.ok = TRUE
    BY <1>1, OutcomeOk DEF relinquish_dns
  <2>2. Kept(s, s) /\ SameButDns(s, s)
    BY DEF Kept, SameMethod, SamePolicy, SameButDns
  <2>3. s.init => ~s.resolver.marker
    BY <1>1 DEF Sound, MarkerSound
  <2> QED BY <2>1, <2>2, <2>3
<1>2. CASE s.managed
  <2>1. PICK p \in clear_dns(s) : IF p.ok THEN o \in Ok(WithOwnership(p.s, FALSE, NoDns)) ELSE o = p
    BY <1>2 DEF relinquish_dns, Then, WithOwnership
  <2>2. CASE ~p.ok
    BY <2>1, <2>2, ClearDns, FailedKept
  <2>3. CASE p.ok
    <3> DEFINE v == WithOwnership(p.s, FALSE, NoDns)
    <3>1. p.s \in StateType /\ SameButDns(s, p.s) /\ ~p.s.resolver.marker
      BY <2>1, <2>3, ClearDns
    <3>2. v \in StateType /\ SameButDns(p.s, v) /\ v.resolver = p.s.resolver
      BY <3>1, OwnershipUpdate, StringAssumption
    <3>3. o.s = v
      BY <2>1, <2>3, OutcomeOk
    <3> HIDE DEF v
    <3>4. MarkerSound(v) /\ ~v.resolver.marker /\ SameButDns(s, v)
      BY <3>1, <3>2, SameButDnsTwice DEF MarkerSound
    <3> QED BY <3>2, <3>3, <3>4, OnlyDns
  <2> QED BY <2>2, <2>3
<1> QED BY <1>1, <1>2

\* A failed write leaves either the old file or an empty one.
LEMMA SelectDns ==
    ASSUME NEW s, Sound(s), NEW d \in STRING, NEW o \in select_dns(s, d)
    PROVE  /\ Kept(s, o.s)
           /\ o.ok => SameButDns(s, o.s) /\ o.s.resolver.ns = d
<1> DEFINE c == WithResolver(s, NoDns, FALSE)
           w == WithResolver(s, d, TRUE)
<1>0. s \in StateType /\ NoDns \in STRING
  BY StringAssumption DEF Sound
<1>1. CASE s.managed /\ s.last = d /\ s.resolver.ns = d
  <2>1. o.s = s
    BY <1>1, OutcomeOk DEF select_dns
  <2>2. Kept(s, s) /\ SameButDns(s, s)
    BY DEF Kept, SameMethod, SamePolicy, SameButDns
  <2> QED BY <1>1, <2>1, <2>2
<1>2. CASE ~(s.managed /\ s.last = d /\ s.resolver.ns = d)
  <2>1. PICK p \in set_primary_dns(s, d) : IF p.ok THEN o \in Ok(WithOwnership(p.s, TRUE, d)) ELSE o = p
    BY <1>2 DEF select_dns, Then, WithOwnership
  <2>2. p \in Ok(w) \/ p \in Failed(s) \/ p \in Failed(c)
    BY <2>1 DEF set_primary_dns, WithResolver
  <2>3. c \in StateType /\ SameButDns(s, c) /\ c.resolver = [ns |-> NoDns, marker |-> FALSE]
    BY <1>0, ResolverUpdate
  <2>4. w \in StateType /\ SameButDns(s, w) /\ w.resolver = [ns |-> d, marker |-> TRUE]
    BY <1>0, ResolverUpdate
  <2> HIDE DEF c, w
  <2>5. Kept(s, c)
    <3>1. ~c.resolver.marker
      BY <2>3, SMTT(60)
    <3>2. MarkerSound(c)
      BY <3>1 DEF MarkerSound
    <3> QED BY <2>3, <3>2, OnlyDns
  <2>6. CASE p \in Ok(w)
    <3>1. p.ok /\ p.s = w
      BY <2>6, OutcomeOk
    <3> DEFINE v == WithOwnership(w, TRUE, d)
    <3>2. v \in StateType /\ SameButDns(w, v) /\ v.resolver = w.resolver /\ v.managed = TRUE
      BY <2>4, OwnershipUpdate
    <3>3. o.s = v
      BY <2>1, <3>1, OutcomeOk
    <3> HIDE DEF v
    <3>4. MarkerSound(v) /\ SameButDns(s, v)
      BY <2>4, <3>2, SameButDnsTwice DEF MarkerSound
    <3>5. v.resolver.ns = d
      BY <2>4, <3>2, SMTT(60)
    <3> QED BY <3>2, <3>3, <3>4, <3>5, OnlyDns
  <2>7. CASE p \in Failed(s)
    BY <2>1, <2>7, FailedKept
  <2>8. CASE p \in Failed(c)
    <3>1. p.ok = FALSE /\ Kept(c, p.s)
      BY <2>5, <2>8, FailedKept DEF Kept
    <3> QED BY <2>1, <2>5, <3>1, KeptTwice
  <2> QED BY <2>2, <2>6, <2>7, <2>8
<1> QED BY <1>1, <1>2

LEMMA SelectedType == ASSUME NEW s \in StateType PROVE SelectedDns(s) \in STRING
<1>1. WifiDns(s) \in STRING /\ EthDns(s) \in STRING
  BY Constants DEF WifiDns, EthDns, StateType, LeaseFact, StaticCfg
<1>2. WifiSelected(s) \in STRING /\ EthSelected(s) \in STRING
  BY <1>1, StringAssumption DEF WifiSelected, EthSelected
<1>3. CASE s.policy = "WifiPreferred"  BY <1>2, <1>3 DEF SelectedDns
<1>4. CASE s.policy = "WifiOnly"  BY <1>2, <1>4 DEF SelectedDns
<1>5. CASE s.policy = "ManualMetric"  BY <1>1, <1>2, <1>5 DEF SelectedDns
<1>6. CASE s.policy \notin {"WifiPreferred", "WifiOnly", "ManualMetric"}
  BY <1>2, <1>6 DEF SelectedDns
<1> QED BY <1>3, <1>4, <1>5, <1>6

\* The first pass takes ownership from the marker.
LEMMA InitDnsOwnership ==
    ASSUME NEW s, Sound(s)
    PROVE  LET u == init_dns_ownership(s)
           IN  Kept(s, u) /\ SameButDns(s, u) /\ u.init = TRUE
<1> DEFINE l == IF s.resolver.marker THEN s.resolver.ns ELSE NoDns
           u == [s EXCEPT !.init = TRUE, !.managed = s.resolver.marker, !.last = l]
<1>1. s \in StateType
  BY DEF Sound
<1>2. s.resolver.marker \in BOOLEAN /\ l \in STRING /\ s.init \in BOOLEAN
  BY <1>1, StringAssumption DEF StateType
<1> HIDE DEF l
<1>3. /\ u \in StateType /\ u.managed = s.resolver.marker /\ u.resolver = s.resolver
      /\ u.init = TRUE
  BY <1>1, <1>2 DEF StateType
<1>4. SameButDns(s, u)
  BY <1>1 DEF StateType, SameButDns
<1>5. init_dns_ownership(s) = IF s.init THEN s ELSE u
  BY DEF init_dns_ownership, l
<1> HIDE DEF u
<1>6. MarkerSound(u)
  BY <1>3 DEF MarkerSound
<1>7. Kept(s, u)
  BY <1>3, <1>4, <1>6, OnlyDns
<1>8. Kept(s, s) /\ SameButDns(s, s)
  BY DEF Kept, SameMethod, SamePolicy, SameButDns
<1> QED BY <1>2, <1>3, <1>4, <1>5, <1>7, <1>8

LEMMA RecomputeDns ==
    ASSUME NEW s, Sound(s), NEW o \in recompute_dns(s)
    PROVE  Kept(s, o.s)
<1> DEFINE u == init_dns_ownership(s)
<1>1. Kept(s, u) /\ Sound(u)
  BY InitDnsOwnership DEF Kept
<1>2. SelectedDns(u) \in STRING
  BY <1>1, SelectedType DEF Sound
<1>3. o \in select_dns(u, SelectedDns(u)) \/ o \in relinquish_dns(u)
  BY DEF recompute_dns
<1> HIDE DEF u
<1>4. Kept(u, o.s)
  BY <1>1, <1>2, <1>3, SelectDns, RelinquishDns
<1> QED BY <1>1, <1>4, KeptTwice

-----------------------------------------------------------------------------
(* Links. *)
LEMMA StopClient ==
    ASSUME NEW s, Sound(s), NEW i \in Ifaces
    PROVE  Kept(s, stop_client(s, i))
<1> DEFINE u == [s EXCEPT !.client = @ \ {i}, !.lease[i] = NoFact]
<1>1. s \in StateType
  BY DEF Sound
<1>2. u \in StateType
  BY <1>1, Constants DEF StateType
<1>3. /\ u.created = s.created /\ u.routes = s.routes /\ u.owned = s.owned
      /\ u.resolver = s.resolver /\ u.managed = s.managed /\ u.init = s.init
      /\ u.static = s.static /\ u.policy = s.policy /\ u.link = s.link
  BY <1>1 DEF StateType
<1>4. u = stop_client(s, i)
  BY DEF stop_client
<1> HIDE DEF u
<1> QED BY <1>2, <1>3, <1>4, Untouched

LEMMA StartClient ==
    ASSUME NEW s, Sound(s), NEW i \in Ifaces, NEW o \in start_client(s, i)
    PROVE  Kept(s, o.s)
<1> DEFINE u == [s EXCEPT !.client = @ \cup {i}]
<1>1. s \in StateType
  BY DEF Sound
<1>2. u \in StateType
  BY <1>1, SMTT(60) DEF StateType
<1>3. /\ u.created = s.created /\ u.routes = s.routes /\ u.owned = s.owned
      /\ u.resolver = s.resolver /\ u.managed = s.managed /\ u.init = s.init
      /\ u.static = s.static /\ u.policy = s.policy /\ u.link = s.link
  BY <1>1 DEF StateType
<1>4. o \in Ok(u) \/ o \in Failed(s)
  BY DEF start_client
<1> HIDE DEF u
<1>5. Kept(s, u)
  BY <1>2, <1>3, Untouched
<1> QED BY <1>4, <1>5, OutcomeOk, FailedKept

Links == [managed : BOOLEAN, active : BOOLEAN, lease : LeaseFact]

LEMMA LinkUpdate ==
    ASSUME NEW s \in StateType, NEW i \in Ifaces, NEW l \in Links
    PROVE  LET u == [s EXCEPT !.link[i] = l]
           IN  /\ u \in StateType /\ u.link = [s.link EXCEPT ![i] = l]
               /\ u.link[i] = l /\ \A j \in Ifaces : j # i => u.link[j] = s.link[j]
               /\ u.created = s.created /\ u.routes = s.routes /\ u.owned = s.owned
               /\ u.resolver = s.resolver /\ u.managed = s.managed /\ u.init = s.init
               /\ u.static = s.static /\ u.policy = s.policy
  BY DEF StateType, Links

LEMMA NoLinkType == NoLink \in Links /\ NoLink.managed = FALSE
  BY Constants DEF NoLink, Links

\* A reset link is unmanaged; the other one is as it was.
LEMMA ResetLink ==
    ASSUME NEW s, Sound(s), NEW i \in Ifaces
    PROVE  LET u == reset_link(s, i)
           IN  /\ Sound(u) /\ u.static = s.static /\ u.policy = s.policy
               /\ ~u.link[i].managed
               /\ i = "wifi" => Kept(s, u)
<1> DEFINE u == [s EXCEPT !.link[i] = NoLink]
<1>1. /\ u \in StateType
      /\ u.link[i] = NoLink /\ \A j \in Ifaces : j # i => u.link[j] = s.link[j]
      /\ u.created = s.created /\ u.routes = s.routes /\ u.owned = s.owned
      /\ u.resolver = s.resolver /\ u.managed = s.managed /\ u.init = s.init
      /\ u.static = s.static /\ u.policy = s.policy
  BY LinkUpdate, NoLinkType, SMTT(60) DEF Sound
<1>2. u = reset_link(s, i)
  BY DEF reset_link
<1> HIDE DEF u
<1>3. RoutesSound(u) /\ MarkerSound(u)
  BY <1>1 DEF Sound, RoutesSound, MarkerSound
<1>4. CASE i = "eth"
  <2>1. ~u.link["eth"].managed
    BY <1>1, <1>4, NoLinkType
  <2> QED BY <1>1, <1>2, <1>3, <1>4, <2>1 DEF Sound, MethodSound
<1>5. CASE i = "wifi"
  <2>1. u.link["eth"] = s.link["eth"] /\ ~u.link[i].managed
    BY <1>1, <1>5, Constants, NoLinkType
  <2> QED BY <1>1, <1>2, <1>3, <1>5, <2>1 DEF Kept, SameMethod, SamePolicy, Sound, MethodSound
<1> QED BY <1>4, <1>5 DEF Ifaces

LEMMA StaticUpdate ==
    ASSUME NEW s, Sound(s), NEW cfg \in StaticCfg, ~cfg.active \/ ~s.link["eth"].managed
    PROVE  LET u == [s EXCEPT !.static = cfg]
           IN  Sound(u) /\ u.static = cfg /\ u.policy = s.policy /\ u.link = s.link
<1> DEFINE u == [s EXCEPT !.static = cfg]
<1>1. /\ u \in StateType
      /\ u.created = s.created /\ u.routes = s.routes /\ u.owned = s.owned
      /\ u.resolver = s.resolver /\ u.managed = s.managed /\ u.init = s.init
      /\ u.static = cfg /\ u.policy = s.policy /\ u.link = s.link
  BY DEF StateType, Sound
<1> HIDE DEF u
<1>2. Sound(u)
  BY <1>1 DEF Sound, RoutesSound, MarkerSound, MethodSound
<1> QED BY <1>1, <1>2 DEF u

\* Marking a link managed; Ethernet only without a static configuration.
LEMMA MarkManaged ==
    ASSUME NEW s, Sound(s), NEW i \in Ifaces, i = "eth" => ~s.static.active
    PROVE  LET u == [s EXCEPT !.link[i].managed = TRUE]
           IN  /\ Sound(u) /\ u.static = s.static /\ u.policy = s.policy
               /\ i = "eth" => u.link["eth"].managed
               /\ i = "wifi" => Kept(s, u)
<1> DEFINE l == [s.link[i] EXCEPT !.managed = TRUE]
           u == [s EXCEPT !.link[i] = l]
<1>0. s.link[i] \in Links
  BY DEF Links, Sound, StateType
<1>1. l \in Links /\ l.managed = TRUE
  BY <1>0 DEF Links
<1>2. [s EXCEPT !.link[i].managed = TRUE] = u
  BY DEF Sound, StateType
<1> HIDE DEF l
<1>3. /\ u \in StateType
      /\ u.link[i] = l /\ \A j \in Ifaces : j # i => u.link[j] = s.link[j]
      /\ u.created = s.created /\ u.routes = s.routes /\ u.owned = s.owned
      /\ u.resolver = s.resolver /\ u.managed = s.managed /\ u.init = s.init
      /\ u.static = s.static /\ u.policy = s.policy
  BY <1>1, LinkUpdate, SMTT(60) DEF Sound
<1> HIDE DEF u
<1>4. RoutesSound(u) /\ MarkerSound(u)
  BY <1>3 DEF Sound, RoutesSound, MarkerSound
<1>5. CASE i = "eth"
  BY <1>1, <1>2, <1>3, <1>4, <1>5 DEF Sound, MethodSound
<1>6. CASE i = "wifi"
  <2>1. u.link["eth"] = s.link["eth"]
    BY <1>3, <1>6, Constants
  <2> QED BY <1>2, <1>3, <1>4, <1>6, <2>1 DEF Kept, SameMethod, SamePolicy, Sound, MethodSound
<1> QED BY <1>5, <1>6 DEF Ifaces

\* A reconciled lease leaves the management flag alone.
LEMMA LeaseUpdate ==
    ASSUME NEW s, Sound(s), NEW i \in Ifaces, NEW f \in LeaseFact, NEW b \in BOOLEAN
    PROVE  Kept(s, [s EXCEPT !.link[i].active = b, !.link[i].lease = f])
<1> DEFINE l == [s.link[i] EXCEPT !.active = b, !.lease = f]
           u == [s EXCEPT !.link[i] = l]
<1>0. s.link[i] \in Links
  BY DEF Links, Sound, StateType
<1>1. l \in Links /\ l.managed = s.link[i].managed
  BY <1>0 DEF Links
<1>2. [s EXCEPT !.link[i].active = b, !.link[i].lease = f] = u
  BY DEF Sound, StateType
<1> HIDE DEF l
<1>3. /\ u \in StateType
      /\ u.link[i] = l /\ \A j \in Ifaces : j # i => u.link[j] = s.link[j]
      /\ u.created = s.created /\ u.routes = s.routes /\ u.owned = s.owned
      /\ u.resolver = s.resolver /\ u.managed = s.managed /\ u.init = s.init
      /\ u.static = s.static /\ u.policy = s.policy
  BY <1>1, LinkUpdate, SMTT(60) DEF Sound
<1> HIDE DEF u
<1>4. u.link["eth"].managed = s.link["eth"].managed
  BY <1>1, <1>3, Constants
<1>5. RoutesSound(u) /\ MarkerSound(u) /\ MethodSound(u)
  BY <1>3, <1>4 DEF Sound, RoutesSound, MarkerSound, MethodSound
<1> QED BY <1>2, <1>3, <1>4, <1>5 DEF Kept, SameMethod, SamePolicy, Sound

-----------------------------------------------------------------------------
(* Entry points. *)
\* start_dhcp on Wi-Fi leaves Ethernet's method alone; on Ethernet it excludes
\* the static configuration from the moment the link is reset.
LEMMA StartDhcpSound ==
    ASSUME NEW s, Sound(s), NEW i \in Ifaces, NEW o \in start_dhcp(s, i)
    PROVE  /\ Sound(o.s) /\ SamePolicy(s, o.s)
           /\ i = "wifi" => Kept(s, o.s)
           /\ i = "eth" /\ o.ok => o.s.link["eth"].managed /\ ~o.s.static.active
<1> DEFINE c(b) == IF i = "eth" THEN [reset_link(b, i) EXCEPT !.static = NoStatic]
                                ELSE reset_link(b, i)
           launch(d) == Then(start_client(d, i), LAMBDA e : Ok([e EXCEPT !.link[i].managed = TRUE]))
           after(a) == Always(clear_ipv4(stop_client(a, i), i),
                              LAMBDA b : Then(recompute_dns(c(b)), launch))
<1>0. o \in Then(clear_owned_route(s, i), after)
  BY DEF start_dhcp
<1> HIDE DEF after
<1>1. PICK p \in clear_owned_route(s, i) : IF p.ok THEN o \in after(p.s) ELSE o = p
  BY <1>0 DEF Then
<1>2. Kept(s, p.s)
  BY <1>1, ClearOwnedRoute
<1>3. CASE ~p.ok
  BY <1>1, <1>2, <1>3 DEF Kept
<1>4. CASE p.ok
  <2>1. PICK q \in clear_ipv4(stop_client(p.s, i), i) : o \in Then(recompute_dns(c(q.s)), launch)
    BY <1>1, <1>4 DEF after, Always
  <2>2. Kept(s, stop_client(p.s, i))
    BY <1>2, StopClient, KeptTwice DEF Kept
  <2>3. Kept(s, q.s)
    BY <2>1, <2>2, ClearIpv4, KeptTwice DEF Kept
  <2> DEFINE d == c(q.s)
  <2>4. Sound(d) /\ d.policy = s.policy /\ (i = "wifi" => Kept(s, d)) /\ (i = "eth" => ~d.static.active)
    <3>1. /\ Sound(reset_link(q.s, i)) /\ ~reset_link(q.s, i).link[i].managed
          /\ i = "wifi" => Kept(s, reset_link(q.s, i))
          /\ reset_link(q.s, i).policy = s.policy
      BY <2>3, ResetLink, KeptTwice DEF Kept, SamePolicy
    <3>2. CASE i = "eth"
      BY <3>1, <3>2, StaticUpdate, Constants
    <3>3. CASE i = "wifi"
      BY <3>1, <3>3
    <3> QED BY <3>2, <3>3 DEF Ifaces
  <2>5. PICK r \in recompute_dns(d) : IF r.ok THEN o \in launch(r.s) ELSE o = r
    BY <2>1 DEF Then
  <2> HIDE DEF d
  <2>6. Kept(d, r.s) /\ Sound(r.s)
    BY <2>4, <2>5, RecomputeDns DEF Kept
  <2>7. r.s.policy = s.policy /\ (i = "wifi" => Kept(s, r.s)) /\ (i = "eth" => ~r.s.static.active)
    BY <2>4, <2>6, KeptTwice DEF Kept, SameMethod, SamePolicy
  <2>8. CASE ~r.ok
    BY <2>5, <2>6, <2>7, <2>8 DEF SamePolicy
  <2>9. CASE r.ok
    <3>1. PICK e \in start_client(r.s, i) :
             IF e.ok THEN o \in Ok([e.s EXCEPT !.link[i].managed = TRUE]) ELSE o = e
      BY <2>5, <2>9 DEF Then
    <3>2. Kept(r.s, e.s) /\ Sound(e.s)
      BY <2>6, <3>1, StartClient DEF Kept
    <3>3. e.s.policy = s.policy /\ (i = "wifi" => Kept(s, e.s)) /\ (i = "eth" => ~e.s.static.active)
      BY <2>7, <3>2, KeptTwice DEF Kept, SameMethod, SamePolicy
    <3>4. CASE ~e.ok
      BY <3>1, <3>2, <3>3, <3>4 DEF SamePolicy
    <3>5. CASE e.ok
      <4> DEFINE v == [e.s EXCEPT !.link[i].managed = TRUE]
      <4>1. o.s = v
        BY <3>1, <3>5, OutcomeOk
      <4>2. /\ Sound(v) /\ v.static = e.s.static /\ v.policy = e.s.policy
            /\ i = "eth" => v.link["eth"].managed
            /\ i = "wifi" => Kept(e.s, v)
        BY <3>2, <3>3, MarkManaged
      <4> HIDE DEF v
      <4> QED BY <3>3, <4>1, <4>2, KeptTwice, SMTT(60) DEF SamePolicy
    <3> QED BY <3>4, <3>5
  <2> QED BY <2>8, <2>9
<1> QED BY <1>3, <1>4

LEMMA StopDhcpKept ==
    ASSUME NEW s, Sound(s), NEW o \in stop_dhcp(s, "wifi")
    PROVE  Kept(s, o.s)
<1>1. PICK p \in clear_owned_route(s, "wifi") :
         \E q \in clear_ipv4(stop_client(p.s, "wifi"), "wifi") :
            o \in recompute_dns(reset_link(q.s, "wifi"))
  BY SMTT(60) DEF stop_dhcp, Always
<1>2. PICK q \in clear_ipv4(stop_client(p.s, "wifi"), "wifi") :
         o \in recompute_dns(reset_link(q.s, "wifi"))
  BY <1>1
<1>3. Kept(s, stop_client(p.s, "wifi"))
  BY <1>1, ClearOwnedRoute, StopClient, KeptTwice, Constants, SMTT(60) DEF Kept
<1>4. Kept(s, q.s)
  BY <1>2, <1>3, ClearIpv4, KeptTwice, Constants, SMTT(60) DEF Kept
<1>5. Kept(s, reset_link(q.s, "wifi"))
  BY <1>4, ResetLink, KeptTwice, Constants DEF Kept
<1> QED BY <1>2, <1>5, RecomputeDns, KeptTwice, SMTT(60) DEF Kept

\* A static apply that succeeds leaves exactly its configuration in force.
LEMMA ApplyStaticSound ==
    ASSUME NEW s, Sound(s), NEW cfg \in StaticCfg, NEW o \in apply_ethernet_static(s, cfg)
    PROVE  Sound(o.s) /\ SamePolicy(s, o.s) /\ (o.ok => o.s.static = cfg)
<1> DEFINE b(u) == [reset_link(stop_client(u, "eth"), "eth") EXCEPT !.static = NoStatic]
           rest(u) == Then(apply_routes([u EXCEPT !.static = cfg]), recompute_dns)
<1>1. PICK p \in clear_owned_route(s, "eth") :
         IF p.ok THEN o \in Then(apply_ipv4(b(p.s), "eth", cfg), rest) ELSE o = p
  BY DEF apply_ethernet_static, Then
<1>2. Kept(s, p.s) /\ Sound(p.s)
  BY <1>1, ClearOwnedRoute, Constants DEF Kept
<1>3. CASE ~p.ok
  BY <1>1, <1>2, <1>3 DEF Kept
<1>4. CASE p.ok
  <2> DEFINE c == b(p.s)
             t == reset_link(stop_client(p.s, "eth"), "eth")
  <2>1. Sound(c) /\ ~c.link["eth"].managed /\ c.policy = s.policy
    <3>1. Sound(t) /\ ~t.link["eth"].managed /\ t.policy = s.policy
      <4> DEFINE e == stop_client(p.s, "eth")
      <4>1. Sound(e) /\ e.policy = s.policy
        BY <1>2, StopClient, Constants DEF Kept, SamePolicy
      <4> HIDE DEF e
      <4>2. /\ Sound(reset_link(e, "eth")) /\ ~reset_link(e, "eth").link["eth"].managed
            /\ reset_link(e, "eth").policy = e.policy
        BY <4>1, ResetLink, Constants
      <4> QED BY <4>1, <4>2 DEF e
    <3> HIDE DEF t
    <3>2. c = [t EXCEPT !.static = NoStatic]
      BY DEF t
    <3> HIDE DEF c
    <3> QED BY <3>1, <3>2, StaticUpdate, Constants
  <2>2. PICK q \in apply_ipv4(c, "eth", cfg) : IF q.ok THEN o \in rest(q.s) ELSE o = q
    BY <1>1, <1>4 DEF Then
  <2> HIDE DEF c
  <2>3. Sound(q.s) /\ ~q.s.link["eth"].managed /\ q.s.policy = s.policy
    BY <2>1, <2>2, ApplyIpv4, Constants, SMTT(60) DEF Kept, SameMethod, SamePolicy
  <2>4. CASE ~q.ok
    BY <2>2, <2>3, <2>4 DEF SamePolicy
  <2>5. CASE q.ok
    <3> DEFINE v == [q.s EXCEPT !.static = cfg]
    <3>1. Sound(v) /\ v.static = cfg /\ v.policy = s.policy
      BY <2>3, StaticUpdate
    <3>2. PICK r \in apply_routes(v) : IF r.ok THEN o \in recompute_dns(r.s) ELSE o = r
      BY <2>2, <2>5 DEF Then
    <3> HIDE DEF v
    <3>3. Kept(v, r.s)
      BY <3>1, <3>2, ApplyRoutes
    <3>4. Kept(v, o.s)
      BY <3>2, <3>3, RecomputeDns, KeptTwice DEF Kept
    <3> QED BY <3>1, <3>4 DEF Kept, SameMethod, SamePolicy
  <2> QED BY <2>4, <2>5
<1> QED BY <1>3, <1>4

LEMMA ReconcileLink ==
    ASSUME NEW s, Sound(s), NEW i \in Ifaces, NEW o \in reconcile_link(s, i)
    PROVE  Kept(s, o.s)
<1> DEFINE fact == s.lease[i]
           done(u) == Ok([u EXCEPT !.link[i].active = Configured(fact), !.link[i].lease = fact])
           want(a) == IF route_allowed(a, i)
                      THEN ensure_owned_route(a, i, fact.gw, route_metric(a, i, -1))
                      ELSE clear_owned_route(a, i)
<1>1. fact \in LeaseFact /\ fact.gw \in STRING /\ Configured(fact) \in BOOLEAN
  BY SMTT(60) DEF Sound, StateType, LeaseFact, Configured
<1>2. \/ o \in Ok(s) \/ o \in Failed(s)
      \/ o \in Then(clear_owned_route(s, i), LAMBDA a : Then(clear_ipv4(a, i), done))
      \/ o \in Then(apply_ipv4(s, i, fact), LAMBDA a : Then(want(a), done))
  BY DEF reconcile_link
<1> HIDE DEF fact
<1>3. ASSUME NEW u, Kept(s, u), NEW p \in done(u) PROVE Kept(s, p.s)
  <2>1. Sound(u) /\ p.s = [u EXCEPT !.link[i].active = Configured(fact), !.link[i].lease = fact]
    BY <1>3, OutcomeOk DEF Kept
  <2> QED BY <1>1, <1>3, <2>1, LeaseUpdate, KeptTwice
<1> HIDE DEF done
<1>4. CASE o \in Then(clear_owned_route(s, i), LAMBDA a : Then(clear_ipv4(a, i), done))
  <2>1. PICK p \in clear_owned_route(s, i) :
           IF p.ok THEN o \in Then(clear_ipv4(p.s, i), done) ELSE o = p
    BY <1>4 DEF Then
  <2>2. Kept(s, p.s)
    BY <2>1, ClearOwnedRoute
  <2>3. CASE p.ok
    <3>1. PICK q \in clear_ipv4(p.s, i) : IF q.ok THEN o \in done(q.s) ELSE o = q
      BY <2>1, <2>3 DEF Then
    <3>2. Kept(s, q.s)
      BY <2>2, <3>1, ClearIpv4, KeptTwice DEF Kept
    <3> QED BY <1>3, <3>1, <3>2
  <2> QED BY <2>1, <2>2, <2>3
<1>5. CASE o \in Then(apply_ipv4(s, i, fact), LAMBDA a : Then(want(a), done))
  <2>1. PICK p \in apply_ipv4(s, i, fact) : IF p.ok THEN o \in Then(want(p.s), done) ELSE o = p
    BY <1>5 DEF Then
  <2>2. Kept(s, p.s)
    BY <1>1, <2>1, ApplyIpv4
  <2>3. CASE p.ok
    <3>1. PICK q \in want(p.s) : IF q.ok THEN o \in done(q.s) ELSE o = q
      BY <2>1, <2>3 DEF Then
    <3>2. Kept(s, q.s)
      <4>1. Sound(p.s) /\ route_metric(p.s, i, -1) \in Int
        BY <2>2, Metric, SMTT(60) DEF Kept
      <4>2. CASE route_allowed(p.s, i)
        <5>1. q \in ensure_owned_route(p.s, i, fact.gw, route_metric(p.s, i, -1))
          BY <3>1, <4>2
        <5>2. Kept(p.s, q.s)
          BY <1>1, <4>1, <5>1, EnsureOwnedRoute
        <5> QED BY <2>2, <5>2, KeptTwice
      <4>3. CASE ~route_allowed(p.s, i)
        BY <2>2, <3>1, <4>1, <4>3, ClearOwnedRoute, KeptTwice
      <4> QED BY <4>2, <4>3
    <3> QED BY <1>3, <3>1, <3>2
  <2> QED BY <2>1, <2>2, <2>3
<1> QED BY <1>2, <1>4, <1>5, OkKept, FailedKept

LEMMA ReconcileLinks ==
    ASSUME NEW s, Sound(s), NEW o \in reconcile_links(s)
    PROVE  Kept(s, o.s)
<1>1. PICK p \in reconcile_link(s, "eth") : IF p.ok THEN o \in reconcile_link(p.s, "wifi") ELSE o = p
  BY DEF reconcile_links, Then
<1>2. Kept(s, p.s)
  BY <1>1, ReconcileLink, Constants
<1> QED BY <1>1, <1>2, ReconcileLink, KeptTwice, Constants DEF Kept

LEMMA RepairLink ==
    ASSUME NEW s, Sound(s), NEW i \in Ifaces, NEW o \in repair_link(s, i)
    PROVE  Kept(s, o.s)
<1> DEFINE want == IF i = "eth" /\ s.static.active THEN s.static ELSE s.link[i].lease
           first == IF s.addr[i] = want THEN Ok(s) ELSE apply_ipv4(s, i, want)
           second(u) == IF ~route_allowed(u, i) \/ want.gw = NoGw THEN Ok(u)
                        ELSE ensure_desired(u, i)
<1>1. want \in LeaseFact \cup StaticCfg
  BY DEF Sound, StateType
<1>2. o \in Ok(s) \/ o \in Then(first, second)
  BY DEF repair_link
<1> HIDE DEF want
<1>3. CASE o \in Then(first, second)
  <2>1. PICK p \in first : IF p.ok THEN o \in second(p.s) ELSE o = p
    BY <1>3 DEF Then
  <2>2. Kept(s, p.s) /\ Sound(p.s)
    BY <1>1, <2>1, OkKept, ApplyIpv4 DEF Kept
  <2>3. CASE p.ok
    <3>1. o \in Ok(p.s) \/ o \in ensure_desired(p.s, i)
      BY <2>1, <2>3
    <3>2. DesiredGw(p.s, i) \in STRING /\ DesiredMetric(p.s, i) \in Int
      BY <2>2, Desired DEF Sound
    <3>3. Kept(p.s, o.s)
      BY <2>2, <3>1, <3>2, OkKept, EnsureOwnedRoute DEF ensure_desired
    <3> QED BY <2>2, <3>3, KeptTwice
  <2> QED BY <2>1, <2>2, <2>3
<1> QED BY <1>2, <1>3, OkKept

LEMMA RepairOwnedState ==
    ASSUME NEW s, Sound(s), NEW o \in repair_owned_state(s)
    PROVE  Kept(s, o.s)
<1>1. PICK p \in repair_link(s, "eth") : IF p.ok THEN o \in repair_link(p.s, "wifi") ELSE o = p
  BY DEF repair_owned_state, Then
<1>2. Kept(s, p.s)
  BY <1>1, RepairLink, Constants
<1> QED BY <1>1, <1>2, RepairLink, KeptTwice, Constants DEF Kept

LEMMA RefreshKept ==
    ASSUME NEW s, Sound(s), NEW o \in refresh_external_state(s)
    PROVE  Kept(s, o.s)
<1>1. PICK p \in repair_owned_state(s) : IF p.ok THEN o \in recompute_dns(p.s) ELSE o = p
  BY DEF refresh_external_state, Then
<1>2. Kept(s, p.s)
  BY <1>1, RepairOwnedState
<1> QED BY <1>1, <1>2, RecomputeDns, KeptTwice DEF Kept

LEMMA ReconcileFullKept ==
    ASSUME NEW s, Sound(s), NEW o \in reconcile_full(s)
    PROVE  Kept(s, o.s)
<1>1. PICK p \in reconcile_links(s) :
         IF p.ok THEN o \in Then(repair_owned_state(p.s), recompute_dns) ELSE o = p
  BY DEF reconcile_full, Then
<1>2. Kept(s, p.s)
  BY <1>1, ReconcileLinks
<1>3. CASE p.ok
  BY <1>1, <1>2, <1>3, RefreshKept, KeptTwice DEF Kept, refresh_external_state
<1> QED BY <1>1, <1>2, <1>3

LEMMA ReconcileChangedKept ==
    ASSUME NEW s, Sound(s), NEW o \in reconcile_changed(s)
    PROVE  Kept(s, o.s)
<1>1. PICK p \in reconcile_links(s) :
         IF p.ok THEN o \in (IF p.s.link # s.link \/ ~p.s.init THEN recompute_dns(p.s) ELSE Ok(p.s))
                 ELSE o = p
  BY DEF reconcile_changed, Then
<1>2. Kept(s, p.s) /\ Sound(p.s)
  BY <1>1, ReconcileLinks DEF Kept
<1>3. CASE p.ok
  <2>1. o \in recompute_dns(p.s) \/ o \in Ok(p.s)
    BY <1>1, <1>3
  <2>2. Kept(p.s, o.s)
    BY <1>2, <2>1, RecomputeDns, OkKept
  <2> QED BY <1>2, <2>2, KeptTwice
<1> QED BY <1>1, <1>2, <1>3

LEMMA PolicyUpdate ==
    ASSUME NEW s, Sound(s), NEW p \in RoutePolicy
    PROVE  LET u == [s EXCEPT !.policy = p]
           IN  Sound(u) /\ SameMethod(s, u) /\ u.policy = p
<1> DEFINE u == [s EXCEPT !.policy = p]
<1>1. /\ u \in StateType /\ u.policy = p
      /\ u.created = s.created /\ u.routes = s.routes /\ u.owned = s.owned
      /\ u.resolver = s.resolver /\ u.managed = s.managed /\ u.init = s.init
      /\ u.static = s.static /\ u.link = s.link
  BY SMTT(60) DEF Sound, StateType
<1> HIDE DEF u
<1>2. Sound(u) /\ SameMethod(s, u)
  BY <1>1 DEF Sound, SameMethod, RoutesSound, MarkerSound, MethodSound
<1> QED BY <1>1, <1>2 DEF u

-----------------------------------------------------------------------------
(* A policy change is all or nothing. *)
\* What a successful ensure_owned_route leaves, and what it leaves alone.
EnsureDone(s, i, g, m, u) ==
    /\ u.link = s.link /\ u.static = s.static /\ u.policy = s.policy /\ u.addr = s.addr
    /\ IF g = NoGw THEN u.owned[i] = NoRoute
                   ELSE u.owned[i] = Route(i, g, m) /\ Route(i, g, m) \in u.routes
    /\ \A j \in Ifaces : j # i => u.owned[j] = s.owned[j]
    /\ \A r \in s.routes : r.iface # i => r \in u.routes

LEMMA ClearEffect ==
    ASSUME NEW s, Sound(s), NEW i \in Ifaces, NEW o \in clear_owned_route(s, i), o.ok
    PROVE  /\ o.s \in StateType /\ o.s.link = s.link /\ o.s.static = s.static
           /\ o.s.policy = s.policy /\ o.s.addr = s.addr /\ o.s.owned[i] = NoRoute
           /\ \A j \in Ifaces : j # i => o.s.owned[j] = s.owned[j]
           /\ \A r \in s.routes : r.iface # i => r \in o.s.routes
<1> DEFINE r == s.owned[i]
           u == [s EXCEPT !.routes = @ \ {r}, !.created = @ \ {r}]
<1>1. s \in StateType /\ (r = NoRoute \/ r.iface = i)
  BY DEF Sound, RoutesSound
<1>2. CASE r = NoRoute
  BY <1>1, <1>2, OutcomeOk DEF clear_owned_route
<1>3. CASE r # NoRoute
  <2>1. PICK p \in clear_default_route(s, r) :
           IF p.ok THEN o \in Ok([p.s EXCEPT !.owned[i] = NoRoute]) ELSE o = p
    BY <1>3 DEF clear_owned_route, Then
  <2>2. p.s = s \/ p.s = u
    BY <1>1, <2>1, OutcomeOk, OutcomeFailed DEF clear_default_route
  <2>3. /\ p.s \in StateType /\ p.s.owned = s.owned /\ p.s.link = s.link
        /\ p.s.static = s.static /\ p.s.policy = s.policy /\ p.s.addr = s.addr
        /\ s.routes \ {r} \subseteq p.s.routes
    <3>1. CASE p.s = s  BY <1>1, <3>1
    <3>2. CASE p.s = u
      <4>1. u \in StateType /\ u.routes = s.routes \ {r}
        BY <1>1 DEF StateType
      <4>2. /\ u.owned = s.owned /\ u.link = s.link /\ u.static = s.static
            /\ u.policy = s.policy /\ u.addr = s.addr
        BY <1>1 DEF StateType
      <4> QED BY <3>2, <4>1, <4>2
    <3> QED BY <2>2, <3>1, <3>2
  <2> DEFINE v == [p.s EXCEPT !.owned[i] = NoRoute]
  <2>4. /\ v \in StateType /\ v.owned[i] = NoRoute
        /\ \A j \in Ifaces : j # i => v.owned[j] = s.owned[j]
        /\ v.link = s.link /\ v.static = s.static /\ v.policy = s.policy
        /\ v.addr = s.addr /\ v.routes = p.s.routes
    BY <2>3, Constants DEF StateType
  <2>5. o.s = v
    BY <2>1, OutcomeOk
  <2> HIDE DEF v
  <2> QED BY <1>1, <1>3, <2>3, <2>4, <2>5
<1> QED BY <1>2, <1>3

LEMMA EnsureEffect ==
    ASSUME NEW s, Sound(s), NEW i \in Ifaces, NEW g \in STRING, NEW m \in Int,
           NEW o \in ensure_owned_route(s, i, g, m), o.ok
    PROVE  EnsureDone(s, i, g, m, o.s)
<1> DEFINE r == Route(i, g, m)
           first == IF s.owned[i] \notin {NoRoute, r} THEN clear_owned_route(s, i) ELSE Ok(s)
<1>1. CASE g = NoGw
  BY <1>1, ClearEffect, SMTT(60) DEF ensure_owned_route, EnsureDone
<1>2. CASE g # NoGw
  <2>1. PICK p \in first :
           IF p.ok THEN o \in Then(set_default_route(p.s, r), LAMBDA v : Ok([v EXCEPT !.owned[i] = r]))
                   ELSE o = p
    BY <1>2 DEF ensure_owned_route, Then
  <2>2. p.ok
    BY <2>1
  <2>3. /\ p.s \in StateType /\ p.s.link = s.link /\ p.s.static = s.static
        /\ p.s.policy = s.policy /\ p.s.addr = s.addr
        /\ \A j \in Ifaces : j # i => p.s.owned[j] = s.owned[j]
        /\ \A q \in s.routes : q.iface # i => q \in p.s.routes
    <3>1. CASE s.owned[i] \notin {NoRoute, r}
      BY <2>1, <2>2, <3>1, ClearEffect, SMTT(60)
    <3>2. CASE s.owned[i] \in {NoRoute, r}
      BY <2>1, <3>2, OutcomeOk DEF Sound
    <3> QED BY <3>1, <3>2
  <2>4. r \in Routes
    BY RouteType
  <2> HIDE DEF r
  <2>5. PICK q \in set_default_route(p.s, r) :
           IF q.ok THEN o \in Ok([q.s EXCEPT !.owned[i] = r]) ELSE o = q
    BY <2>1, <2>2 DEF Then
  <2>6. q.ok
    BY <2>5
  <2> DEFINE u == [p.s EXCEPT !.routes = @ \cup {r}, !.created = @ \cup {r}]
  <2>7. (q.s = p.s /\ r \in p.s.routes) \/ q.s = u
    BY <2>3, <2>5, <2>6, OutcomeOk, OutcomeFailed DEF set_default_route
  <2>8. /\ q.s \in StateType /\ q.s.owned = p.s.owned /\ q.s.link = p.s.link
        /\ q.s.static = p.s.static /\ q.s.policy = p.s.policy /\ q.s.addr = p.s.addr
        /\ r \in q.s.routes /\ p.s.routes \subseteq q.s.routes
    <3>1. CASE q.s = p.s /\ r \in p.s.routes  BY <2>3, <3>1
    <3>2. CASE q.s = u
      <4>1. u \in StateType
        BY <2>3, <2>4, RouteAdded
      <4> QED BY <2>3, <3>2, <4>1, SMTT(60) DEF StateType
    <3> QED BY <2>7, <3>1, <3>2
  <2> DEFINE v == [q.s EXCEPT !.owned[i] = r]
  <2>9. /\ v.owned[i] = r /\ \A j \in Ifaces : j # i => v.owned[j] = p.s.owned[j]
        /\ v.link = p.s.link /\ v.static = p.s.static /\ v.policy = p.s.policy
        /\ v.addr = p.s.addr /\ v.routes = q.s.routes
    BY <2>8 DEF StateType
  <2>10. o.s = v
    BY <2>5, <2>6, OutcomeOk
  <2> HIDE DEF v
  <2> QED BY <1>2, <2>3, <2>8, <2>9, <2>10 DEF EnsureDone, r
<1> QED BY <1>1, <1>2

\* RouteInPlace and RouteGone, of a state.
RouteDone(s, i) ==
    LET want == Route(i, DesiredGw(s, i), DesiredMetric(s, i))
    IN  IF DesiredGw(s, i) = NoGw THEN s.owned[i] = NoRoute
                                  ELSE s.owned[i] = want /\ want \in s.routes

\* The desired route depends on policy, links and static configuration only.
LEMMA SameDesired ==
    ASSUME NEW s, NEW u, NEW i, u.link = s.link, u.static = s.static, u.policy = s.policy
    PROVE  DesiredGw(u, i) = DesiredGw(s, i) /\ DesiredMetric(u, i) = DesiredMetric(s, i)
<1>1. DesiredGw(u, i) = DesiredGw(s, i)
  BY DEF DesiredGw, route_allowed
<1>2. \A manual : route_metric(u, i, manual) = route_metric(s, i, manual)
  BY DEF route_metric
<1> QED BY <1>1, <1>2, SMTT(60) DEF DesiredMetric

LEMMA ApplyRoutesEffect ==
    ASSUME NEW s, Sound(s), NEW o \in apply_routes(s), o.ok
    PROVE  \A i \in Ifaces : RouteDone(o.s, i)
<1>1. PICK p \in ensure_desired(s, "eth") : IF p.ok THEN o \in ensure_desired(p.s, "wifi") ELSE o = p
  BY DEF apply_routes, Then
<1>2. p.ok /\ o \in ensure_desired(p.s, "wifi")
  BY <1>1
<1> DEFINE g == DesiredGw(s, "eth")
           m == DesiredMetric(s, "eth")
           h == DesiredGw(p.s, "wifi")
           n == DesiredMetric(p.s, "wifi")
<1>3. g \in STRING /\ m \in Int
  BY Desired, Constants DEF Sound
<1>4. Sound(p.s)
  BY <1>1, <1>3, EnsureOwnedRoute, Constants DEF ensure_desired, Kept
<1>5. h \in STRING /\ n \in Int
  BY <1>4, Desired, Constants DEF Sound
<1>6. EnsureDone(s, "eth", g, m, p.s)
  BY <1>1, <1>2, <1>3, EnsureEffect, Constants DEF ensure_desired
<1>7. EnsureDone(p.s, "wifi", h, n, o.s)
  BY <1>2, <1>4, <1>5, EnsureEffect, Constants DEF ensure_desired
<1>8. DesiredGw(o.s, "eth") = g /\ DesiredMetric(o.s, "eth") = m
  BY <1>6, <1>7, SameDesired, SMTT(60) DEF EnsureDone
<1>9. DesiredGw(o.s, "wifi") = h /\ DesiredMetric(o.s, "wifi") = n
  BY <1>7, SameDesired DEF EnsureDone
<1>10. Route("eth", g, m).iface = "eth"
  BY SMTT(60) DEF Route
<1> HIDE DEF g, m, h, n
<1>11. RouteDone(o.s, "eth")
  BY <1>6, <1>7, <1>8, <1>10, Constants DEF EnsureDone, RouteDone
<1>12. RouteDone(o.s, "wifi")
  BY <1>7, <1>9 DEF EnsureDone, RouteDone
<1> QED BY <1>11, <1>12 DEF Ifaces

\* DnsInPlace, of a state.
DnsDone(s) ==
    IF ~PreserveExternal(s) /\ SelectedDns(s) # NoDns THEN s.resolver.ns = SelectedDns(s)
                                                      ELSE ~s.resolver.marker

\* The selection depends on policy, links, static configuration and live routes.
LEMMA SameSelection ==
    ASSUME NEW s, NEW u, SameButDns(s, u)
    PROVE  (PreserveExternal(u) <=> PreserveExternal(s)) /\ SelectedDns(u) = SelectedDns(s)
<1>1. /\ u.link = s.link /\ u.static = s.static /\ u.policy = s.policy
      /\ u.routes = s.routes
  BY DEF SameButDns
<1>2. /\ EthRoute(u) <=> EthRoute(s)
      /\ WifiRoute(u) <=> WifiRoute(s)
      /\ EthDns(u) = EthDns(s) /\ WifiDns(u) = WifiDns(s)
  BY <1>1 DEF EthRoute, WifiRoute, EthDns, WifiDns, route_allowed
<1>3. EthSelected(u) = EthSelected(s) /\ WifiSelected(u) = WifiSelected(s)
  BY <1>2 DEF EthSelected, WifiSelected
<1>4. \A i, manual : route_metric(u, i, manual) = route_metric(s, i, manual)
  BY <1>1 DEF route_metric
<1>5. PreserveExternal(u) <=> PreserveExternal(s)
  BY <1>1, <1>2 DEF PreserveExternal
<1>6. SelectedDns(u) = SelectedDns(s)
  BY <1>1, <1>2, <1>3, <1>4 DEF SelectedDns
<1> QED BY <1>5, <1>6

LEMMA RecomputeEffect ==
    ASSUME NEW s, Sound(s), NEW o \in recompute_dns(s), o.ok
    PROVE  SameButDns(s, o.s) /\ DnsDone(o.s)
<1> DEFINE u == init_dns_ownership(s)
           d == SelectedDns(u)
<1>1. Sound(u) /\ u.init = TRUE /\ SameButDns(s, u)
  BY InitDnsOwnership DEF Kept
<1>2. IF ~PreserveExternal(u) /\ d # NoDns THEN o \in select_dns(u, d) ELSE o \in relinquish_dns(u)
  BY DEF recompute_dns
<1>3. d \in STRING
  BY <1>1, SelectedType DEF Sound
<1>4. SameButDns(u, o.s) => (PreserveExternal(o.s) <=> PreserveExternal(u)) /\ SelectedDns(o.s) = d
  BY SameSelection
<1> HIDE DEF u, d
<1>5. CASE ~PreserveExternal(u) /\ d # NoDns
  <2>1. SameButDns(u, o.s) /\ o.s.resolver.ns = d
    BY <1>1, <1>2, <1>3, <1>5, SelectDns
  <2> QED BY <1>1, <1>4, <1>5, <2>1, SameButDnsTwice DEF DnsDone
<1>6. CASE ~(~PreserveExternal(u) /\ d # NoDns)
  <2>1. SameButDns(u, o.s) /\ ~o.s.resolver.marker
    BY <1>1, <1>2, <1>6, RelinquishDns
  <2> QED BY <1>1, <1>4, <1>6, <2>1, SameButDnsTwice DEF DnsDone
<1> QED BY <1>5, <1>6

\* Forwards everything is in place; backwards the policy is the old one again.
LEMMA SetRoutePolicySound ==
    ASSUME NEW s, Sound(s), NEW p \in RoutePolicy, NEW o \in set_route_policy(s, p)
    PROVE  /\ Sound(o.s) /\ SameMethod(s, o.s)
           /\ o.s.policy # s.policy => (\A i \in Ifaces : RouteDone(o.s, i)) /\ DnsDone(o.s)
<1> DEFINE new == [s EXCEPT !.policy = p]
           forward == Then(apply_routes(new), recompute_dns)
           back(u) == Always(apply_routes([u EXCEPT !.policy = s.policy]), recompute_dns)
<1>0. o \in Rollback(forward, back)
  BY DEF set_route_policy
<1> HIDE DEF forward, back
<1>1. PICK q \in forward : IF q.ok THEN o = q ELSE \E r \in back(q.s) : o = [ok |-> FALSE, s |-> r.s]
  BY <1>0 DEF Rollback
<1>2. PICK a \in apply_routes(new) : IF a.ok THEN q \in recompute_dns(a.s) ELSE q = a
  BY <1>1 DEF Then, forward
<1>3. Sound(new) /\ SameMethod(s, new)
  BY PolicyUpdate
<1> HIDE DEF new
<1>4. Kept(new, a.s) /\ Sound(a.s)
  BY <1>2, <1>3, ApplyRoutes DEF Kept
<1>5. Kept(new, q.s)
  BY <1>2, <1>4, RecomputeDns, KeptTwice
<1>6. Sound(q.s) /\ SameMethod(s, q.s)
  BY <1>3, <1>5 DEF Kept, SameMethod
<1>7. CASE q.ok
  <2>1. a.ok /\ o = q /\ q \in recompute_dns(a.s)
    BY <1>1, <1>2, <1>7
  <2>2. \A i \in Ifaces : RouteDone(a.s, i)
    BY <1>2, <1>3, <2>1, ApplyRoutesEffect
  <2>3. SameButDns(a.s, o.s) /\ DnsDone(o.s)
    BY <1>4, <1>7, <2>1, RecomputeEffect, SMTT(60)
  <2>4. ASSUME NEW i \in Ifaces PROVE RouteDone(o.s, i)
    <3>1. DesiredGw(o.s, i) = DesiredGw(a.s, i) /\ DesiredMetric(o.s, i) = DesiredMetric(a.s, i)
      BY <2>3, SameDesired DEF SameButDns
    <3> QED BY <2>2, <2>3, <3>1, SMTT(60) DEF RouteDone, SameButDns
  <2> QED BY <1>6, <2>1, <2>3, <2>4
<1>8. CASE ~q.ok
  <2> DEFINE old == [q.s EXCEPT !.policy = s.policy]
  <2>1. PICK r \in back(q.s) : o = [ok |-> FALSE, s |-> r.s]
    BY <1>1, <1>8
  <2>2. PICK e \in apply_routes(old) : r \in recompute_dns(e.s)
    BY <2>1 DEF Always, back
  <2>3. s.policy \in RoutePolicy
    BY DEF Sound, StateType
  <2>4. Sound(old) /\ SameMethod(q.s, old) /\ old.policy = s.policy
    BY <1>6, <2>3, PolicyUpdate
  <2> HIDE DEF old
  <2>5. Kept(old, e.s) /\ Sound(e.s)
    BY <2>2, <2>4, ApplyRoutes DEF Kept
  <2>6. Kept(old, r.s)
    BY <2>2, <2>5, RecomputeDns, KeptTwice
  <2>7. Sound(r.s) /\ SameMethod(s, r.s) /\ r.s.policy = s.policy
    BY <1>6, <2>4, <2>6 DEF Kept, SameMethod, SamePolicy
  <2> QED BY <2>1, <2>7
<1> QED BY <1>7, <1>8

-----------------------------------------------------------------------------
(* The transaction. *)
Transactions == [pc : {"idle", "commit", "rollback"}, desired : StaticCfg, previous : StaticCfg]

\* Between the apply and the commit the control plane already runs the desired
\* configuration, and a rollback goes to the one in the file.
TxInv ==
    /\ Sound(State) /\ drift \in Nat
    /\ config \in StaticCfg /\ tx \in Transactions /\ settled \in BOOLEAN
    /\ stages = IF tx.pc = "commit" THEN 1 ELSE 0
    /\ tx.pc = "commit" => Runs(tx.desired)
    /\ tx.pc # "idle" => tx.previous = load_ethernet_config
    /\ tx.pc = "idle" /\ settled => Runs(config)

LEMMA Landing ==
    ASSUME NEW s \in StateType, Become(s)
    PROVE  State' = s
  BY DEF Become, State, StateType

LEMMA StateFields ==
    /\ State.static = static_eth /\ State.link = link /\ State.policy = route_policy
    /\ State.created = created /\ State.owned = owned /\ State.routes = routes
    /\ State.resolver = resolver /\ State.managed = managed_dns /\ State.init = dns_initialized
    /\ State.addr = addr /\ State.faults = faults
  BY DEF State

LEMMA NextFields ==
    /\ State'.static = static_eth' /\ State'.link = link' /\ State'.policy = route_policy'
    /\ State'.created = created' /\ State'.owned = owned' /\ State'.routes = routes'
    /\ State'.resolver = resolver' /\ State'.managed = managed_dns' /\ State'.init = dns_initialized'
    /\ State'.addr = addr' /\ State'.faults = faults'
  BY DEF State

\* The variables' types, one by one.
FieldTypes ==
    /\ link \in [Ifaces -> [managed : BOOLEAN, active : BOOLEAN, lease : LeaseFact]]
    /\ static_eth \in StaticCfg /\ owned \in [Ifaces -> Routes] /\ route_policy \in RoutePolicy
    /\ dns_initialized \in BOOLEAN /\ managed_dns \in BOOLEAN /\ last_dns \in STRING
    /\ client \in SUBSET Ifaces /\ lease \in [Ifaces -> LeaseFact]
    /\ routes \in SUBSET Routes /\ addr \in [Ifaces -> LeaseFact \cup StaticCfg \cup {NoAddr}]
    /\ resolver \in [ns : STRING, marker : BOOLEAN]
    /\ created \in SUBSET Routes /\ faults \in Nat

LEMMA StateTyped == FieldTypes <=> State \in StateType
<1>1. FieldTypes => State \in StateType
  BY DEF FieldTypes, State, StateType
<1>2. State \in StateType => FieldTypes
  BY DEF FieldTypes, State, StateType
<1> QED BY <1>1, <1>2

LEMMA NextTyped == FieldTypes' => State' \in StateType
  BY DEF FieldTypes, State, StateType

LEMMA KeptStep ==
    ASSUME TxInv, Sound(State'), SameMethod(State, State'), drift' \in Nat, UNCHANGED tvars
    PROVE  TxInv'
<1>1. static_eth' = static_eth /\ link'["eth"].managed = link["eth"].managed
  BY StateFields, NextFields DEF SameMethod
<1>2. Sound(State)'
  OBVIOUS
<1>3. tx' = tx /\ config' = config /\ stages' = stages /\ settled' = settled
  BY DEF tvars
<1>4. Runs(tx.desired)' <=> Runs(tx.desired)
  BY <1>1, <1>3 DEF Runs
<1>5. Runs(config)' <=> Runs(config)
  BY <1>1, <1>3 DEF Runs
<1>6. load_ethernet_config' = load_ethernet_config
  BY <1>3 DEF load_ethernet_config
<1> QED BY <1>2, <1>3, <1>4, <1>5, <1>6 DEF TxInv

LEMMA PerformKept ==
    ASSUME NEW outs, TxInv, \A o \in outs : Kept(State, o.s), Perform(outs), UNCHANGED tvars
    PROVE  TxInv' /\ route_policy' = route_policy
<1>1. PICK o \in outs : Become(o.s)
  BY DEF Perform
<1>2. Kept(State, State')
  BY <1>1, Landing DEF Kept, Sound
<1>3. drift' \in Nat
  BY DEF Perform, TxInv
<1>4. route_policy' = route_policy
  BY <1>2, StateFields, NextFields DEF Kept, SamePolicy
<1> QED BY <1>2, <1>3, <1>4, KeptStep DEF Kept

\* What a configuration asks of Ethernet, in state s.
RunsIn(s, cfg) ==
    IF cfg.active THEN s.static = cfg ELSE s.link["eth"].managed /\ ~s.static.active

LEMMA ApplyRuntime ==
    ASSUME NEW s, Sound(s), NEW cfg \in StaticCfg, NEW o \in apply_ethernet_runtime(s, cfg)
    PROVE  Sound(o.s) /\ SamePolicy(s, o.s) /\ (o.ok => RunsIn(o.s, cfg))
<1>1. CASE cfg.active
  BY <1>1, ApplyStaticSound DEF apply_ethernet_runtime, RunsIn
<1>2. CASE ~cfg.active
  BY <1>2, StartDhcpSound, Constants DEF apply_ethernet_runtime, RunsIn
<1> QED BY <1>1, <1>2

\* Every outcome of an apply is a success or a failure.
Verdicts(outs) == \A p \in outs : p.ok \in BOOLEAN

LEMMA VerdictOne == ASSUME NEW s PROVE Verdicts(Ok(s)) /\ Verdicts(Failed(s))
<1>1. Verdicts(Ok(s))
  BY OutcomeOk DEF Verdicts
<1>2. ASSUME NEW p \in Failed(s) PROVE p.ok \in BOOLEAN
  <2>1. p = [ok |-> FALSE, s |-> [s EXCEPT !.faults = @ - 1]]
    BY DEF Failed
  <2> QED BY <2>1
<1> QED BY <1>1, <1>2 DEF Verdicts

LEMMA VerdictClearRoute ==
    ASSUME NEW s, NEW i
    PROVE  Verdicts(clear_owned_route(s, i))
<1> SUFFICES ASSUME NEW p \in clear_owned_route(s, i) PROVE p.ok \in BOOLEAN
  BY DEF Verdicts
<1>1. \/ p \in Ok(s)
      \/ \E q \in clear_default_route(s, s.owned[i]) :
            p = q \/ p \in Ok([q.s EXCEPT !.owned[i] = NoRoute])
  BY DEF clear_owned_route, Then
<1>2. Verdicts(clear_default_route(s, s.owned[i]))
  BY VerdictOne DEF Verdicts, clear_default_route
<1> QED BY <1>1, <1>2, VerdictOne DEF Verdicts

LEMMA VerdictRoutes == ASSUME NEW s PROVE Verdicts(apply_routes(s))
<1>1. ASSUME NEW u, NEW i, NEW g, NEW m, NEW p \in ensure_owned_route(u, i, g, m)
      PROVE  p.ok \in BOOLEAN
  <2> DEFINE r == Route(i, g, m)
             rest(v) == Then(set_default_route(v, r), LAMBDA w : Ok([w EXCEPT !.owned[i] = r]))
             first == IF u.owned[i] \notin {NoRoute, r} THEN clear_owned_route(u, i) ELSE Ok(u)
  <2>1. p \in clear_owned_route(u, i) \/ p \in Then(first, rest)
    BY <1>1 DEF ensure_owned_route
  <2>2. ASSUME NEW v, NEW q \in rest(v) PROVE q.ok \in BOOLEAN
    <3>1. PICK w \in set_default_route(v, r) : q = w \/ q \in Ok([w.s EXCEPT !.owned[i] = r])
      BY <2>2 DEF Then
    <3>2. Verdicts(set_default_route(v, r))
      BY VerdictOne DEF Verdicts, set_default_route
    <3> QED BY <3>1, <3>2, VerdictOne DEF Verdicts
  <2> HIDE DEF rest
  <2>3. ASSUME p \in Then(first, rest) PROVE p.ok \in BOOLEAN
    <3>1. PICK q \in first : p = q \/ p \in rest(q.s)
      BY <2>3 DEF Then
    <3> QED BY <2>2, <3>1, VerdictClearRoute, VerdictOne DEF Verdicts
  <2> QED BY <2>1, <2>3, VerdictClearRoute DEF Verdicts
<1>2. ASSUME NEW p \in apply_routes(s) PROVE p.ok \in BOOLEAN
  <2>1. PICK q \in ensure_desired(s, "eth") : p = q \/ p \in ensure_desired(q.s, "wifi")
    BY <1>2 DEF apply_routes, Then
  <2> QED BY <1>1, <2>1 DEF ensure_desired
<1> QED BY <1>2 DEF Verdicts

LEMMA VerdictDns == ASSUME NEW s PROVE Verdicts(recompute_dns(s))
<1> SUFFICES ASSUME NEW p \in recompute_dns(s) PROVE p.ok \in BOOLEAN
  BY DEF Verdicts
<1> DEFINE u == init_dns_ownership(s)
           d == SelectedDns(u)
<1>1. p \in select_dns(u, d) \/ p \in relinquish_dns(u)
  BY DEF recompute_dns
<1> HIDE DEF u, d
<1>2. CASE p \in select_dns(u, d)
  <2>1. \/ p \in Ok(u)
        \/ \E q \in set_primary_dns(u, d) : p = q \/ p \in Ok([q.s EXCEPT !.managed = TRUE, !.last = d])
    BY <1>2 DEF select_dns, Then
  <2>2. Verdicts(set_primary_dns(u, d))
    BY VerdictOne DEF Verdicts, set_primary_dns
  <2> QED BY <2>1, <2>2, VerdictOne DEF Verdicts
<1>3. CASE p \in relinquish_dns(u)
  <2>1. \/ p \in Ok(u)
        \/ \E q \in clear_dns(u) : p = q \/ p \in Ok([q.s EXCEPT !.managed = FALSE, !.last = NoDns])
    BY <1>3 DEF relinquish_dns, Then
  <2>2. Verdicts(clear_dns(u))
    BY VerdictOne DEF Verdicts, clear_dns
  <2> QED BY <2>1, <2>2, VerdictOne DEF Verdicts
<1> QED BY <1>1, <1>2, <1>3

LEMMA Verdict ==
    ASSUME NEW s, NEW cfg, NEW o \in apply_ethernet_runtime(s, cfg)
    PROVE  o.ok \in BOOLEAN
<1>1. CASE o \in start_dhcp(s, "eth")
  <2> DEFINE launch(d) == Then(start_client(d, "eth"),
                               LAMBDA e : Ok([e EXCEPT !.link["eth"].managed = TRUE]))
             c(b) == [reset_link(b, "eth") EXCEPT !.static = NoStatic]
             after(a) == Always(clear_ipv4(stop_client(a, "eth"), "eth"),
                                LAMBDA b : Then(recompute_dns(c(b)), launch))
  <2>1. ASSUME NEW d, NEW p \in launch(d) PROVE p.ok \in BOOLEAN
    <3>1. PICK q \in start_client(d, "eth") :
             p = q \/ p \in Ok([q.s EXCEPT !.link["eth"].managed = TRUE])
      BY <2>1 DEF Then
    <3> QED BY <3>1, VerdictOne DEF Verdicts, start_client
  <2>2. o \in Then(clear_owned_route(s, "eth"), after)
    BY <1>1, SMTT(60) DEF start_dhcp
  <2> HIDE DEF launch
  <2>3. ASSUME NEW a, NEW p \in after(a) PROVE p.ok \in BOOLEAN
    <3>1. PICK b \in clear_ipv4(stop_client(a, "eth"), "eth") : p \in Then(recompute_dns(c(b.s)), launch)
      BY <2>3 DEF Always
    <3>2. PICK d \in recompute_dns(c(b.s)) : p = d \/ p \in launch(d.s)
      BY <3>1 DEF Then
    <3> QED BY <2>1, <3>2, VerdictDns DEF Verdicts
  <2> HIDE DEF after
  <2>4. PICK a \in clear_owned_route(s, "eth") : o = a \/ o \in after(a.s)
    BY <2>2 DEF Then
  <2> QED BY <2>3, <2>4, VerdictClearRoute DEF Verdicts
<1>2. CASE o \in apply_ethernet_static(s, cfg)
  <2> DEFINE b(u) == [reset_link(stop_client(u, "eth"), "eth") EXCEPT !.static = NoStatic]
             rest(u) == Then(apply_routes([u EXCEPT !.static = cfg]), recompute_dns)
  <2>1. PICK a \in clear_owned_route(s, "eth") : o = a \/ o \in Then(apply_ipv4(b(a.s), "eth", cfg), rest)
    BY <1>2 DEF apply_ethernet_static, Then
  <2>2. CASE o \in Then(apply_ipv4(b(a.s), "eth", cfg), rest)
    <3>1. PICK c \in apply_ipv4(b(a.s), "eth", cfg) : o = c \/ o \in rest(c.s)
      BY <2>2 DEF Then
    <3>2. Verdicts(apply_ipv4(b(a.s), "eth", cfg))
      BY VerdictOne DEF Verdicts, apply_ipv4
    <3>3. CASE o \in rest(c.s)
      <4>1. PICK r \in apply_routes([c.s EXCEPT !.static = cfg]) : o = r \/ o \in recompute_dns(r.s)
        BY <3>3 DEF Then
      <4> QED BY <4>1, VerdictRoutes, VerdictDns DEF Verdicts
    <3> QED BY <3>1, <3>2, <3>3 DEF Verdicts
  <2> QED BY <2>1, <2>2, VerdictClearRoute DEF Verdicts
<1> QED BY <1>1, <1>2 DEF apply_ethernet_runtime

LEMMA LoadType == ASSUME config \in StaticCfg PROVE load_ethernet_config \in StaticCfg
  BY Constants DEF load_ethernet_config

\* A missing file and method=dhcp ask for the same.
LEMMA LoadRuns ==
    ASSUME NEW s
    PROVE  RunsIn(s, load_ethernet_config) <=> RunsIn(s, config)
<1>1. CASE config = NoFile
  <2>1. ~NoFile.active /\ ~NoStatic.active
    BY DEF NoFile, NoStatic
  <2> QED BY <1>1, <2>1 DEF RunsIn, load_ethernet_config
<1>2. CASE config # NoFile
  BY <1>2 DEF load_ethernet_config
<1> QED BY <1>1, <1>2

LEMMA StageAndApply ==
    ASSUME TxInv, NEW desired \in StaticCfg, apply_ethernet_transaction(desired)
    PROVE  TxInv' /\ route_policy' = route_policy
<1>1. PICK staged \in stage_ethernet_config(State) :
         \/ ~staged.ok /\ Become(staged.s) /\ UNCHANGED tvars
         \/ /\ staged.ok
            /\ \E o \in apply_ethernet_runtime(staged.s, desired) :
                 /\ Become(o.s)
                 /\ stages' = IF o.ok THEN stages + 1 ELSE discard_ethernet_config(stages + 1)
                 /\ tx' = [pc |-> IF o.ok THEN "commit" ELSE "rollback",
                           desired |-> desired, previous |-> load_ethernet_config]
            /\ UNCHANGED <<config, settled>>
  BY DEF apply_ethernet_transaction
<1>2. tx.pc = "idle" /\ drift' = drift
  BY DEF apply_ethernet_transaction
<1>3. Sound(State) /\ Kept(State, staged.s)
  BY <1>1, OkKept, FailedKept DEF TxInv, stage_ethernet_config
<1>4. CASE ~staged.ok
  <2>1. State' = staged.s /\ UNCHANGED tvars
    BY <1>1, <1>3, <1>4, Landing DEF Kept, Sound
  <2>2. route_policy' = route_policy
    BY <1>3, <2>1, StateFields, NextFields DEF Kept, SamePolicy
  <2> QED BY <1>2, <1>3, <2>1, <2>2, KeptStep DEF TxInv, Kept
<1>5. CASE staged.ok
  <2>1. PICK o \in apply_ethernet_runtime(staged.s, desired) :
           /\ Become(o.s)
           /\ stages' = IF o.ok THEN stages + 1 ELSE discard_ethernet_config(stages + 1)
           /\ tx' = [pc |-> IF o.ok THEN "commit" ELSE "rollback",
                     desired |-> desired, previous |-> load_ethernet_config]
    BY <1>1, <1>5
  <2>2. config' = config /\ settled' = settled
    BY <1>1, <1>5, SMTT(60)
  <2>3. Sound(o.s) /\ (o.ok => RunsIn(o.s, desired)) /\ o.s.policy = State.policy
    BY <1>3, <2>1, ApplyRuntime, SMTT(60) DEF Kept, SamePolicy
  <2>4. State' = o.s
    BY <2>1, <2>3, Landing, SMTT(60) DEF Sound
  <2>5. Sound(State)' /\ (o.ok => Runs(desired)') /\ route_policy' = route_policy
    BY <2>3, <2>4, StateFields, NextFields DEF Runs, RunsIn
  <2>6. tx' \in Transactions /\ load_ethernet_config' = load_ethernet_config
    BY <2>1, <2>2, LoadType DEF Transactions, TxInv, load_ethernet_config
  <2>7. /\ tx'.desired = desired /\ tx'.previous = load_ethernet_config
        /\ tx'.pc = IF o.ok THEN "commit" ELSE "rollback"
    BY <2>1
  <2>8. stages' = IF o.ok THEN 1 ELSE 0
    BY <1>2, <2>1, SMTT(60) DEF TxInv, discard_ethernet_config
  <2>9. Runs(tx.desired)' \/ ~o.ok
    BY <2>5, <2>7 DEF Runs
  <2> QED BY <1>2, <2>2, <2>5, <2>6, <2>7, <2>8, <2>9 DEF TxInv
<1> QED BY <1>4, <1>5, SMTT(60)

LEMMA Commit ==
    ASSUME TxInv, commit_ethernet_config
    PROVE  TxInv' /\ route_policy' = route_policy
<1>1. tx.pc = "commit" /\ stages' = 0 /\ drift' = drift /\ Runs(tx.desired) /\ Sound(State)
  BY SMTT(60) DEF commit_ethernet_config, TxInv, discard_ethernet_config
<1>2. PICK o \in Ok(State) \cup Failed(State) : Become(o.s)
  BY DEF commit_ethernet_config
<1>3. Kept(State, o.s)
  BY <1>1, <1>2, OkKept, FailedKept
<1>4. Kept(State, State')
  BY <1>2, <1>3, Landing DEF Kept, Sound
<1>5. /\ static_eth' = static_eth /\ link'["eth"].managed = link["eth"].managed
      /\ Sound(State)' /\ route_policy' = route_policy
  BY <1>4, StateFields, NextFields, SMTT(60) DEF Kept, SameMethod, SamePolicy
<1>6. CASE config' = tx.desired /\ tx' = Idle /\ settled' = TRUE
  <2>1. Runs(config)'
    BY <1>1, <1>5, <1>6 DEF Runs
  <2>2. Idle \in Transactions /\ Idle.pc = "idle"
    BY Constants DEF Idle, Transactions
  <2>3. config' \in StaticCfg
    BY <1>6 DEF TxInv, Transactions
  <2> QED BY <1>1, <1>5, <1>6, <2>1, <2>2, <2>3 DEF TxInv
<1>7. CASE tx' = [tx EXCEPT !.pc = "rollback"] /\ UNCHANGED <<config, settled>>
  <2>1. tx' \in Transactions /\ tx'.pc = "rollback" /\ tx'.previous = tx.previous
    BY <1>7 DEF TxInv, Transactions
  <2>2. load_ethernet_config' = load_ethernet_config
    BY <1>7 DEF load_ethernet_config
  <2> QED BY <1>1, <1>5, <1>7, <2>1, <2>2 DEF TxInv
<1> QED BY <1>6, <1>7 DEF commit_ethernet_config

LEMMA RollBack ==
    ASSUME TxInv, roll_back
    PROVE  TxInv' /\ route_policy' = route_policy
<1>1. /\ tx.pc = "rollback" /\ tx' = Idle /\ config' = config /\ stages' = 0 /\ drift' = drift
      /\ tx.previous = load_ethernet_config
  BY DEF roll_back, TxInv
<1>2. PICK o \in apply_ethernet_runtime(State, tx.previous) : Become(o.s) /\ settled' = o.ok
  BY DEF roll_back
<1>3. tx.previous \in StaticCfg /\ Sound(State)
  BY DEF TxInv, Transactions
<1>4. Sound(o.s) /\ SamePolicy(State, o.s) /\ (o.ok => RunsIn(o.s, tx.previous))
  BY <1>2, <1>3, ApplyRuntime
<1>5. State' = o.s
  BY <1>2, <1>4, Landing DEF Sound
<1>6. settled' => RunsIn(State', config)
  BY <1>1, <1>2, <1>4, <1>5, LoadRuns
<1>7. settled' => Runs(config)'
  BY <1>1, <1>6, NextFields DEF Runs, RunsIn
<1>8. Idle \in Transactions /\ Idle.pc = "idle"
  BY Constants DEF Idle, Transactions
<1>9. settled' \in BOOLEAN
  BY <1>2, Verdict, SMTT(60)
<1>10. route_policy' = route_policy
  BY <1>4, <1>5, StateFields, NextFields DEF SamePolicy
<1> QED BY <1>1, <1>4, <1>5, <1>7, <1>8, <1>9, <1>10 DEF TxInv

\* What the policy asks for is in place.
PolicyDone == (\A i \in Ifaces : RouteInPlace(i) /\ RouteGone(i)) /\ DnsInPlace

LEMMA DoneIsInPlace ==
    ASSUME \A i \in Ifaces : RouteDone(State, i), DnsDone(State)
    PROVE  PolicyDone
<1>1. ASSUME NEW i \in Ifaces PROVE RouteInPlace(i) /\ RouteGone(i)
  <2> DEFINE want == Route(i, DesiredGw(State, i), DesiredMetric(State, i))
  <2>1. want.gw = DesiredGw(State, i)
    BY SMTT(60) DEF Route
  <2>2. State.owned = owned /\ State.routes = routes /\ RouteDone(State, i)
    BY DEF State
  <2> QED BY <2>1, <2>2 DEF RouteInPlace, RouteGone, RouteDone
<1>2. DnsInPlace
  BY StateFields DEF DnsDone, DnsInPlace
<1> QED BY <1>1, <1>2, SMTT(60) DEF PolicyDone

LEMMA PolicyStep ==
    ASSUME TxInv, NEW p \in Policies, SetRoutePolicy(p), UNCHANGED tvars
    PROVE  TxInv' /\ (route_policy' # route_policy => PolicyDone')
<1>1. Sound(State) /\ p \in RoutePolicy
  BY StringAssumption DEF TxInv
<1>2. PICK o \in set_route_policy(State, p) : Become(o.s)
  BY DEF SetRoutePolicy, Perform
<1>3. /\ Sound(o.s) /\ SameMethod(State, o.s)
      /\ o.s.policy # State.policy => (\A i \in Ifaces : RouteDone(o.s, i)) /\ DnsDone(o.s)
  BY <1>1, <1>2, SetRoutePolicySound, SMTT(60)
<1>4. State' = o.s
  BY <1>2, <1>3, Landing DEF Sound
<1>5. drift' \in Nat
  BY SMTT(60) DEF SetRoutePolicy, Perform, TxInv
<1>6. TxInv'
  BY <1>3, <1>4, <1>5, KeptStep
<1>7. ASSUME route_policy' # route_policy PROVE PolicyDone'
  <2>1. o.s.policy # State.policy
    BY <1>4, <1>7, StateFields, NextFields, SMTT(60)
  <2>2. (\A i \in Ifaces : RouteDone(State, i))' /\ DnsDone(State)'
    BY <1>3, <1>4, <2>1
  <2> QED BY <2>2, DoneIsInPlace, PTL
<1> QED BY <1>6, <1>7

LEMMA ReactorKept ==
    ASSUME TxInv, Reactor
    PROVE  TxInv' /\ (route_policy' # route_policy => PolicyDone')
<1>1. Sound(State) /\ UNCHANGED tvars
  BY DEF TxInv, Reactor
<1>2. ASSUME NEW p \in Policies, SetRoutePolicy(p)
      PROVE  TxInv' /\ (route_policy' # route_policy => PolicyDone')
  BY <1>1, <1>2, PolicyStep
<1>3. CASE Reconcile
  <2>1. \A o \in reconcile_changed(State) : Kept(State, o.s)
    BY <1>1, ReconcileChangedKept
  <2> QED BY <1>1, <1>3, <2>1, PerformKept DEF Reconcile
<1>4. CASE ReconcileFull
  <2>1. \A o \in reconcile_full(State) : Kept(State, o.s)
    BY <1>1, ReconcileFullKept
  <2> QED BY <1>1, <1>4, <2>1, PerformKept DEF ReconcileFull
<1>5. CASE Refresh
  <2>1. \A o \in refresh_external_state(State) : Kept(State, o.s)
    BY <1>1, RefreshKept
  <2> QED BY <1>1, <1>5, <2>1, PerformKept DEF Refresh
<1> QED BY <1>2, <1>3, <1>4, <1>5 DEF Reactor

LEMMA OthersKept ==
    ASSUME TxInv, Others
    PROVE  TxInv' /\ route_policy' = route_policy
<1>1. Sound(State) /\ State \in StateType /\ UNCHANGED tvars
  BY DEF TxInv, Others, Sound
<1>2. CASE StartDhcp("wifi")
  <2>1. \A o \in start_dhcp(State, "wifi") : Kept(State, o.s)
    BY <1>1, StartDhcpSound, Constants
  <2> QED BY <1>1, <1>2, <2>1, PerformKept, SMTT(60) DEF StartDhcp
<1>3. CASE StopDhcp
  <2>1. \A o \in stop_dhcp(State, "wifi") : Kept(State, o.s)
    BY <1>1, StopDhcpKept
  <2> QED BY <1>1, <1>3, <2>1, PerformKept DEF StopDhcp
<1>4. ASSUME NEW i \in Ifaces, PublishLease(i) PROVE TxInv' /\ route_policy' = route_policy
  <2>1. PICK f \in Facts[i] : lease' = [lease EXCEPT ![i] = f]
    BY <1>4 DEF PublishLease
  <2>2. f \in LeaseFact
    BY FactAssumption
  <2>3. State' \in StateType
    <3>1. FieldTypes
      BY <1>1, StateTyped
    <3>2. lease' \in [Ifaces -> LeaseFact]
      BY <2>1, <2>2, <3>1, SMTT(60) DEF FieldTypes
    <3>3. FieldTypes'
      BY <1>4, <3>1, <3>2, SMTT(60) DEF PublishLease, FieldTypes
    <3> QED BY <3>3, NextTyped
  <2>4. /\ State'.created = State.created /\ State'.routes = State.routes
        /\ State'.owned = State.owned /\ State'.resolver = State.resolver
        /\ State'.managed = State.managed /\ State'.init = State.init
        /\ State'.static = State.static /\ State'.policy = State.policy /\ State'.link = State.link
    BY <1>4, StateFields, NextFields, SMTT(60) DEF PublishLease
  <2>5. Kept(State, State')
    BY <1>1, <2>3, <2>4, Untouched
  <2>6. drift' \in Nat /\ route_policy' = route_policy
    BY <1>4 DEF PublishLease, TxInv
  <2> QED BY <1>1, <2>5, <2>6, KeptStep DEF Kept
<1>5. CASE Drift
  <2>1. /\ UNCHANGED <<link, static_eth, owned, route_policy, dns_initialized, managed_dns,
                       last_dns, client, lease, faults>>
        /\ drift' \in Nat
    BY <1>5, SMTT(60) DEF Drift, TxInv
  <2>2. /\ State'.owned = State.owned /\ State'.managed = State.managed
        /\ State'.init = State.init /\ State'.static = State.static
        /\ State'.policy = State.policy /\ State'.link = State.link
    BY <2>1, StateFields, NextFields, SMTT(60)
  <2>3. /\ routes' \subseteq Routes /\ created' \subseteq created /\ created' \subseteq routes'
        /\ addr' \in [Ifaces -> LeaseFact \cup StaticCfg \cup {NoAddr}]
        /\ resolver' \in [ns : STRING, marker : BOOLEAN]
        /\ resolver' = resolver \/ ~resolver'.marker
    <3>1. /\ routes \subseteq Routes /\ created \subseteq routes
          /\ addr \in [Ifaces -> LeaseFact \cup StaticCfg \cup {NoAddr}]
          /\ resolver \in [ns : STRING, marker : BOOLEAN]
      BY <1>1, StateTyped, StateFields DEF Sound, RoutesSound, FieldTypes
    <3>2. CASE /\ \E r \in routes : routes' = routes \ {r} /\ created' = created \ {r}
               /\ UNCHANGED <<addr, resolver>>
      BY <3>1, <3>2
    <3>3. CASE /\ \E r \in ForeignRoutes \ routes : routes' = routes \cup {r}
               /\ UNCHANGED <<addr, resolver, created>>
      BY <3>1, <3>3, StringAssumption
    <3>4. CASE /\ \E i \in Ifaces : addr' = [addr EXCEPT ![i] = NoAddr]
               /\ UNCHANGED <<routes, resolver, created>>
      BY <3>1, <3>4
    <3>5. CASE /\ resolver' = [ns |-> ForeignDns, marker |-> FALSE]
               /\ UNCHANGED <<routes, addr, created>>
      BY <3>1, <3>5, StringAssumption
    <3> QED BY <1>5, <3>2, <3>3, <3>4, <3>5, SMTT(60) DEF Drift
  <2>4. State' \in StateType
    <3>1. FieldTypes
      BY <1>1, StateTyped
    <3>2. created' \in SUBSET Routes
      BY <2>3
    <3>3. FieldTypes'
      BY <2>1, <2>3, <3>1, <3>2 DEF FieldTypes
    <3> QED BY <3>3, NextTyped
  <2>5. RoutesSound(State')
    <3>1. /\ State'.created = created' /\ State'.routes = routes' /\ State'.owned = State.owned
          /\ State.created = created
      BY <2>2, StateFields, NextFields
    <3>2. State'.created \subseteq State.created /\ State'.created \subseteq State'.routes
      BY <2>3, <3>1, SMTT(60)
    <3> QED BY <1>1, <3>1, <3>2 DEF Sound, RoutesSound
  <2>6. MarkerSound(State')
    BY <1>1, <2>2, <2>3, StateFields, NextFields DEF Sound, MarkerSound
  <2>7. Kept(State, State')
    BY <1>1, <2>2, <2>4, <2>5, <2>6 DEF Kept, Sound, SameMethod, SamePolicy, MethodSound
  <2> QED BY <1>1, <2>1, <2>7, KeptStep, SMTT(60) DEF Kept
<1> QED BY <1>2, <1>3, <1>4, <1>5 DEF Others

LEMMA Established == ASSUME TxInit PROVE TxInv
<1>1. link \in [Ifaces -> Links]
  BY NoLinkType DEF TxInit, Init, adopt_dhcp, Links, NoLink
<1>2. State \in StateType
  <2>1. /\ static_eth \in StaticCfg /\ owned \in [Ifaces -> Routes]
        /\ route_policy \in RoutePolicy /\ last_dns \in STRING
    BY Constants, StringAssumption DEF TxInit, Init, RoutePolicy
  <2>2. /\ lease \in [Ifaces -> LeaseFact] /\ routes \subseteq Routes
        /\ addr \in [Ifaces -> LeaseFact \cup StaticCfg \cup {NoAddr}]
    BY Constants, StringAssumption DEF TxInit, Init
  <2>3. resolver \in [ns : STRING, marker : BOOLEAN]
    <3>1. \A d \in STRING, m \in BOOLEAN : [ns |-> d, marker |-> m] \in [ns : STRING, marker : BOOLEAN]
      OBVIOUS
    <3> QED BY <3>1, StringAssumption DEF TxInit, Init
  <2>4. /\ client \subseteq Ifaces /\ dns_initialized \in BOOLEAN /\ managed_dns \in BOOLEAN
        /\ created \subseteq Routes /\ faults \in Nat
    BY BudgetAssumption DEF TxInit, Init
  <2> QED BY <1>1, <2>1, <2>2, <2>3, <2>4, StateTyped DEF FieldTypes, Links
<1>3. RoutesSound(State)
  BY StateFields, SMTT(60) DEF TxInit, Init, RoutesSound
<1>4. MarkerSound(State) /\ MethodSound(State)
  BY StateFields, Constants DEF TxInit, Init, MarkerSound, MethodSound
<1>5. tx \in Transactions /\ tx.pc = "idle"
  BY Constants DEF TxInit, Idle, Transactions
<1>6. config \in StaticCfg
  BY Constants, StaticAssumption, SMTT(60) DEF TxInit, NoFile, StaticCfg
<1>7. stages = 0 /\ settled = FALSE /\ drift \in Nat
  BY BudgetAssumption DEF TxInit, Init
<1> QED BY <1>2, <1>3, <1>4, <1>5, <1>6, <1>7 DEF TxInv, Sound

LEMMA Preserved ==
    ASSUME TxInv, [TxNext]_allvars
    PROVE  TxInv' /\ (route_policy' # route_policy => PolicyDone')
<1>1. CASE eth_set_dhcp
  BY <1>1, StageAndApply, Constants DEF eth_set_dhcp
<1>2. ASSUME NEW cfg \in Statics, eth_set_static(cfg) PROVE TxInv' /\ route_policy' = route_policy
  <2>1. [cfg EXCEPT !.metric = 10] \in StaticCfg
    BY StaticAssumption, SMTT(60) DEF StaticCfg
  <2> QED BY <1>2, <2>1, StageAndApply DEF eth_set_static
<1>3. CASE commit_ethernet_config  BY <1>3, Commit
<1>4. CASE roll_back  BY <1>4, RollBack
<1>5. CASE Reactor  BY <1>5, ReactorKept
<1>6. CASE Others  BY <1>6, OthersKept, SMTT(60)
<1>7. CASE UNCHANGED allvars
  <2>1. State' = State /\ UNCHANGED tvars /\ drift' = drift /\ route_policy' = route_policy
    BY <1>7 DEF allvars, vars, State
  <2>2. Sound(State') /\ SameMethod(State, State')
    BY <2>1 DEF TxInv, SameMethod
  <2> QED BY <2>1, <2>2, KeptStep, SMTT(60) DEF TxInv
<1> QED BY <1>1, <1>2, <1>3, <1>4, <1>5, <1>6, <1>7 DEF TxNext, Transaction

-----------------------------------------------------------------------------
(* What the operations do to someone else's resolver file. *)
\* The resolver file is left alone, or a call failed on the way.
Spares(s, u) ==
    /\ s.faults \in Nat /\ u.faults \in Nat /\ u.faults <= s.faults
    /\ u.faults = s.faults => u.resolver = s.resolver

\* A file without the marker is not emptied, or a call failed on the way.
Respects(s, u) ==
    /\ s.faults \in Nat /\ u.faults \in Nat /\ u.faults <= s.faults
    /\ u.faults = s.faults =>
          s.resolver.marker \/ s.resolver.ns = NoDns \/ u.resolver.ns # NoDns

\* An error that is returned was caused by a call that failed.
Paid(s, o) == o.ok \/ o.s.faults < s.faults

LEMMA SparesTwice ==
    ASSUME NEW s, NEW u, NEW v, Spares(s, u), Spares(u, v)
    PROVE  Spares(s, v)
  BY SMTT(60) DEF Spares

LEMMA SparesThenRespects ==
    ASSUME NEW s, NEW u, NEW v, Spares(s, u), Respects(u, v)
    PROVE  Respects(s, v)
  BY SMTT(60) DEF Spares, Respects

LEMMA RespectsThenSpares ==
    ASSUME NEW s, NEW u, NEW v, Respects(s, u), Spares(u, v)
    PROVE  Respects(s, v)
  BY SMTT(60) DEF Spares, Respects

LEMMA SparesRespects == ASSUME NEW s, NEW u, Spares(s, u) PROVE Respects(s, u)
  BY DEF Spares, Respects

\* A failure that came first excuses everything later.
LEMMA PaidRespects ==
    ASSUME NEW s, NEW u, NEW v, Respects(s, u), u.faults < s.faults, Respects(u, v)
    PROVE  Respects(s, v)
  BY SMTT(60) DEF Respects

LEMMA PaidTwice ==
    ASSUME NEW s, NEW u, NEW o, Respects(s, u), Respects(u, o.s), Paid(u, o)
    PROVE  Paid(s, o)
  BY SMTT(60) DEF Respects, Paid

LEMMA SparesThenPaid ==
    ASSUME NEW s, NEW u, NEW o, Spares(s, u), Spares(u, o.s), Paid(u, o)
    PROVE  Spares(s, o.s) /\ Paid(s, o)
  BY SMTT(60) DEF Spares, Paid

LEMMA SameSpares ==
    ASSUME NEW s \in StateType, NEW u, u.faults = s.faults, u.resolver = s.resolver
    PROVE  Spares(s, u)
<1>1. s.faults \in Nat  BY DEF StateType
<1> QED BY <1>1, SMTT(60) DEF Spares

LEMMA OkSpares ==
    ASSUME NEW s \in StateType, NEW o \in Ok(s)
    PROVE  Spares(s, o.s) /\ Paid(s, o)
<1>1. o.ok = TRUE /\ o.s = s  BY OutcomeOk
<1> QED BY <1>1, SameSpares DEF Paid

LEMMA FailedSpares ==
    ASSUME NEW s \in StateType, NEW o \in Failed(s)
    PROVE  Spares(s, o.s) /\ Paid(s, o)
<1>1. s.faults > 0 /\ o.s = [s EXCEPT !.faults = s.faults - 1]
  BY OutcomeFailed
<1>2. o.s.faults = s.faults - 1 /\ s.faults \in Nat
  BY <1>1 DEF StateType
<1> QED BY <1>1, <1>2, SMTT(60) DEF Spares, Paid

\* A truncated write is a failed one.
LEMMA TruncatedRespects ==
    ASSUME NEW s \in StateType, NEW u \in StateType, u.faults = s.faults, NEW o \in Failed(u)
    PROVE  Respects(s, o.s) /\ Paid(s, o)
<1>1. Spares(u, o.s) /\ o.ok = FALSE /\ Paid(u, o)
  BY FailedSpares, OutcomeFailed
<1>2. s.faults \in Nat
  BY DEF StateType
<1> QED BY <1>1, <1>2, SMTT(60) DEF Spares, Respects, Paid

\* Routes and addresses.
LEMMA ApplyIpv4Spares ==
    ASSUME NEW s \in StateType, NEW i, NEW a, NEW o \in apply_ipv4(s, i, a)
    PROVE  Spares(s, o.s) /\ Paid(s, o)
<1> DEFINE u == [s EXCEPT !.addr[i] = a]
<1>1. u.faults = s.faults /\ u.resolver = s.resolver
  BY DEF StateType
<1>2. Spares(s, u)
  BY <1>1, SameSpares
<1>3. CASE o \in Ok(u)
  <2>1. o.ok = TRUE /\ o.s = u  BY <1>3, OutcomeOk
  <2> QED BY <1>2, <2>1 DEF Paid
<1>4. CASE o \in Failed(s)  BY <1>4, FailedSpares
<1> QED BY <1>3, <1>4 DEF apply_ipv4

LEMMA ClearIpv4Spares ==
    ASSUME NEW s \in StateType, NEW i, NEW o \in clear_ipv4(s, i)
    PROVE  Spares(s, o.s) /\ Paid(s, o)
<1> DEFINE u == [s EXCEPT !.addr[i] = NoAddr]
           on_i == {r \in s.routes : r.iface = i}
           v == [u EXCEPT !.routes = @ \ on_i, !.created = @ \ on_i]
<1>1. u.faults = s.faults /\ u.resolver = s.resolver
  BY DEF StateType
<1>2. v.faults = s.faults /\ v.resolver = s.resolver
  BY DEF StateType
<1>3. Spares(s, u) /\ Spares(s, v)
  BY <1>1, <1>2, SameSpares
<1> HIDE DEF u, v
<1>4. CASE o \in Ok(u) \/ o \in Ok(v)
  <2>1. o.ok = TRUE /\ (o.s = u \/ o.s = v)  BY <1>4, OutcomeOk
  <2> QED BY <1>3, <2>1 DEF Paid
<1>5. CASE o \in Failed(s)  BY <1>5, FailedSpares
<1> QED BY <1>4, <1>5 DEF clear_ipv4, u, v

LEMMA ClearOwnedRouteSpares ==
    ASSUME NEW s \in StateType, NEW i, NEW o \in clear_owned_route(s, i)
    PROVE  Spares(s, o.s) /\ Paid(s, o)
<1> DEFINE r == s.owned[i]
           u == [s EXCEPT !.routes = @ \ {r}, !.created = @ \ {r}]
<1>1. CASE r = NoRoute
  BY <1>1, OkSpares DEF clear_owned_route
<1>2. CASE r # NoRoute
  <2>1. PICK p \in clear_default_route(s, r) :
           IF p.ok THEN o \in Ok([p.s EXCEPT !.owned[i] = NoRoute]) ELSE o = p
    BY <1>2 DEF clear_owned_route, Then
  <2>2. p \in Ok(s) \/ p \in Ok(u) \/ p \in Failed(s)
    BY <2>1 DEF clear_default_route
  <2>3. CASE ~p.ok
    BY <2>1, <2>2, <2>3, OutcomeOk, FailedSpares
  <2>4. CASE p.ok
    <3>1. p.s = s \/ p.s = u
      BY <2>2, <2>4, OutcomeOk, OutcomeFailed
    <3>2. o.ok = TRUE /\ o.s = [p.s EXCEPT !.owned[i] = NoRoute]
      BY <2>1, <2>4, OutcomeOk
    <3>3. p.s \in StateType /\ p.s.faults = s.faults /\ p.s.resolver = s.resolver
      <4>1. u \in StateType  BY RouteRemoved
      <4>2. u.faults = s.faults /\ u.resolver = s.resolver  BY DEF StateType
      <4> HIDE DEF u
      <4> QED BY <3>1, <4>1, <4>2
    <3>4. o.s.faults = s.faults /\ o.s.resolver = s.resolver
      BY <3>2, <3>3 DEF StateType
    <3> QED BY <3>2, <3>4, SameSpares DEF Paid
  <2> QED BY <2>3, <2>4
<1> QED BY <1>1, <1>2

LEMMA EnsureOwnedRouteSpares ==
    ASSUME NEW s, Sound(s), NEW i \in Ifaces, NEW g \in STRING, NEW m \in Int,
           NEW o \in ensure_owned_route(s, i, g, m)
    PROVE  Spares(s, o.s) /\ Paid(s, o)
<1> DEFINE r == Route(i, g, m)
           first == IF s.owned[i] \notin {NoRoute, r} THEN clear_owned_route(s, i) ELSE Ok(s)
<1>0. s \in StateType
  BY DEF Sound
<1>1. CASE g = NoGw
  BY <1>0, <1>1, ClearOwnedRouteSpares DEF ensure_owned_route
<1>2. CASE g # NoGw
  <2>1. PICK p \in first :
           IF p.ok THEN o \in Then(set_default_route(p.s, r), LAMBDA v : Ok([v EXCEPT !.owned[i] = r]))
                   ELSE o = p
    BY <1>2 DEF ensure_owned_route, Then
  <2>2. Spares(s, p.s) /\ Paid(s, p)
    BY <1>0, <2>1, ClearOwnedRouteSpares, OkSpares
  <2>3. CASE ~p.ok  BY <2>1, <2>2, <2>3
  <2>4. CASE p.ok
    <3>0. r \in Routes
      BY RouteType
    <3> HIDE DEF r
    <3> DEFINE w == p.s
               u == [w EXCEPT !.routes = @ \cup {r}, !.created = @ \cup {r}]
    <3>1. PICK q \in set_default_route(w, r) :
             IF q.ok THEN o \in Ok([q.s EXCEPT !.owned[i] = r]) ELSE o = q
      BY <2>1, <2>4 DEF Then
    <3>2. w \in StateType
      BY <2>1, ClearOwnedRoute, OkKept DEF Kept, Sound
    <3> HIDE DEF w
    <3>3. q \in Ok(w) \/ q \in Ok(u) \/ q \in Failed(w)
      BY <3>1 DEF set_default_route
    <3>4. Spares(w, o.s) /\ Paid(w, o)
      <4>1. CASE ~q.ok
        BY <3>1, <3>2, <3>3, <4>1, OutcomeOk, FailedSpares
      <4>2. CASE q.ok
        <5>1. q.s = w \/ q.s = u
          BY <3>2, <3>3, <4>2, OutcomeOk, OutcomeFailed
        <5>2. o.ok = TRUE /\ o.s = [q.s EXCEPT !.owned[i] = r]
          BY <3>1, <4>2, OutcomeOk
        <5>3. q.s \in StateType /\ q.s.faults = w.faults /\ q.s.resolver = w.resolver
          <6>1. u \in StateType  BY <3>0, <3>2, RouteAdded
          <6>2. u.faults = w.faults /\ u.resolver = w.resolver  BY <3>2 DEF StateType
          <6> HIDE DEF u
          <6> QED BY <3>2, <5>1, <6>1, <6>2
        <5>4. o.s.faults = w.faults /\ o.s.resolver = w.resolver
          BY <5>2, <5>3 DEF StateType
        <5> QED BY <3>2, <5>2, <5>4, SameSpares DEF Paid
      <4> QED BY <4>1, <4>2
    <3> QED BY <2>2, <3>4, SparesTwice, SparesRespects, PaidTwice DEF w
  <2> QED BY <2>3, <2>4
<1> QED BY <1>1, <1>2

LEMMA EnsureDesiredSpares ==
    ASSUME NEW s, Sound(s), NEW i \in Ifaces, NEW o \in ensure_desired(s, i)
    PROVE  Spares(s, o.s) /\ Paid(s, o) /\ Sound(o.s)
<1>1. DesiredGw(s, i) \in STRING /\ DesiredMetric(s, i) \in Int
  BY Desired DEF Sound
<1> QED BY <1>1, EnsureOwnedRouteSpares, EnsureOwnedRoute DEF ensure_desired, Kept

LEMMA ApplyRoutesSpares ==
    ASSUME NEW s, Sound(s), NEW o \in apply_routes(s)
    PROVE  Spares(s, o.s) /\ Paid(s, o)
<1>1. PICK p \in ensure_desired(s, "eth") : IF p.ok THEN o \in ensure_desired(p.s, "wifi") ELSE o = p
  BY DEF apply_routes, Then
<1>2. Spares(s, p.s) /\ Paid(s, p) /\ Sound(p.s)
  BY <1>1, EnsureDesiredSpares, Constants
<1>3. CASE p.ok
  <2>1. Spares(p.s, o.s) /\ Paid(p.s, o)
    BY <1>1, <1>2, <1>3, EnsureDesiredSpares, Constants
  <2> QED BY <1>2, <2>1, SparesTwice, SparesRespects, PaidTwice
<1> QED BY <1>1, <1>2, <1>3

\* clear_dns looks at the marker.
LEMMA ClearDnsRespects ==
    ASSUME NEW s \in StateType, NEW o \in clear_dns(s)
    PROVE  Respects(s, o.s) /\ Paid(s, o) /\ o.s \in StateType
<1> DEFINE c == WithResolver(s, NoDns, FALSE)
<1>1. o \in Ok(s) \/ (s.resolver.marker /\ o \in Ok(c)) \/ o \in Failed(s)
  BY DEF clear_dns, WithResolver
<1>2. c \in StateType /\ c.faults = s.faults
  <2>1. c \in StateType  BY ResolverUpdate, StringAssumption
  <2>2. c.faults = s.faults  BY DEF StateType, WithResolver
  <2> QED BY <2>1, <2>2
<1> HIDE DEF c
<1>3. CASE o \in Ok(s)
  BY <1>3, OkSpares, SparesRespects, OutcomeOk
<1>4. CASE s.resolver.marker /\ o \in Ok(c)
  <2>1. o.ok = TRUE /\ o.s = c  BY <1>4, OutcomeOk
  <2>2. s.faults \in Nat  BY DEF StateType
  <2> QED BY <1>2, <1>4, <2>1, <2>2, SMTT(60) DEF Respects, Paid
<1>5. CASE o \in Failed(s)
  <2>1. o.s \in StateType
    <3>1. s.faults > 0 /\ o.s = [s EXCEPT !.faults = s.faults - 1]
      BY <1>5, OutcomeFailed
    <3> QED BY <3>1, SMTT(60) DEF StateType
  <2> QED BY <1>5, <2>1, FailedSpares, SparesRespects
<1> QED BY <1>1, <1>3, <1>4, <1>5

\* Recording whether the file is managed leaves it alone.
LEMMA OwnershipSpares ==
    ASSUME NEW s \in StateType, NEW d, NEW m
    PROVE  Spares(s, WithOwnership(s, m, d))
<1> DEFINE u == WithOwnership(s, m, d)
<1>1. u.faults = s.faults /\ u.resolver = s.resolver
  BY DEF StateType, WithOwnership
<1> QED BY <1>1, SameSpares

LEMMA RelinquishDnsRespects ==
    ASSUME NEW s \in StateType, NEW o \in relinquish_dns(s)
    PROVE  Respects(s, o.s) /\ Paid(s, o)
<1>1. CASE ~s.managed
  BY <1>1, OkSpares, SparesRespects DEF relinquish_dns
<1>2. CASE s.managed
  <2>1. PICK p \in clear_dns(s) :
           IF p.ok THEN o \in Ok(WithOwnership(p.s, FALSE, NoDns)) ELSE o = p
    BY <1>2 DEF relinquish_dns, Then, WithOwnership
  <2>2. Respects(s, p.s) /\ Paid(s, p) /\ p.s \in StateType
    BY <2>1, ClearDnsRespects
  <2>3. CASE p.ok
    <3>1. o.ok = TRUE /\ o.s = WithOwnership(p.s, FALSE, NoDns)
      BY <2>1, <2>3, OutcomeOk
    <3> QED BY <2>2, <3>1, OwnershipSpares, RespectsThenSpares DEF Paid
  <2> QED BY <2>1, <2>2, <2>3
<1> QED BY <1>1, <1>2

\* A nameserver that is selected is written whole, or the write fails.
LEMMA SelectDnsRespects ==
    ASSUME NEW s \in StateType, NEW d \in STRING, d # NoDns, NEW o \in select_dns(s, d)
    PROVE  Respects(s, o.s) /\ Paid(s, o)
<1> DEFINE c == WithResolver(s, NoDns, FALSE)
           w == WithResolver(s, d, TRUE)
<1>1. CASE o \in Ok(s)
  BY <1>1, OkSpares, SparesRespects
<1>2. CASE o \notin Ok(s)
  <2>1. PICK p \in set_primary_dns(s, d) :
           IF p.ok THEN o \in Ok(WithOwnership(p.s, TRUE, d)) ELSE o = p
    BY <1>2 DEF select_dns, Then, WithOwnership
  <2>2. p \in Ok(w) \/ p \in Failed(s) \/ p \in Failed(c)
    BY <2>1 DEF set_primary_dns, WithResolver
  <2>3. c \in StateType /\ w \in StateType /\ w.resolver = [ns |-> d, marker |-> TRUE]
    BY ResolverUpdate, StringAssumption
  <2>4. c.faults = s.faults /\ w.faults = s.faults /\ s.faults \in Nat
    BY DEF StateType, WithResolver
  <2> HIDE DEF c, w
  <2>5. w.resolver.ns = d
    BY <2>3, SMTT(60)
  <2>6. CASE p \in Ok(w)
    <3>1. p.ok = TRUE /\ p.s = w
      BY <2>6, OutcomeOk
    <3>2. o.ok = TRUE /\ o.s = WithOwnership(w, TRUE, d)
      BY <2>1, <3>1, OutcomeOk
    <3>3. Respects(s, w)
      BY <2>4, <2>5, SMTT(60) DEF Respects
    <3> QED BY <2>3, <3>2, <3>3, OwnershipSpares, RespectsThenSpares DEF Paid
  <2>7. CASE p \in Failed(s)
    <3>1. o = p
      BY <2>1, <2>7, OutcomeFailed
    <3> QED BY <2>7, <3>1, FailedSpares, SparesRespects
  <2>8. CASE p \in Failed(c)
    <3>1. o = p
      BY <2>1, <2>3, <2>8, OutcomeFailed
    <3> QED BY <2>3, <2>4, <2>8, <3>1, TruncatedRespects
  <2> QED BY <2>2, <2>6, <2>7, <2>8
<1> QED BY <1>1, <1>2

LEMMA RecomputeDnsRespects ==
    ASSUME NEW s, Sound(s), NEW o \in recompute_dns(s)
    PROVE  Respects(s, o.s) /\ Paid(s, o)
<1> DEFINE u == init_dns_ownership(s)
<1>1. u \in StateType /\ s \in StateType
  BY InitDnsOwnership DEF Kept, Sound
<1>2. u.faults = s.faults /\ u.resolver = s.resolver
  BY <1>1 DEF StateType, init_dns_ownership
<1>3. \/ SelectedDns(u) # NoDns /\ o \in select_dns(u, SelectedDns(u))
      \/ o \in relinquish_dns(u)
  BY DEF recompute_dns
<1> HIDE DEF u
<1>4. SelectedDns(u) \in STRING
  BY <1>1, SelectedType
<1>5. Respects(u, o.s) /\ Paid(u, o)
  BY <1>1, <1>3, <1>4, SelectDnsRespects, RelinquishDnsRespects
<1>6. Spares(s, u)
  BY <1>1, <1>2, SameSpares
<1> QED BY <1>5, <1>6, SparesThenRespects, SparesRespects, PaidTwice

-----------------------------------------------------------------------------
(* The entry points. *)
LEMMA ClientSpares ==
    ASSUME NEW s \in StateType, NEW i
    PROVE  /\ Spares(s, stop_client(s, i)) /\ Spares(s, reset_link(s, i))
           /\ \A o \in start_client(s, i) : Spares(s, o.s)
<1> DEFINE u == stop_client(s, i)
           v == reset_link(s, i)
           w == [s EXCEPT !.client = @ \cup {i}]
<1>1. u.faults = s.faults /\ u.resolver = s.resolver
  BY DEF StateType, stop_client
<1>2. v.faults = s.faults /\ v.resolver = s.resolver
  BY DEF StateType, reset_link
<1>3. w.faults = s.faults /\ w.resolver = s.resolver
  BY DEF StateType
<1>4. Spares(s, u) /\ Spares(s, v) /\ Spares(s, w)
  BY <1>1, <1>2, <1>3, SameSpares
<1>5. ASSUME NEW o \in start_client(s, i) PROVE Spares(s, o.s)
  <2>1. o \in Ok(w) \/ o \in Failed(s)
    BY <1>5 DEF start_client
  <2> QED BY <1>4, <2>1, OutcomeOk, FailedSpares
<1> QED BY <1>4, <1>5

LEMMA UpdateSpares ==
    ASSUME NEW s \in StateType, NEW i, NEW x, NEW y
    PROVE  /\ Spares(s, [s EXCEPT !.static = x])
           /\ Spares(s, [s EXCEPT !.policy = x])
           /\ Spares(s, [s EXCEPT !.link[i].managed = x])
           /\ Spares(s, [s EXCEPT !.link[i].active = x, !.link[i].lease = y])
<1>1. ASSUME NEW u, \/ u = [s EXCEPT !.static = x] \/ u = [s EXCEPT !.policy = x]
                    \/ u = [s EXCEPT !.link[i].managed = x]
                    \/ u = [s EXCEPT !.link[i].active = x, !.link[i].lease = y]
      PROVE  Spares(s, u)
  <2>1. u.faults = s.faults /\ u.resolver = s.resolver
    BY <1>1 DEF StateType
  <2> QED BY <2>1, SameSpares
<1> QED BY <1>1

LEMMA StartDhcpRespects ==
    ASSUME NEW s, Sound(s), NEW i \in Ifaces, NEW o \in start_dhcp(s, i)
    PROVE  Respects(s, o.s)
<1> DEFINE c(b) == IF i = "eth" THEN [reset_link(b, i) EXCEPT !.static = NoStatic]
                                ELSE reset_link(b, i)
           launch(d) == Then(start_client(d, i), LAMBDA e : Ok([e EXCEPT !.link[i].managed = TRUE]))
           after(a) == Always(clear_ipv4(stop_client(a, i), i),
                              LAMBDA b : Then(recompute_dns(c(b)), launch))
<1>0. o \in Then(clear_owned_route(s, i), after)
  BY DEF start_dhcp
<1> HIDE DEF after
<1>1. PICK p \in clear_owned_route(s, i) : IF p.ok THEN o \in after(p.s) ELSE o = p
  BY <1>0 DEF Then
<1>2. Kept(s, p.s) /\ Sound(p.s) /\ s \in StateType
  BY <1>1, ClearOwnedRoute DEF Kept, Sound
<1>3. Spares(s, p.s)
  BY <1>1, <1>2, ClearOwnedRouteSpares
<1>4. CASE p.ok
  <2> DEFINE k == stop_client(p.s, i)
  <2>1. PICK q \in clear_ipv4(k, i) : o \in Then(recompute_dns(c(q.s)), launch)
    BY <1>1, <1>4 DEF after, Always
  <2>2. Sound(k) /\ Spares(s, k)
    BY <1>2, <1>3, StopClient, ClientSpares, SparesTwice DEF Kept, Sound
  <2> HIDE DEF k
  <2>3. Sound(q.s) /\ Spares(s, q.s)
    BY <2>1, <2>2, ClearIpv4, ClearIpv4Spares, SparesTwice DEF Kept, Sound
  <2> DEFINE d == c(q.s)
  <2>4. Sound(d) /\ Spares(s, d)
    <3> DEFINE l == reset_link(q.s, i)
    <3>1. Sound(l) /\ l \in StateType /\ Spares(s, l)
      BY <2>3, ResetLink, ClientSpares, SparesTwice DEF Sound
    <3>2. d = l \/ d = [l EXCEPT !.static = NoStatic]
      OBVIOUS
    <3> HIDE DEF l, d
    <3>3. Sound([l EXCEPT !.static = NoStatic]) /\ Spares(l, [l EXCEPT !.static = NoStatic])
      BY <3>1, StaticUpdate, UpdateSpares, Constants
    <3>4. Spares(s, [l EXCEPT !.static = NoStatic])
      BY <3>1, <3>3, SparesTwice
    <3> QED BY <3>1, <3>2, <3>3, <3>4
  <2>5. PICK r \in recompute_dns(d) : IF r.ok THEN o \in launch(r.s) ELSE o = r
    BY <2>1 DEF Then
  <2> HIDE DEF d
  <2>6. Sound(r.s) /\ r.s \in StateType /\ Respects(s, r.s)
    BY <2>4, <2>5, RecomputeDns, RecomputeDnsRespects, SparesThenRespects DEF Kept, Sound
  <2>7. CASE r.ok
    <3>1. PICK e \in start_client(r.s, i) :
             IF e.ok THEN o \in Ok([e.s EXCEPT !.link[i].managed = TRUE]) ELSE o = e
      BY <2>5, <2>7 DEF Then
    <3>2. e.s \in StateType /\ Respects(s, e.s)
      BY <2>6, <3>1, StartClient, ClientSpares, RespectsThenSpares DEF Kept, Sound
    <3>3. o = e \/ o.s = [e.s EXCEPT !.link[i].managed = TRUE]
      BY <3>1, OutcomeOk
    <3>4. Spares(e.s, [e.s EXCEPT !.link[i].managed = TRUE])
      BY <3>2, UpdateSpares
    <3> QED BY <3>2, <3>3, <3>4, RespectsThenSpares
  <2> QED BY <2>5, <2>6, <2>7
<1> QED BY <1>1, <1>3, <1>4, SparesRespects

LEMMA StopDhcpRespects ==
    ASSUME NEW s, Sound(s), NEW o \in stop_dhcp(s, "wifi")
    PROVE  Respects(s, o.s)
<1>1. PICK p \in clear_owned_route(s, "wifi") :
         \E q \in clear_ipv4(stop_client(p.s, "wifi"), "wifi") :
            o \in recompute_dns(reset_link(q.s, "wifi"))
  BY SMTT(60) DEF stop_dhcp, Always
<1>2. PICK q \in clear_ipv4(stop_client(p.s, "wifi"), "wifi") :
         o \in recompute_dns(reset_link(q.s, "wifi"))
  BY <1>1
<1>3. Sound(p.s) /\ p.s \in StateType /\ Spares(s, p.s)
  BY <1>1, ClearOwnedRoute, ClearOwnedRouteSpares, Constants DEF Kept, Sound
<1> DEFINE k == stop_client(p.s, "wifi")
<1>4. Sound(k) /\ k \in StateType /\ Spares(s, k)
  BY <1>3, StopClient, ClientSpares, SparesTwice, Constants DEF Kept, Sound
<1>5. Sound(q.s) /\ q.s \in StateType /\ Spares(s, q.s)
  BY <1>2, <1>4, ClearIpv4, ClearIpv4Spares, SparesTwice, Constants DEF Kept, Sound
<1> DEFINE l == reset_link(q.s, "wifi")
<1>6. Sound(l) /\ Spares(s, l)
  BY <1>5, ResetLink, ClientSpares, SparesTwice, Constants
<1> QED BY <1>2, <1>6, RecomputeDnsRespects, SparesThenRespects

LEMMA ApplyStaticRespects ==
    ASSUME NEW s, Sound(s), NEW cfg \in StaticCfg, NEW o \in apply_ethernet_static(s, cfg)
    PROVE  Respects(s, o.s)
<1> DEFINE b(u) == [reset_link(stop_client(u, "eth"), "eth") EXCEPT !.static = NoStatic]
           rest(u) == Then(apply_routes([u EXCEPT !.static = cfg]), recompute_dns)
<1>1. PICK p \in clear_owned_route(s, "eth") :
         IF p.ok THEN o \in Then(apply_ipv4(b(p.s), "eth", cfg), rest) ELSE o = p
  BY DEF apply_ethernet_static, Then
<1>2. Sound(p.s) /\ p.s \in StateType /\ Spares(s, p.s)
  BY <1>1, ClearOwnedRoute, ClearOwnedRouteSpares, Constants DEF Kept, Sound
<1>3. CASE p.ok
  <2> DEFINE c == b(p.s)
             e == stop_client(p.s, "eth")
             t == reset_link(e, "eth")
  <2>1. Sound(c) /\ c \in StateType /\ ~c.link["eth"].managed /\ Spares(s, c)
    <3>1. Sound(e) /\ e \in StateType /\ Spares(s, e)
      BY <1>2, StopClient, ClientSpares, SparesTwice, Constants DEF Kept, Sound
    <3>2. c = [t EXCEPT !.static = NoStatic]
      OBVIOUS
    <3> HIDE DEF c, e
    <3>3. Sound(t) /\ t \in StateType /\ ~t.link["eth"].managed /\ Spares(s, t)
      BY <3>1, ResetLink, ClientSpares, SparesTwice, Constants DEF Sound
    <3> HIDE DEF t
    <3>4. Sound(c) /\ c.link = t.link
      BY <3>2, <3>3, StaticUpdate, Constants
    <3>5. Spares(s, c)
      BY <3>2, <3>3, UpdateSpares, SparesTwice
    <3> QED BY <3>3, <3>4, <3>5 DEF Sound
  <2>2. PICK q \in apply_ipv4(c, "eth", cfg) : IF q.ok THEN o \in rest(q.s) ELSE o = q
    BY <1>1, <1>3 DEF Then
  <2> HIDE DEF c
  <2>3. Sound(q.s) /\ q.s \in StateType /\ ~q.s.link["eth"].managed
    BY <2>1, <2>2, ApplyIpv4, Constants, SMTT(60) DEF Kept, SameMethod, Sound
  <2>4. Spares(s, q.s)
    BY <2>1, <2>2, ApplyIpv4Spares, SparesTwice
  <2>5. CASE q.ok
    <3> DEFINE v == [q.s EXCEPT !.static = cfg]
    <3>1. Sound(v)
      BY <2>3, StaticUpdate
    <3>2. Spares(s, v)
      BY <2>3, <2>4, UpdateSpares, SparesTwice
    <3>3. PICK r \in apply_routes(v) : IF r.ok THEN o \in recompute_dns(r.s) ELSE o = r
      BY <2>2, <2>5 DEF Then
    <3> HIDE DEF v
    <3>4. Sound(r.s) /\ Spares(s, r.s)
      BY <3>1, <3>2, <3>3, ApplyRoutes, ApplyRoutesSpares, SparesTwice DEF Kept
    <3> QED BY <3>3, <3>4, RecomputeDnsRespects, SparesThenRespects, SparesRespects
  <2> QED BY <2>2, <2>4, <2>5, SparesRespects
<1> QED BY <1>1, <1>2, <1>3, SparesRespects

LEMMA ReconcileLinkSpares ==
    ASSUME NEW s, Sound(s), NEW i \in Ifaces, NEW o \in reconcile_link(s, i)
    PROVE  Spares(s, o.s) /\ Paid(s, o)
<1> DEFINE fact == s.lease[i]
           done(u) == Ok([u EXCEPT !.link[i].active = Configured(fact), !.link[i].lease = fact])
           want(a) == IF route_allowed(a, i)
                      THEN ensure_owned_route(a, i, fact.gw, route_metric(a, i, -1))
                      ELSE clear_owned_route(a, i)
<1>1. fact \in LeaseFact /\ fact.gw \in STRING /\ s \in StateType
  BY DEF Sound, StateType, LeaseFact
<1>2. \/ o \in Ok(s) \/ o \in Failed(s)
      \/ o \in Then(clear_owned_route(s, i), LAMBDA a : Then(clear_ipv4(a, i), done))
      \/ o \in Then(apply_ipv4(s, i, fact), LAMBDA a : Then(want(a), done))
  BY DEF reconcile_link
<1> HIDE DEF fact
<1>3. ASSUME NEW u \in StateType, Spares(s, u), NEW p \in done(u)
      PROVE  Spares(s, p.s) /\ Paid(s, p)
  <2>1. p.ok = TRUE /\ p.s = [u EXCEPT !.link[i].active = Configured(fact), !.link[i].lease = fact]
    BY <1>3, OutcomeOk
  <2> DEFINE b == Configured(fact)
  <2> HIDE DEF b
  <2>2. Spares(u, [u EXCEPT !.link[i].active = b, !.link[i].lease = fact])
    BY <1>3, UpdateSpares
  <2> QED BY <1>3, <2>1, <2>2, SparesTwice DEF b, Paid
<1> HIDE DEF done
<1>4. CASE o \in Then(clear_owned_route(s, i), LAMBDA a : Then(clear_ipv4(a, i), done))
  <2>1. PICK p \in clear_owned_route(s, i) :
           IF p.ok THEN o \in Then(clear_ipv4(p.s, i), done) ELSE o = p
    BY <1>4 DEF Then
  <2>2. Spares(s, p.s) /\ Paid(s, p) /\ Sound(p.s) /\ p.s \in StateType
    BY <1>1, <2>1, ClearOwnedRoute, ClearOwnedRouteSpares DEF Kept, Sound
  <2>3. CASE p.ok
    <3>1. PICK q \in clear_ipv4(p.s, i) : IF q.ok THEN o \in done(q.s) ELSE o = q
      BY <2>1, <2>3 DEF Then
    <3>2. Spares(p.s, q.s) /\ Paid(p.s, q) /\ q.s \in StateType
      BY <2>2, <3>1, ClearIpv4, ClearIpv4Spares DEF Kept, Sound
    <3>3. Spares(s, q.s) /\ Paid(s, q)
      BY <2>2, <3>2, SparesThenPaid
    <3> QED BY <1>3, <3>1, <3>2, <3>3
  <2> QED BY <2>1, <2>2, <2>3
<1>5. CASE o \in Then(apply_ipv4(s, i, fact), LAMBDA a : Then(want(a), done))
  <2>1. PICK p \in apply_ipv4(s, i, fact) : IF p.ok THEN o \in Then(want(p.s), done) ELSE o = p
    BY <1>5 DEF Then
  <2>2. Sound(p.s) /\ p.s \in StateType
    BY <1>1, <2>1, ApplyIpv4 DEF Kept, Sound
  <2>3. Spares(s, p.s) /\ Paid(s, p)
    BY <1>1, <2>1, ApplyIpv4Spares
  <2>4. CASE p.ok
    <3>1. PICK q \in want(p.s) : IF q.ok THEN o \in done(q.s) ELSE o = q
      BY <2>1, <2>4 DEF Then
    <3>2. route_metric(p.s, i, -1) \in Int
      BY Metric, SMTT(60)
    <3>3. \/ q \in ensure_owned_route(p.s, i, fact.gw, route_metric(p.s, i, -1))
          \/ q \in clear_owned_route(p.s, i)
      BY <3>1
    <3>4. Spares(p.s, q.s) /\ Paid(p.s, q) /\ q.s \in StateType
      BY <1>1, <2>2, <3>2, <3>3, EnsureOwnedRoute, EnsureOwnedRouteSpares, ClearOwnedRoute,
         ClearOwnedRouteSpares DEF Kept, Sound
    <3>5. Spares(s, q.s) /\ Paid(s, q)
      BY <2>3, <3>4, SparesThenPaid
    <3> QED BY <1>3, <3>1, <3>4, <3>5
  <2> QED BY <2>1, <2>3, <2>4
<1> QED BY <1>1, <1>2, <1>4, <1>5, OkSpares, FailedSpares

LEMMA ReconcileLinksSpares ==
    ASSUME NEW s, Sound(s), NEW o \in reconcile_links(s)
    PROVE  Spares(s, o.s) /\ Paid(s, o)
<1>1. PICK p \in reconcile_link(s, "eth") : IF p.ok THEN o \in reconcile_link(p.s, "wifi") ELSE o = p
  BY DEF reconcile_links, Then
<1>2. Spares(s, p.s) /\ Paid(s, p) /\ Sound(p.s)
  BY <1>1, ReconcileLink, ReconcileLinkSpares, Constants DEF Kept
<1> QED BY <1>1, <1>2, ReconcileLinkSpares, SparesThenPaid, Constants

LEMMA RepairLinkSpares ==
    ASSUME NEW s, Sound(s), NEW i \in Ifaces, NEW o \in repair_link(s, i)
    PROVE  Spares(s, o.s) /\ Paid(s, o)
<1> DEFINE want == IF i = "eth" /\ s.static.active THEN s.static ELSE s.link[i].lease
           first == IF s.addr[i] = want THEN Ok(s) ELSE apply_ipv4(s, i, want)
           second(u) == IF ~route_allowed(u, i) \/ want.gw = NoGw THEN Ok(u)
                        ELSE ensure_desired(u, i)
<1>1. want \in LeaseFact \cup StaticCfg /\ s \in StateType
  BY DEF Sound, StateType
<1>2. o \in Ok(s) \/ o \in Then(first, second)
  BY DEF repair_link
<1> HIDE DEF want
<1>3. CASE o \in Then(first, second)
  <2>1. PICK p \in first : IF p.ok THEN o \in second(p.s) ELSE o = p
    BY <1>3 DEF Then
  <2>2. Sound(p.s) /\ p.s \in StateType
    BY <1>1, <2>1, OkKept, ApplyIpv4 DEF Kept, Sound
  <2>3. Spares(s, p.s) /\ Paid(s, p)
    BY <1>1, <2>1, OkSpares, ApplyIpv4Spares
  <2>4. CASE p.ok
    <3>1. o \in Ok(p.s) \/ o \in ensure_desired(p.s, i)
      BY <2>1, <2>4
    <3>2. Spares(p.s, o.s) /\ Paid(p.s, o)
      BY <2>2, <3>1, OkSpares, EnsureDesiredSpares
    <3> QED BY <2>3, <3>2, SparesThenPaid
  <2> QED BY <2>1, <2>3, <2>4
<1> QED BY <1>1, <1>2, <1>3, OkSpares

LEMMA RepairOwnedStateSpares ==
    ASSUME NEW s, Sound(s), NEW o \in repair_owned_state(s)
    PROVE  Spares(s, o.s) /\ Paid(s, o)
<1>1. PICK p \in repair_link(s, "eth") : IF p.ok THEN o \in repair_link(p.s, "wifi") ELSE o = p
  BY DEF repair_owned_state, Then
<1>2. Spares(s, p.s) /\ Paid(s, p) /\ Sound(p.s)
  BY <1>1, RepairLink, RepairLinkSpares, Constants DEF Kept
<1> QED BY <1>1, <1>2, RepairLinkSpares, SparesThenPaid, Constants

LEMMA RefreshRespects ==
    ASSUME NEW s, Sound(s), NEW o \in refresh_external_state(s)
    PROVE  Respects(s, o.s) /\ Paid(s, o)
<1>1. PICK p \in repair_owned_state(s) : IF p.ok THEN o \in recompute_dns(p.s) ELSE o = p
  BY DEF refresh_external_state, Then
<1>2. Spares(s, p.s) /\ Paid(s, p) /\ Sound(p.s)
  BY <1>1, RepairOwnedState, RepairOwnedStateSpares DEF Kept
<1>3. CASE p.ok
  <2>1. Respects(p.s, o.s) /\ Paid(p.s, o)
    BY <1>1, <1>2, <1>3, RecomputeDnsRespects
  <2> QED BY <1>2, <2>1, SparesThenRespects, SparesRespects, PaidTwice
<1> QED BY <1>1, <1>2, <1>3, SparesRespects

LEMMA ReconcileFullRespects ==
    ASSUME NEW s, Sound(s), NEW o \in reconcile_full(s)
    PROVE  Respects(s, o.s) /\ Paid(s, o)
<1>1. PICK p \in reconcile_links(s) : IF p.ok THEN o \in refresh_external_state(p.s) ELSE o = p
  BY DEF reconcile_full, refresh_external_state, Then
<1>2. Spares(s, p.s) /\ Paid(s, p) /\ Sound(p.s)
  BY <1>1, ReconcileLinks, ReconcileLinksSpares DEF Kept
<1>3. CASE p.ok
  <2>1. Respects(p.s, o.s) /\ Paid(p.s, o)
    BY <1>1, <1>2, <1>3, RefreshRespects
  <2> QED BY <1>2, <2>1, SparesThenRespects, SparesRespects, PaidTwice
<1> QED BY <1>1, <1>2, <1>3, SparesRespects

LEMMA ReconcileChangedRespects ==
    ASSUME NEW s, Sound(s), NEW o \in reconcile_changed(s)
    PROVE  Respects(s, o.s)
<1>1. PICK p \in reconcile_links(s) :
         IF p.ok THEN o \in (IF p.s.link # s.link \/ ~p.s.init THEN recompute_dns(p.s) ELSE Ok(p.s))
                 ELSE o = p
  BY DEF reconcile_changed, Then
<1>2. Spares(s, p.s) /\ Sound(p.s)
  BY <1>1, ReconcileLinks, ReconcileLinksSpares DEF Kept
<1>3. o = p \/ o \in recompute_dns(p.s) \/ o.s = p.s
  BY <1>1, OutcomeOk
<1> QED BY <1>2, <1>3, RecomputeDnsRespects, SparesThenRespects, SparesRespects

\* Whatever the way back does, the failure that led to it excuses it.
LEMMA SetRoutePolicyRespects ==
    ASSUME NEW s, Sound(s), NEW p \in RoutePolicy, NEW o \in set_route_policy(s, p)
    PROVE  Respects(s, o.s)
<1> DEFINE new == [s EXCEPT !.policy = p]
           forward == Then(apply_routes(new), recompute_dns)
           back(u) == Always(apply_routes([u EXCEPT !.policy = s.policy]), recompute_dns)
<1>0. o \in Rollback(forward, back)
  BY DEF set_route_policy
<1> HIDE DEF forward, back
<1>1. PICK q \in forward : IF q.ok THEN o = q ELSE \E r \in back(q.s) : o = [ok |-> FALSE, s |-> r.s]
  BY <1>0 DEF Rollback
<1>2. PICK a \in apply_routes(new) : IF a.ok THEN q \in recompute_dns(a.s) ELSE q = a
  BY <1>1 DEF Then, forward
<1>3. Sound(new) /\ s.policy \in RoutePolicy /\ s \in StateType
  BY PolicyUpdate DEF Sound, StateType
<1>4. Spares(s, new)
  BY <1>3, UpdateSpares
<1> HIDE DEF new
<1>5. Spares(new, a.s) /\ Paid(new, a) /\ Sound(a.s)
  BY <1>2, <1>3, ApplyRoutes, ApplyRoutesSpares DEF Kept
<1>6. Spares(s, a.s) /\ Paid(s, a)
  BY <1>4, <1>5, SparesTwice, SparesRespects, PaidTwice
<1>7. Respects(s, q.s) /\ Paid(s, q) /\ Sound(q.s)
  <2>1. CASE a.ok
    <3>1. Respects(a.s, q.s) /\ Paid(a.s, q) /\ Sound(q.s)
      BY <1>2, <1>5, <2>1, RecomputeDns, RecomputeDnsRespects DEF Kept
    <3> QED BY <1>6, <3>1, SparesThenRespects, SparesRespects, PaidTwice
  <2>2. CASE ~a.ok
    BY <1>2, <1>5, <1>6, <2>2, SparesRespects
  <2> QED BY <2>1, <2>2
<1>8. CASE q.ok
  BY <1>1, <1>7, <1>8
<1>9. CASE ~q.ok
  <2> DEFINE old == [q.s EXCEPT !.policy = s.policy]
  <2>1. PICK r \in back(q.s) : o = [ok |-> FALSE, s |-> r.s]
    BY <1>1, <1>9
  <2>2. PICK e \in apply_routes(old) : r \in recompute_dns(e.s)
    BY <2>1 DEF Always, back
  <2>3. Sound(old)
    BY <1>3, <1>7, PolicyUpdate
  <2>4. Spares(q.s, old)
    BY <1>7, UpdateSpares DEF Sound
  <2> HIDE DEF old
  <2>5. Spares(q.s, e.s) /\ Sound(e.s)
    BY <2>2, <2>3, <2>4, ApplyRoutes, ApplyRoutesSpares, SparesTwice DEF Kept
  <2>6. Respects(q.s, r.s)
    BY <2>2, <2>5, RecomputeDnsRespects, SparesThenRespects
  <2>7. q.s.faults < s.faults
    BY <1>7, <1>9 DEF Paid
  <2>8. o.s = r.s
    BY <2>1
  <2> QED BY <1>7, <2>6, <2>7, <2>8, PaidRespects
<1> QED BY <1>8, <1>9

-----------------------------------------------------------------------------
(* The steps. *)
LEMMA RuntimeRespects ==
    ASSUME NEW s, Sound(s), NEW cfg \in StaticCfg, NEW o \in apply_ethernet_runtime(s, cfg)
    PROVE  Respects(s, o.s)
  BY ApplyStaticRespects, StartDhcpRespects, Constants DEF apply_ethernet_runtime

\* Someone else's file is not emptied by the step, or a call failed.
DnsStep == resolver.ns # NoDns /\ resolver'.ns = NoDns => resolver.marker \/ faults' < faults

LEMMA RespectsStep ==
    ASSUME NEW s \in StateType, Become(s), Respects(State, s)
    PROVE  DnsStep
<1>1. State' = s  BY Landing
<1>2. State.faults = faults /\ s.faults = faults'
  BY <1>1 DEF State
<1>3. State.resolver = resolver /\ s.resolver = resolver'
  BY <1>1, StateFields, NextFields
<1> QED BY <1>2, <1>3, SMTT(60) DEF Respects, DnsStep

LEMMA StageRespects ==
    ASSUME TxInv, NEW desired \in StaticCfg, apply_ethernet_transaction(desired)
    PROVE  DnsStep
<1>1. PICK staged \in stage_ethernet_config(State) :
         \/ Become(staged.s)
         \/ \E o \in apply_ethernet_runtime(staged.s, desired) : Become(o.s)
  BY DEF apply_ethernet_transaction
<1>2. Sound(State) /\ State \in StateType
  BY DEF TxInv, Sound
<1>3. Sound(staged.s) /\ Spares(State, staged.s)
  BY <1>1, <1>2, OkKept, FailedKept, OkSpares, FailedSpares DEF Kept, stage_ethernet_config
<1>4. CASE Become(staged.s)
  BY <1>3, <1>4, SparesRespects, RespectsStep DEF Sound
<1>5. ASSUME NEW o \in apply_ethernet_runtime(staged.s, desired), Become(o.s) PROVE DnsStep
  <2>1. Respects(staged.s, o.s) /\ Sound(o.s)
    BY <1>3, <1>5, RuntimeRespects, ApplyRuntime
  <2> QED BY <1>3, <1>5, <2>1, SparesThenRespects, RespectsStep DEF Sound
<1> QED BY <1>1, <1>4, <1>5

LEMMA PerformRespects ==
    ASSUME NEW outs, \A o \in outs : Respects(State, o.s) /\ Sound(o.s), Perform(outs)
    PROVE  DnsStep
<1>1. PICK o \in outs : Become(o.s)
  BY DEF Perform
<1> QED BY <1>1, RespectsStep DEF Sound

LEMMA DnsKept ==
    ASSUME TxInv, [TxNext]_allvars
    PROVE  DnsStep
<1>0. Sound(State) /\ State \in StateType
  BY DEF TxInv, Sound
<1>1. CASE eth_set_dhcp
  BY <1>1, StageRespects, Constants DEF eth_set_dhcp
<1>2. ASSUME NEW cfg \in Statics, eth_set_static(cfg) PROVE DnsStep
  <2>1. [cfg EXCEPT !.metric = 10] \in StaticCfg
    BY StaticAssumption, SMTT(60) DEF StaticCfg
  <2> QED BY <1>2, <2>1, StageRespects DEF eth_set_static
<1>3. CASE commit_ethernet_config
  <2>1. PICK o \in Ok(State) \cup Failed(State) : Become(o.s)
    BY <1>3 DEF commit_ethernet_config
  <2>2. Spares(State, o.s) /\ Sound(o.s)
    BY <1>0, <2>1, OkKept, FailedKept, OkSpares, FailedSpares DEF Kept
  <2> QED BY <2>1, <2>2, SparesRespects, RespectsStep DEF Sound
<1>4. CASE roll_back
  <2>1. PICK o \in apply_ethernet_runtime(State, tx.previous) : Become(o.s)
    BY <1>4 DEF roll_back
  <2>2. tx.previous \in StaticCfg
    BY DEF TxInv, Transactions
  <2>3. Respects(State, o.s) /\ Sound(o.s)
    BY <1>0, <2>1, <2>2, RuntimeRespects, ApplyRuntime
  <2> QED BY <2>1, <2>3, RespectsStep DEF Sound
<1>5. ASSUME NEW p \in Policies, SetRoutePolicy(p) PROVE DnsStep
  <2>1. p \in RoutePolicy
    BY StringAssumption
  <2>2. \A o \in set_route_policy(State, p) : Respects(State, o.s) /\ Sound(o.s)
    BY <1>0, <2>1, SetRoutePolicySound, SetRoutePolicyRespects
  <2> QED BY <1>5, <2>2, PerformRespects DEF SetRoutePolicy
<1>6. CASE Reconcile
  <2>1. \A o \in reconcile_changed(State) : Respects(State, o.s) /\ Sound(o.s)
    BY <1>0, ReconcileChangedKept, ReconcileChangedRespects DEF Kept
  <2> QED BY <1>6, <2>1, PerformRespects DEF Reconcile
<1>7. CASE ReconcileFull
  <2>1. \A o \in reconcile_full(State) : Respects(State, o.s) /\ Sound(o.s)
    BY <1>0, ReconcileFullKept, ReconcileFullRespects DEF Kept
  <2> QED BY <1>7, <2>1, PerformRespects DEF ReconcileFull
<1>8. CASE Refresh
  <2>1. \A o \in refresh_external_state(State) : Respects(State, o.s) /\ Sound(o.s)
    BY <1>0, RefreshKept, RefreshRespects DEF Kept
  <2> QED BY <1>8, <2>1, PerformRespects DEF Refresh
<1>9. CASE StartDhcp("wifi")
  <2>1. \A o \in start_dhcp(State, "wifi") : Respects(State, o.s) /\ Sound(o.s)
    BY <1>0, StartDhcpSound, StartDhcpRespects, Constants
  <2> QED BY <1>9, <2>1, PerformRespects DEF StartDhcp
<1>10. CASE StopDhcp
  <2>1. \A o \in stop_dhcp(State, "wifi") : Respects(State, o.s) /\ Sound(o.s)
    BY <1>0, StopDhcpKept, StopDhcpRespects DEF Kept
  <2> QED BY <1>10, <2>1, PerformRespects DEF StopDhcp
<1>11. ASSUME NEW i \in Ifaces, PublishLease(i) PROVE DnsStep
  BY <1>11 DEF PublishLease, DnsStep
<1>12. CASE Drift
  <2>1. resolver' = resolver \/ resolver' = [ns |-> ForeignDns, marker |-> FALSE]
    BY <1>12 DEF Drift
  <2> QED BY <2>1, DnsAssumption, SMTT(60) DEF DnsStep
<1>13. CASE UNCHANGED allvars
  BY <1>13 DEF allvars, vars, DnsStep
<1>14. CASE Transaction  BY <1>1, <1>2, <1>3, <1>4, <1>14 DEF Transaction
<1>15. CASE Reactor  BY <1>5, <1>6, <1>7, <1>8, <1>15 DEF Reactor
<1>16. CASE Others  BY <1>9, <1>10, <1>11, <1>12, <1>16 DEF Others
<1> QED BY <1>13, <1>14, <1>15, <1>16 DEF TxNext

-----------------------------------------------------------------------------
(* What the operations do to the facts that repairs and the resolver go by. *)
\* Every live default route was added by this process or by another manager.
Accounted(s) == s.routes \subseteq s.created \cup ForeignRoutes

\* A call into the platform decides no facts.
Leaves(s, u) ==
    /\ u.link = s.link /\ u.static = s.static
    /\ Accounted(s) => Accounted(u)

\* A lease is in force only while its interface is managed, a static
\* configuration that is not in force is the empty one.
Grounded(s) ==
    /\ \A i \in Ifaces : s.link[i].active => s.link[i].managed
    /\ s.static.active \/ s.static = NoStatic
    /\ Accounted(s)

LEMMA LeavesTwice ==
    ASSUME NEW s, NEW u, NEW v, Leaves(s, u), Leaves(u, v)
    PROVE  Leaves(s, v)
  BY DEF Leaves

LEMMA LeavesGrounded == ASSUME NEW s, NEW u, Grounded(s), Leaves(s, u) PROVE Grounded(u)
  BY DEF Leaves, Grounded

LEMMA SameLeaves ==
    ASSUME NEW s, NEW u, u.link = s.link, u.static = s.static,
           u.routes = s.routes, u.created = s.created
    PROVE  Leaves(s, u)
  BY DEF Leaves, Accounted

LEMMA OkLeaves == ASSUME NEW s, NEW o \in Ok(s) PROVE Leaves(s, o.s)
<1>1. o.s = s  BY OutcomeOk
<1> QED BY <1>1, SameLeaves

LEMMA FailedLeaves == ASSUME NEW s \in StateType, NEW o \in Failed(s) PROVE Leaves(s, o.s)
<1>1. o.s = [s EXCEPT !.faults = s.faults - 1]
  BY OutcomeFailed
<1>2. /\ o.s.link = s.link /\ o.s.static = s.static
      /\ o.s.routes = s.routes /\ o.s.created = s.created
  BY <1>1 DEF StateType
<1> QED BY <1>2, SameLeaves

LEMMA UpdateLeaves ==
    ASSUME NEW s \in StateType, NEW i, NEW x, NEW y
    PROVE  /\ Leaves(s, [s EXCEPT !.addr[i] = x])
           /\ Leaves(s, [s EXCEPT !.owned[i] = x])
           /\ Leaves(s, [s EXCEPT !.policy = x])
           /\ Leaves(s, WithResolver(s, x, y)) /\ Leaves(s, WithOwnership(s, x, y))
<1>1. ASSUME NEW u, \/ u = [s EXCEPT !.addr[i] = x] \/ u = [s EXCEPT !.owned[i] = x]
                    \/ u = [s EXCEPT !.policy = x]
                    \/ u = WithResolver(s, x, y) \/ u = WithOwnership(s, x, y)
      PROVE  Leaves(s, u)
  <2>1. u.link = s.link /\ u.static = s.static /\ u.routes = s.routes /\ u.created = s.created
    BY <1>1 DEF StateType, WithResolver, WithOwnership
  <2> QED BY <2>1, SameLeaves
<1> QED BY <1>1

\* Routes come and go together with the history of who added them.
LEMMA RouteLeaves ==
    ASSUME NEW s \in StateType, NEW S
    PROVE  /\ Leaves(s, [s EXCEPT !.routes = @ \cup S, !.created = @ \cup S])
           /\ Leaves(s, [s EXCEPT !.routes = @ \ S, !.created = @ \ S])
<1> DEFINE u == [s EXCEPT !.routes = @ \cup S, !.created = @ \cup S]
           v == [s EXCEPT !.routes = @ \ S, !.created = @ \ S]
<1>1. /\ u.link = s.link /\ u.static = s.static
      /\ u.routes = s.routes \cup S /\ u.created = s.created \cup S
  BY DEF StateType
<1>2. /\ v.link = s.link /\ v.static = s.static
      /\ v.routes = s.routes \ S /\ v.created = s.created \ S
  BY DEF StateType
<1> HIDE DEF u, v
<1>3. Leaves(s, u) /\ Leaves(s, v)
  BY <1>1, <1>2 DEF Leaves, Accounted
<1> QED BY <1>3 DEF u, v

LEMMA ApplyIpv4Leaves ==
    ASSUME NEW s \in StateType, NEW i, NEW a, NEW o \in apply_ipv4(s, i, a)
    PROVE  Leaves(s, o.s)
<1>1. o \in Ok([s EXCEPT !.addr[i] = a]) \/ o \in Failed(s)
  BY DEF apply_ipv4
<1>2. Leaves(s, [s EXCEPT !.addr[i] = a])
  BY UpdateLeaves
<1> QED BY <1>1, <1>2, OutcomeOk, FailedLeaves

LEMMA ClearIpv4Leaves ==
    ASSUME NEW s, Sound(s), NEW i \in Ifaces, NEW o \in clear_ipv4(s, i)
    PROVE  Leaves(s, o.s)
<1> DEFINE u == [s EXCEPT !.addr[i] = NoAddr]
           on_i == {r \in s.routes : r.iface = i}
           v == [u EXCEPT !.routes = @ \ on_i, !.created = @ \ on_i]
<1>0. s \in StateType
  BY DEF Sound
<1>1. u \in StateType
  BY <1>0 DEF StateType
<1>2. Leaves(s, u)
  BY <1>0, UpdateLeaves
<1>3. o \in Ok(u) \/ o \in Ok(v) \/ o \in Failed(s)
  BY DEF clear_ipv4
<1> HIDE DEF u, on_i
<1>4. Leaves(s, v)
  BY <1>1, <1>2, RouteLeaves, LeavesTwice
<1> HIDE DEF v
<1> QED BY <1>0, <1>2, <1>3, <1>4, OutcomeOk, FailedLeaves

LEMMA ClearOwnedRouteLeaves ==
    ASSUME NEW s \in StateType, NEW i, NEW o \in clear_owned_route(s, i)
    PROVE  Leaves(s, o.s)
<1> DEFINE r == s.owned[i]
           u == [s EXCEPT !.routes = @ \ {r}, !.created = @ \ {r}]
<1>1. CASE r = NoRoute
  BY <1>1, OkLeaves DEF clear_owned_route
<1>2. CASE r # NoRoute
  <2>1. PICK p \in clear_default_route(s, r) :
           IF p.ok THEN o \in Ok([p.s EXCEPT !.owned[i] = NoRoute]) ELSE o = p
    BY <1>2 DEF clear_owned_route, Then
  <2>2. p \in Ok(s) \/ p \in Ok(u) \/ p \in Failed(s)
    BY <2>1 DEF clear_default_route
  <2>3. u \in StateType /\ Leaves(s, u) /\ Leaves(s, s)
    BY RouteRemoved, RouteLeaves, SameLeaves
  <2> HIDE DEF u, r
  <2>4. CASE p \in Failed(s)
    BY <2>1, <2>4, OutcomeFailed, FailedLeaves
  <2>5. CASE p \notin Failed(s)
    <3>1. p.s \in StateType /\ Leaves(s, p.s)
      BY <2>2, <2>3, <2>5, OutcomeOk
    <3>2. o.s = [p.s EXCEPT !.owned[i] = NoRoute]
      BY <2>1, <2>2, <2>5, OutcomeOk
    <3> QED BY <3>1, <3>2, UpdateLeaves, LeavesTwice
  <2> QED BY <2>4, <2>5
<1> QED BY <1>1, <1>2

LEMMA EnsureOwnedRouteLeaves ==
    ASSUME NEW s, Sound(s), NEW i \in Ifaces, NEW g \in STRING, NEW m \in Int,
           NEW o \in ensure_owned_route(s, i, g, m)
    PROVE  Leaves(s, o.s)
<1> DEFINE r == Route(i, g, m)
           first == IF s.owned[i] \notin {NoRoute, r} THEN clear_owned_route(s, i) ELSE Ok(s)
<1>0. s \in StateType
  BY DEF Sound
<1>1. CASE g = NoGw
  BY <1>0, <1>1, ClearOwnedRouteLeaves DEF ensure_owned_route
<1>2. CASE g # NoGw
  <2>1. PICK p \in first :
           IF p.ok THEN o \in Then(set_default_route(p.s, r), LAMBDA v : Ok([v EXCEPT !.owned[i] = r]))
                   ELSE o = p
    BY <1>2 DEF ensure_owned_route, Then
  <2>2. Leaves(s, p.s) /\ p.s \in StateType
    BY <1>0, <2>1, ClearOwnedRouteLeaves, ClearOwnedRoute, OkKept, OkLeaves DEF Kept, Sound
  <2>3. CASE p.ok
    <3>0. r \in Routes
      BY RouteType
    <3> HIDE DEF r
    <3> DEFINE w == p.s
               u == [w EXCEPT !.routes = @ \cup {r}, !.created = @ \cup {r}]
    <3>1. PICK q \in set_default_route(w, r) :
             IF q.ok THEN o \in Ok([q.s EXCEPT !.owned[i] = r]) ELSE o = q
      BY <2>1, <2>3 DEF Then
    <3>2. w \in StateType
      BY <2>2
    <3> HIDE DEF w
    <3>3. q \in Ok(w) \/ q \in Ok(u) \/ q \in Failed(w)
      BY <3>1 DEF set_default_route
    <3>4. u \in StateType /\ Leaves(w, u) /\ Leaves(w, w)
      BY <3>0, <3>2, RouteAdded, RouteLeaves, SameLeaves
    <3> HIDE DEF u
    <3>5. CASE q \in Failed(w)
      <4>1. o = q /\ Leaves(w, q.s)
        BY <3>1, <3>2, <3>5, OutcomeFailed, FailedLeaves
      <4> QED BY <2>2, <4>1, LeavesTwice DEF w
    <3>6. CASE q \notin Failed(w)
      <4>1. q.s \in StateType /\ Leaves(w, q.s) /\ o.s = [q.s EXCEPT !.owned[i] = r]
        BY <3>1, <3>2, <3>3, <3>4, <3>6, OutcomeOk
      <4> QED BY <2>2, <4>1, UpdateLeaves, LeavesTwice DEF w
    <3> QED BY <3>5, <3>6
  <2> QED BY <2>1, <2>2, <2>3
<1> QED BY <1>1, <1>2

LEMMA EnsureDesiredLeaves ==
    ASSUME NEW s, Sound(s), NEW i \in Ifaces, NEW o \in ensure_desired(s, i)
    PROVE  Leaves(s, o.s) /\ Sound(o.s)
<1>1. DesiredGw(s, i) \in STRING /\ DesiredMetric(s, i) \in Int
  BY Desired DEF Sound
<1> QED BY <1>1, EnsureOwnedRouteLeaves, EnsureOwnedRoute DEF ensure_desired, Kept

LEMMA ApplyRoutesLeaves ==
    ASSUME NEW s, Sound(s), NEW o \in apply_routes(s)
    PROVE  Leaves(s, o.s) /\ Sound(o.s)
<1>1. PICK p \in ensure_desired(s, "eth") : IF p.ok THEN o \in ensure_desired(p.s, "wifi") ELSE o = p
  BY DEF apply_routes, Then
<1>2. Leaves(s, p.s) /\ Sound(p.s)
  BY <1>1, EnsureDesiredLeaves, Constants
<1> QED BY <1>1, <1>2, EnsureDesiredLeaves, LeavesTwice, Constants

\* The resolver's half.
LEMMA ClearDnsLeaves ==
    ASSUME NEW s \in StateType, NEW o \in clear_dns(s)
    PROVE  Leaves(s, o.s)
<1>1. o \in Ok(s) \/ o \in Ok(WithResolver(s, NoDns, FALSE)) \/ o \in Failed(s)
  BY DEF clear_dns, WithResolver
<1>2. Leaves(s, WithResolver(s, NoDns, FALSE))
  BY UpdateLeaves
<1> QED BY <1>1, <1>2, OkLeaves, OutcomeOk, FailedLeaves

LEMMA RelinquishDnsLeaves ==
    ASSUME NEW s \in StateType, NEW o \in relinquish_dns(s)
    PROVE  Leaves(s, o.s)
<1>1. CASE ~s.managed
  BY <1>1, OkLeaves DEF relinquish_dns
<1>2. CASE s.managed
  <2>1. PICK p \in clear_dns(s) :
           IF p.ok THEN o \in Ok(WithOwnership(p.s, FALSE, NoDns)) ELSE o = p
    BY <1>2 DEF relinquish_dns, Then, WithOwnership
  <2>2. Leaves(s, p.s) /\ p.s \in StateType
    BY <2>1, ClearDnsLeaves, ClearDnsRespects
  <2>3. o = p \/ o.s = WithOwnership(p.s, FALSE, NoDns)
    BY <2>1, OutcomeOk
  <2> QED BY <2>2, <2>3, UpdateLeaves, LeavesTwice
<1> QED BY <1>1, <1>2

LEMMA SelectDnsLeaves ==
    ASSUME NEW s \in StateType, NEW d \in STRING, NEW o \in select_dns(s, d)
    PROVE  Leaves(s, o.s)
<1> DEFINE c == WithResolver(s, NoDns, FALSE)
           w == WithResolver(s, d, TRUE)
<1>1. CASE o \in Ok(s)
  BY <1>1, OkLeaves
<1>2. CASE o \notin Ok(s)
  <2>1. PICK p \in set_primary_dns(s, d) :
           IF p.ok THEN o \in Ok(WithOwnership(p.s, TRUE, d)) ELSE o = p
    BY <1>2 DEF select_dns, Then, WithOwnership
  <2>2. p \in Ok(w) \/ p \in Failed(s) \/ p \in Failed(c)
    BY <2>1 DEF set_primary_dns, WithResolver
  <2>3. c \in StateType /\ w \in StateType /\ Leaves(s, c) /\ Leaves(s, w)
    BY ResolverUpdate, UpdateLeaves, StringAssumption
  <2> HIDE DEF c, w
  <2>4. CASE p \in Ok(w)
    <3>1. p.s = w /\ (o = p \/ o.s = WithOwnership(w, TRUE, d))
      BY <2>1, <2>4, OutcomeOk
    <3> QED BY <2>3, <3>1, UpdateLeaves, LeavesTwice
  <2>5. CASE p \in Failed(s)
    BY <2>1, <2>5, OutcomeFailed, FailedLeaves
  <2>6. CASE p \in Failed(c)
    <3>1. o = p /\ Leaves(c, p.s)
      BY <2>1, <2>3, <2>6, OutcomeFailed, FailedLeaves
    <3> QED BY <2>3, <3>1, LeavesTwice
  <2> QED BY <2>2, <2>4, <2>5, <2>6
<1> QED BY <1>1, <1>2

LEMMA RecomputeDnsLeaves ==
    ASSUME NEW s, Sound(s), NEW o \in recompute_dns(s)
    PROVE  Leaves(s, o.s) /\ Sound(o.s)
<1> DEFINE u == init_dns_ownership(s)
<1>1. u \in StateType /\ SameButDns(s, u)
  BY InitDnsOwnership DEF Kept, Sound
<1>2. \/ o \in select_dns(u, SelectedDns(u))
      \/ o \in relinquish_dns(u)
  BY DEF recompute_dns
<1> HIDE DEF u
<1>3. SelectedDns(u) \in STRING
  BY <1>1, SelectedType
<1>4. Leaves(u, o.s)
  BY <1>1, <1>2, <1>3, SelectDnsLeaves, RelinquishDnsLeaves
<1>5. Leaves(s, u)
  BY <1>1, SameLeaves DEF SameButDns
<1> QED BY <1>4, <1>5, LeavesTwice, RecomputeDns DEF Kept

-----------------------------------------------------------------------------
(* The entry points leave the state grounded. *)
LEMMA ClientGrounded ==
    ASSUME NEW s \in StateType, Grounded(s), NEW i
    PROVE  /\ Grounded(stop_client(s, i))
           /\ \A o \in start_client(s, i) : Grounded(o.s)
<1> DEFINE u == stop_client(s, i)
           w == [s EXCEPT !.client = @ \cup {i}]
<1>1. u.link = s.link /\ u.static = s.static /\ u.routes = s.routes /\ u.created = s.created
  BY DEF StateType, stop_client
<1>2. w.link = s.link /\ w.static = s.static /\ w.routes = s.routes /\ w.created = s.created
  BY DEF StateType
<1> HIDE DEF u, w
<1>3. Leaves(s, u) /\ Leaves(s, w)
  BY <1>1, <1>2, SameLeaves
<1>4. ASSUME NEW o \in start_client(s, i) PROVE Grounded(o.s)
  <2>1. o \in Ok(w) \/ o \in Failed(s)
    BY <1>4 DEF start_client, w
  <2> QED BY <1>3, <2>1, OutcomeOk, FailedLeaves, LeavesGrounded
<1> QED BY <1>3, <1>4, LeavesGrounded DEF u

LEMMA StaticGrounded ==
    ASSUME NEW s \in StateType, Grounded(s), NEW x, x.active \/ x = NoStatic
    PROVE  Grounded([s EXCEPT !.static = x])
<1> DEFINE u == [s EXCEPT !.static = x]
<1>1. u.link = s.link /\ u.static = x /\ u.routes = s.routes /\ u.created = s.created
  BY DEF StateType
<1> HIDE DEF u
<1>2. Grounded(u)
  BY <1>1 DEF Grounded, Accounted
<1> QED BY <1>2 DEF u

\* A link is written whole, with its lease in force only if it is managed.
LEMMA LinkGrounded ==
    ASSUME NEW s \in StateType, Grounded(s), NEW i \in Ifaces, NEW l, l.active => l.managed
    PROVE  Grounded([s EXCEPT !.link[i] = l])
<1> DEFINE u == [s EXCEPT !.link[i] = l]
<1>1. /\ u.static = s.static /\ u.routes = s.routes /\ u.created = s.created
      /\ \A j \in Ifaces : u.link[j] = IF j = i THEN l ELSE s.link[j]
  BY DEF StateType
<1> HIDE DEF u
<1>2. Grounded(u)
  BY <1>1 DEF Grounded, Accounted
<1> QED BY <1>2 DEF u

LEMMA ResetGrounded ==
    ASSUME NEW s \in StateType, Grounded(s), NEW i \in Ifaces
    PROVE  Grounded(reset_link(s, i))
<1>1. NoLink.active = FALSE
  BY DEF NoLink
<1> QED BY <1>1, LinkGrounded DEF reset_link

LEMMA ManagedGrounded ==
    ASSUME NEW s \in StateType, Grounded(s), NEW i \in Ifaces
    PROVE  Grounded([s EXCEPT !.link[i].managed = TRUE])
<1> DEFINE l == [s.link[i] EXCEPT !.managed = TRUE]
<1>1. l.managed = TRUE
  BY DEF StateType
<1>2. [s EXCEPT !.link[i].managed = TRUE] = [s EXCEPT !.link[i] = l]
  BY DEF StateType
<1> HIDE DEF l
<1> QED BY <1>1, <1>2, LinkGrounded

LEMMA LeaseGrounded ==
    ASSUME NEW s \in StateType, Grounded(s), NEW i \in Ifaces, s.link[i].managed, NEW b, NEW f
    PROVE  Grounded([s EXCEPT !.link[i].active = b, !.link[i].lease = f])
<1> DEFINE l == [s.link[i] EXCEPT !.active = b, !.lease = f]
<1>1. l.managed = s.link[i].managed
  BY DEF StateType
<1>2. [s EXCEPT !.link[i].active = b, !.link[i].lease = f] = [s EXCEPT !.link[i] = l]
  BY DEF StateType
<1> HIDE DEF l
<1> QED BY <1>1, <1>2, LinkGrounded

LEMMA StartDhcpGrounded ==
    ASSUME NEW s, Sound(s), Grounded(s), NEW i \in Ifaces, NEW o \in start_dhcp(s, i)
    PROVE  Grounded(o.s)
<1> DEFINE c(b) == IF i = "eth" THEN [reset_link(b, i) EXCEPT !.static = NoStatic]
                                ELSE reset_link(b, i)
           launch(d) == Then(start_client(d, i), LAMBDA e : Ok([e EXCEPT !.link[i].managed = TRUE]))
           after(a) == Always(clear_ipv4(stop_client(a, i), i),
                              LAMBDA b : Then(recompute_dns(c(b)), launch))
<1>0. o \in Then(clear_owned_route(s, i), after)
  BY DEF start_dhcp
<1> HIDE DEF after
<1>1. PICK p \in clear_owned_route(s, i) : IF p.ok THEN o \in after(p.s) ELSE o = p
  BY <1>0 DEF Then
<1>2. Sound(p.s) /\ Grounded(p.s)
  BY <1>1, ClearOwnedRoute, ClearOwnedRouteLeaves, LeavesGrounded DEF Kept, Sound
<1>3. CASE p.ok
  <2> DEFINE k == stop_client(p.s, i)
  <2>1. PICK q \in clear_ipv4(k, i) : o \in Then(recompute_dns(c(q.s)), launch)
    BY <1>1, <1>3 DEF after, Always
  <2>2. Sound(k) /\ Grounded(k)
    BY <1>2, StopClient, ClientGrounded DEF Kept, Sound
  <2> HIDE DEF k
  <2>3. Sound(q.s) /\ q.s \in StateType /\ Grounded(q.s)
    BY <2>1, <2>2, ClearIpv4, ClearIpv4Leaves, LeavesGrounded DEF Kept, Sound
  <2> DEFINE d == c(q.s)
  <2>4. Sound(d) /\ Grounded(d)
    <3> DEFINE l == reset_link(q.s, i)
    <3>1. Sound(l) /\ l \in StateType /\ Grounded(l)
      BY <2>3, ResetLink, ResetGrounded DEF Sound
    <3>2. d = l \/ d = [l EXCEPT !.static = NoStatic]
      OBVIOUS
    <3> HIDE DEF l, d
    <3>3. Sound([l EXCEPT !.static = NoStatic]) /\ Grounded([l EXCEPT !.static = NoStatic])
      BY <3>1, StaticUpdate, StaticGrounded, Constants
    <3> QED BY <3>1, <3>2, <3>3
  <2>5. PICK r \in recompute_dns(d) : IF r.ok THEN o \in launch(r.s) ELSE o = r
    BY <2>1 DEF Then
  <2> HIDE DEF d
  <2>6. Sound(r.s) /\ r.s \in StateType /\ Grounded(r.s)
    BY <2>4, <2>5, RecomputeDnsLeaves, LeavesGrounded DEF Sound
  <2>7. CASE r.ok
    <3>1. PICK e \in start_client(r.s, i) :
             IF e.ok THEN o \in Ok([e.s EXCEPT !.link[i].managed = TRUE]) ELSE o = e
      BY <2>5, <2>7 DEF Then
    <3>2. e.s \in StateType /\ Grounded(e.s)
      BY <2>6, <3>1, StartClient, ClientGrounded DEF Kept, Sound
    <3>3. o = e \/ o.s = [e.s EXCEPT !.link[i].managed = TRUE]
      BY <3>1, OutcomeOk
    <3> QED BY <3>2, <3>3, ManagedGrounded
  <2> QED BY <2>5, <2>6, <2>7
<1> QED BY <1>1, <1>2, <1>3

LEMMA StopDhcpGrounded ==
    ASSUME NEW s, Sound(s), Grounded(s), NEW o \in stop_dhcp(s, "wifi")
    PROVE  Grounded(o.s)
<1>1. PICK p \in clear_owned_route(s, "wifi") :
         \E q \in clear_ipv4(stop_client(p.s, "wifi"), "wifi") :
            o \in recompute_dns(reset_link(q.s, "wifi"))
  BY SMTT(60) DEF stop_dhcp, Always
<1>2. PICK q \in clear_ipv4(stop_client(p.s, "wifi"), "wifi") :
         o \in recompute_dns(reset_link(q.s, "wifi"))
  BY <1>1
<1>3. Sound(p.s) /\ p.s \in StateType /\ Grounded(p.s)
  BY <1>1, ClearOwnedRoute, ClearOwnedRouteLeaves, LeavesGrounded, Constants DEF Kept, Sound
<1> DEFINE k == stop_client(p.s, "wifi")
<1>4. Sound(k) /\ Grounded(k)
  BY <1>3, StopClient, ClientGrounded, Constants DEF Kept, Sound
<1> HIDE DEF k
<1>5. Sound(q.s) /\ q.s \in StateType /\ Grounded(q.s)
  <2>1. q \in clear_ipv4(k, "wifi")
    BY <1>2 DEF k
  <2>2. Sound(q.s) /\ Leaves(k, q.s)
    BY <1>4, <2>1, ClearIpv4, ClearIpv4Leaves, Constants DEF Kept
  <2> QED BY <1>4, <2>2, LeavesGrounded DEF Sound
<1> DEFINE l == reset_link(q.s, "wifi")
<1>6. Sound(l) /\ Grounded(l)
  BY <1>5, ResetLink, ResetGrounded, Constants
<1> QED BY <1>2, <1>6, RecomputeDnsLeaves, LeavesGrounded

LEMMA ApplyStaticGrounded ==
    ASSUME NEW s, Sound(s), Grounded(s), NEW cfg \in StaticCfg, cfg.active,
           NEW o \in apply_ethernet_static(s, cfg)
    PROVE  Grounded(o.s)
<1> DEFINE b(u) == [reset_link(stop_client(u, "eth"), "eth") EXCEPT !.static = NoStatic]
           rest(u) == Then(apply_routes([u EXCEPT !.static = cfg]), recompute_dns)
<1>1. PICK p \in clear_owned_route(s, "eth") :
         IF p.ok THEN o \in Then(apply_ipv4(b(p.s), "eth", cfg), rest) ELSE o = p
  BY DEF apply_ethernet_static, Then
<1>2. Sound(p.s) /\ p.s \in StateType /\ Grounded(p.s)
  BY <1>1, ClearOwnedRoute, ClearOwnedRouteLeaves, LeavesGrounded, Constants DEF Kept, Sound
<1>3. CASE p.ok
  <2> DEFINE c == b(p.s)
             e == stop_client(p.s, "eth")
             t == reset_link(e, "eth")
  <2>1. Sound(c) /\ c \in StateType /\ ~c.link["eth"].managed /\ Grounded(c)
    <3>1. Sound(e) /\ e \in StateType /\ Grounded(e)
      BY <1>2, StopClient, ClientGrounded, Constants DEF Kept, Sound
    <3>2. c = [t EXCEPT !.static = NoStatic]
      OBVIOUS
    <3> HIDE DEF c, e
    <3>3. Sound(t) /\ t \in StateType /\ ~t.link["eth"].managed /\ Grounded(t)
      BY <3>1, ResetLink, ResetGrounded, Constants DEF Sound
    <3> HIDE DEF t
    <3>4. Sound(c) /\ c.link = t.link
      BY <3>2, <3>3, StaticUpdate, Constants
    <3>5. Grounded(c)
      BY <3>2, <3>3, StaticGrounded
    <3> QED BY <3>3, <3>4, <3>5 DEF Sound
  <2>2. PICK q \in apply_ipv4(c, "eth", cfg) : IF q.ok THEN o \in rest(q.s) ELSE o = q
    BY <1>1, <1>3 DEF Then
  <2> HIDE DEF c
  <2>3. Sound(q.s) /\ q.s \in StateType /\ ~q.s.link["eth"].managed
    BY <2>1, <2>2, ApplyIpv4, Constants, SMTT(60) DEF Kept, SameMethod, Sound
  <2>4. Grounded(q.s)
    BY <2>1, <2>2, ApplyIpv4Leaves, LeavesGrounded
  <2>5. CASE q.ok
    <3> DEFINE v == [q.s EXCEPT !.static = cfg]
    <3>1. Sound(v)
      BY <2>3, StaticUpdate
    <3>2. Grounded(v)
      BY <2>3, <2>4, StaticGrounded
    <3>3. PICK r \in apply_routes(v) : IF r.ok THEN o \in recompute_dns(r.s) ELSE o = r
      BY <2>2, <2>5 DEF Then
    <3> HIDE DEF v
    <3>4. Sound(r.s) /\ Grounded(r.s)
      BY <3>1, <3>2, <3>3, ApplyRoutesLeaves, LeavesGrounded
    <3> QED BY <3>3, <3>4, RecomputeDnsLeaves, LeavesGrounded
  <2> QED BY <2>2, <2>4, <2>5
<1> QED BY <1>1, <1>2, <1>3

LEMMA ReconcileLinkGrounded ==
    ASSUME NEW s, Sound(s), Grounded(s), NEW i \in Ifaces, NEW o \in reconcile_link(s, i)
    PROVE  Grounded(o.s)
<1> DEFINE fact == s.lease[i]
           done(u) == Ok([u EXCEPT !.link[i].active = Configured(fact), !.link[i].lease = fact])
           want(a) == IF route_allowed(a, i)
                      THEN ensure_owned_route(a, i, fact.gw, route_metric(a, i, -1))
                      ELSE clear_owned_route(a, i)
<1>1. fact \in LeaseFact /\ fact.gw \in STRING /\ s \in StateType
  BY DEF Sound, StateType, LeaseFact
<1>2. \/ o \in Ok(s) \/ o \in Failed(s)
      \/ /\ s.link[i].managed
         /\ \/ o \in Then(clear_owned_route(s, i), LAMBDA a : Then(clear_ipv4(a, i), done))
            \/ o \in Then(apply_ipv4(s, i, fact), LAMBDA a : Then(want(a), done))
  BY DEF reconcile_link
<1> HIDE DEF fact
<1>3. ASSUME s.link[i].managed, NEW u \in StateType, Leaves(s, u), NEW p \in done(u)
      PROVE  Grounded(p.s)
  <2> DEFINE b == Configured(fact)
  <2>1. p.s = [u EXCEPT !.link[i].active = b, !.link[i].lease = fact]
    BY <1>3, OutcomeOk
  <2> HIDE DEF b
  <2>2. Grounded(u) /\ u.link[i].managed
    BY <1>3, LeavesGrounded DEF Leaves
  <2>3. Grounded([u EXCEPT !.link[i].active = b, !.link[i].lease = fact])
    BY <1>3, <2>2, LeaseGrounded
  <2> QED BY <2>1, <2>3
<1> HIDE DEF done
<1>4. CASE /\ s.link[i].managed
           /\ o \in Then(clear_owned_route(s, i), LAMBDA a : Then(clear_ipv4(a, i), done))
  <2>1. PICK p \in clear_owned_route(s, i) :
           IF p.ok THEN o \in Then(clear_ipv4(p.s, i), done) ELSE o = p
    BY <1>4 DEF Then
  <2>2. Leaves(s, p.s) /\ Sound(p.s)
    BY <1>1, <2>1, ClearOwnedRoute, ClearOwnedRouteLeaves DEF Kept
  <2>3. CASE p.ok
    <3>1. PICK q \in clear_ipv4(p.s, i) : IF q.ok THEN o \in done(q.s) ELSE o = q
      BY <2>1, <2>3 DEF Then
    <3>2. Leaves(s, q.s) /\ q.s \in StateType
      BY <2>2, <3>1, ClearIpv4, ClearIpv4Leaves, LeavesTwice DEF Kept, Sound
    <3> QED BY <1>3, <1>4, <3>1, <3>2, LeavesGrounded
  <2> QED BY <2>1, <2>2, <2>3, LeavesGrounded
<1>5. CASE /\ s.link[i].managed
           /\ o \in Then(apply_ipv4(s, i, fact), LAMBDA a : Then(want(a), done))
  <2>1. PICK p \in apply_ipv4(s, i, fact) : IF p.ok THEN o \in Then(want(p.s), done) ELSE o = p
    BY <1>5 DEF Then
  <2>2. Sound(p.s) /\ p.s \in StateType
    BY <1>1, <2>1, ApplyIpv4 DEF Kept, Sound
  <2>3. Leaves(s, p.s)
    BY <1>1, <2>1, ApplyIpv4Leaves
  <2>4. CASE p.ok
    <3>1. PICK q \in want(p.s) : IF q.ok THEN o \in done(q.s) ELSE o = q
      BY <2>1, <2>4 DEF Then
    <3>2. route_metric(p.s, i, -1) \in Int
      BY Metric, SMTT(60)
    <3>3. \/ q \in ensure_owned_route(p.s, i, fact.gw, route_metric(p.s, i, -1))
          \/ q \in clear_owned_route(p.s, i)
      BY <3>1
    <3>4. Leaves(p.s, q.s) /\ q.s \in StateType
      BY <1>1, <2>2, <3>2, <3>3, EnsureOwnedRoute, EnsureOwnedRouteLeaves, ClearOwnedRoute,
         ClearOwnedRouteLeaves DEF Kept, Sound
    <3>5. Leaves(s, q.s)
      BY <2>3, <3>4, LeavesTwice
    <3> QED BY <1>3, <1>5, <3>1, <3>4, <3>5, LeavesGrounded
  <2> QED BY <2>1, <2>3, <2>4, LeavesGrounded
<1>6. CASE o \in Ok(s) \/ o \in Failed(s)
  BY <1>1, <1>6, OkLeaves, FailedLeaves, LeavesGrounded
<1> QED BY <1>2, <1>4, <1>5, <1>6

LEMMA ReconcileLinksGrounded ==
    ASSUME NEW s, Sound(s), Grounded(s), NEW o \in reconcile_links(s)
    PROVE  Grounded(o.s)
<1>1. PICK p \in reconcile_link(s, "eth") : IF p.ok THEN o \in reconcile_link(p.s, "wifi") ELSE o = p
  BY DEF reconcile_links, Then
<1>2. Grounded(p.s) /\ Sound(p.s)
  BY <1>1, ReconcileLink, ReconcileLinkGrounded, Constants DEF Kept
<1> QED BY <1>1, <1>2, ReconcileLinkGrounded, Constants

LEMMA RepairLinkLeaves ==
    ASSUME NEW s, Sound(s), NEW i \in Ifaces, NEW o \in repair_link(s, i)
    PROVE  Leaves(s, o.s) /\ Sound(o.s)
<1> DEFINE want == IF i = "eth" /\ s.static.active THEN s.static ELSE s.link[i].lease
           first == IF s.addr[i] = want THEN Ok(s) ELSE apply_ipv4(s, i, want)
           second(u) == IF ~route_allowed(u, i) \/ want.gw = NoGw THEN Ok(u)
                        ELSE ensure_desired(u, i)
<1>0. Sound(o.s)
  BY RepairLink DEF Kept
<1>1. want \in LeaseFact \cup StaticCfg /\ s \in StateType
  BY DEF Sound, StateType
<1>2. o \in Ok(s) \/ o \in Then(first, second)
  BY DEF repair_link
<1> HIDE DEF want
<1>3. CASE o \in Then(first, second)
  <2>1. PICK p \in first : IF p.ok THEN o \in second(p.s) ELSE o = p
    BY <1>3 DEF Then
  <2>2. Sound(p.s) /\ p.s \in StateType
    BY <1>1, <2>1, OkKept, ApplyIpv4 DEF Kept, Sound
  <2>3. Leaves(s, p.s)
    BY <1>1, <2>1, OkLeaves, ApplyIpv4Leaves
  <2>4. CASE p.ok
    <3>1. o \in Ok(p.s) \/ o \in ensure_desired(p.s, i)
      BY <2>1, <2>4
    <3>2. Leaves(p.s, o.s)
      BY <2>2, <3>1, OkLeaves, EnsureDesiredLeaves
    <3> QED BY <1>0, <2>3, <3>2, LeavesTwice
  <2> QED BY <1>0, <2>1, <2>3, <2>4
<1> QED BY <1>0, <1>1, <1>2, <1>3, OkLeaves

LEMMA RepairOwnedStateLeaves ==
    ASSUME NEW s, Sound(s), NEW o \in repair_owned_state(s)
    PROVE  Leaves(s, o.s) /\ Sound(o.s)
<1>1. PICK p \in repair_link(s, "eth") : IF p.ok THEN o \in repair_link(p.s, "wifi") ELSE o = p
  BY DEF repair_owned_state, Then
<1>2. Leaves(s, p.s) /\ Sound(p.s)
  BY <1>1, RepairLinkLeaves, Constants
<1> QED BY <1>1, <1>2, RepairLinkLeaves, LeavesTwice, Constants

LEMMA RefreshLeaves ==
    ASSUME NEW s, Sound(s), NEW o \in refresh_external_state(s)
    PROVE  Leaves(s, o.s)
<1>1. PICK p \in repair_owned_state(s) : IF p.ok THEN o \in recompute_dns(p.s) ELSE o = p
  BY DEF refresh_external_state, Then
<1>2. Leaves(s, p.s) /\ Sound(p.s)
  BY <1>1, RepairOwnedStateLeaves
<1> QED BY <1>1, <1>2, RecomputeDnsLeaves, LeavesTwice

LEMMA ReconcileFullGrounded ==
    ASSUME NEW s, Sound(s), Grounded(s), NEW o \in reconcile_full(s)
    PROVE  Grounded(o.s)
<1>1. PICK p \in reconcile_links(s) :
         IF p.ok THEN o \in refresh_external_state(p.s) ELSE o = p
  BY DEF reconcile_full, refresh_external_state, Then
<1>2. Grounded(p.s) /\ Sound(p.s)
  BY <1>1, ReconcileLinks, ReconcileLinksGrounded DEF Kept
<1> QED BY <1>1, <1>2, RefreshLeaves, LeavesGrounded

LEMMA ReconcileChangedGrounded ==
    ASSUME NEW s, Sound(s), Grounded(s), NEW o \in reconcile_changed(s)
    PROVE  Grounded(o.s)
<1>1. PICK p \in reconcile_links(s) :
         IF p.ok THEN o \in (IF p.s.link # s.link \/ ~p.s.init THEN recompute_dns(p.s) ELSE Ok(p.s))
                 ELSE o = p
  BY DEF reconcile_changed, Then
<1>2. Grounded(p.s) /\ Sound(p.s)
  BY <1>1, ReconcileLinks, ReconcileLinksGrounded DEF Kept
<1>3. o = p \/ o \in recompute_dns(p.s) \/ o.s = p.s
  BY <1>1, OutcomeOk
<1> QED BY <1>2, <1>3, RecomputeDnsLeaves, LeavesGrounded

LEMMA SetRoutePolicyLeaves ==
    ASSUME NEW s, Sound(s), NEW p \in RoutePolicy, NEW o \in set_route_policy(s, p)
    PROVE  Leaves(s, o.s)
<1> DEFINE new == [s EXCEPT !.policy = p]
           forward == Then(apply_routes(new), recompute_dns)
           back(u) == Always(apply_routes([u EXCEPT !.policy = s.policy]), recompute_dns)
<1>0. o \in Rollback(forward, back)
  BY DEF set_route_policy
<1> HIDE DEF forward, back
<1>1. PICK q \in forward : IF q.ok THEN o = q ELSE \E r \in back(q.s) : o = [ok |-> FALSE, s |-> r.s]
  BY <1>0 DEF Rollback
<1>2. PICK a \in apply_routes(new) : IF a.ok THEN q \in recompute_dns(a.s) ELSE q = a
  BY <1>1 DEF Then, forward
<1>3. Sound(new) /\ s.policy \in RoutePolicy /\ s \in StateType
  BY PolicyUpdate DEF Sound, StateType
<1>4. Leaves(s, new)
  BY <1>3, UpdateLeaves
<1> HIDE DEF new
<1>5. Leaves(s, a.s) /\ Sound(a.s)
  BY <1>2, <1>3, <1>4, ApplyRoutesLeaves, LeavesTwice
<1>6. Leaves(s, q.s) /\ Sound(q.s)
  BY <1>2, <1>5, RecomputeDnsLeaves, LeavesTwice
<1>7. ASSUME NEW r \in back(q.s) PROVE Leaves(s, r.s)
  <2> DEFINE old == [q.s EXCEPT !.policy = s.policy]
  <2>1. PICK e \in apply_routes(old) : r \in recompute_dns(e.s)
    BY <1>7 DEF Always, back
  <2>2. Sound(old)
    BY <1>3, <1>6, PolicyUpdate
  <2>3. Leaves(q.s, old)
    BY <1>6, UpdateLeaves DEF Sound
  <2> HIDE DEF old
  <2>4. Leaves(s, e.s) /\ Sound(e.s)
    BY <1>6, <2>1, <2>2, <2>3, ApplyRoutesLeaves, LeavesTwice
  <2> QED BY <2>1, <2>4, RecomputeDnsLeaves, LeavesTwice
<1>8. q.ok \/ \E r \in back(q.s) : o.s = r.s
  BY <1>1, SMTT(60)
<1> QED BY <1>1, <1>6, <1>7, <1>8

-----------------------------------------------------------------------------
(* What a repair pass that meets no failure leaves. *)
\* The route that the facts ask for is recorded and live, on an address.
Held(s, i) ==
    LET want == Route(i, DesiredGw(s, i), DesiredMetric(s, i))
    IN  DesiredGw(s, i) # NoGw =>
          s.owned[i] = want /\ want \in s.routes /\ s.addr[i] # NoAddr

LEMMA RealAddress == ASSUME NEW w \in LeaseFact \cup StaticCfg PROVE w # NoAddr
<1>1. CASE w \in LeaseFact
  BY <1>1, SMTT(60) DEF LeaseFact, NoAddr, DhcpLeaseEvent
<1>2. CASE w \in StaticCfg
  <2>1. "active" \in DOMAIN w /\ "active" \notin DOMAIN NoAddr
    BY <1>2 DEF StaticCfg, NoAddr
  <2> QED BY <2>1
<1> QED BY <1>1, <1>2

\* Nothing that Held looks at differs.
LEMMA SameHeld ==
    ASSUME NEW s, NEW u, NEW i, Held(s, i),
           u.link = s.link, u.static = s.static, u.policy = s.policy,
           u.owned[i] = s.owned[i], u.addr[i] = s.addr[i],
           \A r \in s.routes : r.iface = i => r \in u.routes
    PROVE  Held(u, i)
<1> DEFINE want == Route(i, DesiredGw(s, i), DesiredMetric(s, i))
<1>1. DesiredGw(u, i) = DesiredGw(s, i) /\ DesiredMetric(u, i) = DesiredMetric(s, i)
  BY SameDesired
<1>2. want.iface = i
  BY DEF Route
<1> HIDE DEF want
<1>3. DesiredGw(s, i) # NoGw => u.owned[i] = want /\ want \in u.routes /\ u.addr[i] # NoAddr
  BY <1>2 DEF Held, want
<1> QED BY <1>1, <1>3 DEF Held, want

\* A link without a gateway in force has no route to hold.
LEMMA NothingDesired ==
    ASSUME NEW s, Sound(s), Grounded(s), NEW i \in Ifaces,
           \/ ~(i = "eth" /\ s.static.active) /\ ~s.link[i].active
           \/ ~route_allowed(s, i)
           \/ i = "eth" /\ s.static.active /\ s.static.gw = NoGw
           \/ ~(i = "eth" /\ s.static.active) /\ s.link[i].lease.gw = NoGw
    PROVE  DesiredGw(s, i) = NoGw
<1>1. i = "eth" /\ s.static.active => ~s.link[i].active
  BY DEF Sound, MethodSound, Grounded
<1> QED BY <1>1 DEF DesiredGw

LEMMA RepairLinkEffect ==
    ASSUME NEW s, Sound(s), Grounded(s), NEW i \in Ifaces, NEW o \in repair_link(s, i), o.ok
    PROVE  Held(o.s, i) /\ \A j \in Ifaces : j # i /\ Held(s, j) => Held(o.s, j)
<1> DEFINE want == IF i = "eth" /\ s.static.active THEN s.static ELSE s.link[i].lease
           first == IF s.addr[i] = want THEN Ok(s) ELSE apply_ipv4(s, i, want)
           second(u) == IF ~route_allowed(u, i) \/ want.gw = NoGw THEN Ok(u)
                        ELSE ensure_desired(u, i)
<1>1. want \in LeaseFact \cup StaticCfg /\ s \in StateType
  BY DEF Sound, StateType
<1>2. want.gw = NoGw => DesiredGw(s, i) = NoGw
  BY NothingDesired
<1>3. CASE ~(i = "eth" /\ s.static.active) /\ ~s.link[i].active
  <2>1. o.s = s /\ DesiredGw(s, i) = NoGw
    BY <1>3, NothingDesired, OutcomeOk DEF repair_link
  <2> QED BY <2>1 DEF Held
<1>4. CASE ~(~(i = "eth" /\ s.static.active) /\ ~s.link[i].active)
  <2>0. o \in Then(first, second)
    BY <1>4 DEF repair_link
  <2> HIDE DEF want
  <2>1. PICK p \in first : IF p.ok THEN o \in second(p.s) ELSE o = p
    BY <2>0 DEF Then
  <2>2. p.ok /\ o \in second(p.s)
    BY <2>1
  <2>3. Sound(p.s) /\ p.s \in StateType /\ Leaves(s, p.s)
    BY <1>1, <2>1, OkKept, ApplyIpv4, OkLeaves, ApplyIpv4Leaves DEF Kept, Sound
  <2>4. /\ p.s.addr[i] = want /\ \A j \in Ifaces : j # i => p.s.addr[j] = s.addr[j]
        /\ p.s.owned = s.owned /\ p.s.routes = s.routes /\ p.s.policy = s.policy
        /\ p.s.link = s.link /\ p.s.static = s.static
    <3>1. (p.s = s /\ s.addr[i] = want) \/ p.s = [s EXCEPT !.addr[i] = want]
      BY <1>1, <2>1, <2>2, OutcomeOk, OutcomeFailed DEF apply_ipv4
    <3> QED BY <1>1, <3>1, SMTT(60) DEF StateType
  <2>5. p.s.addr[i] # NoAddr
    BY <1>1, <2>4, RealAddress
  <2>6. ASSUME NEW j \in Ifaces, j # i, Held(s, j) PROVE Held(p.s, j)
    BY <2>4, <2>6, SameHeld
  <2>7. DesiredGw(p.s, i) = DesiredGw(s, i) /\ Grounded(p.s)
    BY <2>3, <2>4, SameDesired, LeavesGrounded
  <2>8. CASE ~route_allowed(p.s, i) \/ want.gw = NoGw
    <3>1. o.s = p.s
      BY <2>2, <2>8, OutcomeOk
    <3>2. DesiredGw(p.s, i) = NoGw
      BY <1>2, <2>3, <2>7, <2>8, NothingDesired
    <3>3. Held(o.s, i)
      BY <3>1, <3>2 DEF Held
    <3> QED BY <2>6, <3>1, <3>3
  <2>9. CASE ~(~route_allowed(p.s, i) \/ want.gw = NoGw)
    <3> DEFINE g == DesiredGw(p.s, i)
               m == DesiredMetric(p.s, i)
    <3>1. g \in STRING /\ m \in Int
      BY <2>3, Desired
    <3>2. o \in ensure_owned_route(p.s, i, g, m)
      BY <2>2, <2>9 DEF ensure_desired
    <3> HIDE DEF g, m
    <3>3. EnsureDone(p.s, i, g, m, o.s)
      BY <2>3, <3>1, <3>2, EnsureEffect
    <3>4. DesiredGw(o.s, i) = g /\ DesiredMetric(o.s, i) = m
      BY <3>3, SameDesired DEF EnsureDone, g, m
    <3>5. Held(o.s, i)
      BY <2>5, <3>3, <3>4 DEF Held, EnsureDone
    <3>6. ASSUME NEW j \in Ifaces, j # i, Held(s, j) PROVE Held(o.s, j)
      <4>1. Held(p.s, j)
        BY <2>6, <3>6
      <4> QED BY <3>3, <3>6, <4>1, SameHeld DEF EnsureDone
    <3> QED BY <3>5, <3>6
  <2> QED BY <2>8, <2>9
<1> QED BY <1>3, <1>4

LEMMA RepairEffect ==
    ASSUME NEW s, Sound(s), Grounded(s), NEW o \in repair_owned_state(s), o.ok
    PROVE  \A i \in Ifaces : Held(o.s, i)
<1>1. PICK p \in repair_link(s, "eth") : IF p.ok THEN o \in repair_link(p.s, "wifi") ELSE o = p
  BY DEF repair_owned_state, Then
<1>2. p.ok /\ o \in repair_link(p.s, "wifi")
  BY <1>1
<1>3. Sound(p.s) /\ Grounded(p.s)
  BY <1>1, RepairLinkLeaves, LeavesGrounded, Constants
<1>4. Held(p.s, "eth")
  BY <1>1, <1>2, RepairLinkEffect, Constants
<1>5. Held(o.s, "wifi") /\ Held(o.s, "eth")
  <2>1. "eth" # "wifi"
    OBVIOUS
  <2> QED BY <1>2, <1>3, <1>4, <2>1, RepairLinkEffect, Constants
<1> QED BY <1>5 DEF Ifaces

\* Everything that the facts ask for is in place.
Healed(s) == (\A i \in Ifaces : Held(s, i)) /\ DnsDone(s)

LEMMA RefreshEffect ==
    ASSUME NEW s, Sound(s), Grounded(s), NEW o \in refresh_external_state(s), o.ok
    PROVE  Healed(o.s) /\ Grounded(o.s)
<1>1. PICK p \in repair_owned_state(s) : IF p.ok THEN o \in recompute_dns(p.s) ELSE o = p
  BY DEF refresh_external_state, Then
<1>2. p.ok /\ o \in recompute_dns(p.s)
  BY <1>1
<1>3. Sound(p.s) /\ \A i \in Ifaces : Held(p.s, i)
  BY <1>1, <1>2, RepairEffect, RepairOwnedStateLeaves
<1>4. SameButDns(p.s, o.s) /\ DnsDone(o.s)
  BY <1>2, <1>3, RecomputeEffect
<1>5. ASSUME NEW i \in Ifaces PROVE Held(o.s, i)
  BY <1>3, <1>4, SameHeld DEF SameButDns
<1>6. Grounded(o.s)
  BY RefreshLeaves, LeavesGrounded
<1> QED BY <1>4, <1>5, <1>6 DEF Healed

LEMMA ReconcileFullEffect ==
    ASSUME NEW s, Sound(s), Grounded(s), NEW o \in reconcile_full(s), o.ok
    PROVE  Healed(o.s) /\ Grounded(o.s)
<1>1. PICK p \in reconcile_links(s) : IF p.ok THEN o \in refresh_external_state(p.s) ELSE o = p
  BY DEF reconcile_full, refresh_external_state, Then
<1>2. p.ok /\ o \in refresh_external_state(p.s)
  BY <1>1
<1>3. Grounded(p.s) /\ Sound(p.s)
  BY <1>1, ReconcileLinks, ReconcileLinksGrounded DEF Kept
<1> QED BY <1>2, <1>3, RefreshEffect

-----------------------------------------------------------------------------
(* Routes and resolver name the same interface. *)
\* The gateways that the resolver pass goes by are those of the desired routes.
LEMMA RoutesDesired ==
    ASSUME NEW s
    PROVE  /\ EthRoute(s) <=> DesiredGw(s, "eth") # NoGw
           /\ WifiRoute(s) <=> DesiredGw(s, "wifi") # NoGw
  BY DEF EthRoute, WifiRoute, DesiredGw, route_allowed

\* The interface whose desired route has the lower metric.
WifiWins(s) ==
    WifiRoute(s) /\ (~EthRoute(s) \/ DesiredMetric(s, "wifi") < DesiredMetric(s, "eth"))

\* The metric that recompute_dns_locked gives Ethernet is its desired route's.
LEMMA SameMetric ==
    ASSUME NEW s, Sound(s), Grounded(s), EthRoute(s), s.policy = "ManualMetric"
    PROVE  route_metric(s, "eth", s.static.metric) = DesiredMetric(s, "eth")
<1>1. CASE s.static.active /\ s.static.gw # NoGw
  BY <1>1 DEF DesiredMetric
<1>2. CASE ~(s.static.active /\ s.static.gw # NoGw)
  <2>1. s.link["eth"].active
    BY <1>2 DEF EthRoute
  <2>2. s.link["eth"].managed
    BY <2>1, Constants DEF Grounded
  <2>3. s.static = NoStatic
    BY <2>2 DEF Sound, MethodSound, Grounded
  <2>4. s.static.metric = 10
    BY <2>3, SMTT(60) DEF NoStatic
  <2>5. DesiredMetric(s, "eth") = route_metric(s, "eth", -1)
    BY <1>2 DEF DesiredMetric
  <2>6. route_metric(s, "eth", -1) = 10 /\ route_metric(s, "eth", 10) = 10
    BY SMTT(60) DEF route_metric
  <2> QED BY <2>4, <2>5, <2>6
<1> QED BY <1>1, <1>2

LEMMA WinnerSelected ==
    ASSUME NEW s, Sound(s), Grounded(s),
           EthRoute(s) => EthDns(s) # NoDns, WifiRoute(s) => WifiDns(s) # NoDns
    PROVE  /\ WifiWins(s) => SelectedDns(s) = WifiDns(s)
           /\ ~WifiWins(s) /\ EthRoute(s) => SelectedDns(s) = EthDns(s)
<1>1. s.policy \in RoutePolicy
  BY DEF Sound, StateType
<1>2. DesiredMetric(s, "wifi") = route_metric(s, "wifi", -1)
  BY DEF DesiredMetric
<1>3. CASE s.policy = "EthernetPreferred"
  <2>1. DesiredMetric(s, "wifi") = 20 /\ DesiredMetric(s, "eth") = 10
    BY <1>3 DEF DesiredMetric, route_metric
  <2> QED BY <1>3, <2>1, SMTT(60) DEF WifiWins, SelectedDns, EthSelected, WifiSelected
<1>4. CASE s.policy = "WifiPreferred"
  <2>1. DesiredMetric(s, "wifi") = 10 /\ DesiredMetric(s, "eth") = 20
    BY <1>4 DEF DesiredMetric, route_metric
  <2> QED BY <1>4, <2>1, SMTT(60) DEF WifiWins, SelectedDns, EthSelected, WifiSelected
<1>5. CASE s.policy = "WifiOnly"
  <2>1. ~EthRoute(s)
    BY <1>5 DEF EthRoute, route_allowed
  <2> QED BY <1>5, <2>1 DEF WifiWins, SelectedDns, EthSelected, WifiSelected
<1>6. CASE s.policy = "ManualMetric"
  <2> DEFINE w == route_metric(s, "wifi", -1)
             e == route_metric(s, "eth", s.static.metric)
  <2>1. EthRoute(s) => DesiredMetric(s, "eth") = e
    BY <1>6, SameMetric
  <2>2. SelectedDns(s) = IF WifiRoute(s) /\ (~EthRoute(s) \/ w < e) THEN WifiDns(s) ELSE EthSelected(s)
    BY <1>6 DEF SelectedDns
  <2> HIDE DEF w, e
  <2> QED BY <1>2, <2>1, <2>2 DEF WifiWins, EthSelected, w
<1> QED BY <1>1, <1>3, <1>4, <1>5, <1>6 DEF RoutePolicy

\* The live routes of an interface, when each is one this process recorded.
LEMMA LiveMetrics ==
    ASSUME NEW s, NEW i \in Ifaces, Held(s, i),
           \A r \in s.routes : s.owned[r.iface] = r,
           DesiredGw(s, i) = NoGw => s.owned[i] = NoRoute
    PROVE  {r.metric : r \in {q \in s.routes : q.iface = i}} =
             IF DesiredGw(s, i) = NoGw THEN {} ELSE {DesiredMetric(s, i)}
<1> DEFINE want == Route(i, DesiredGw(s, i), DesiredMetric(s, i))
           on_i == {q \in s.routes : q.iface = i}
<1>1. want.iface = i /\ want.metric = DesiredMetric(s, i)
  BY DEF Route
<1>2. \A r \in on_i : r = s.owned[i] /\ r.iface = i
  OBVIOUS
<1>3. CASE DesiredGw(s, i) = NoGw
  <2>1. \A r \in on_i : FALSE
    BY <1>2, <1>3, Constants
  <2> QED BY <1>3, <2>1
<1>4. CASE DesiredGw(s, i) # NoGw
  <2>1. s.owned[i] = want /\ want \in s.routes
    BY <1>4 DEF Held
  <2> HIDE DEF want
  <2>2. on_i = {want}
    BY <1>1, <1>2, <2>1
  <2> QED BY <1>1, <1>4, <2>2
<1> QED BY <1>3, <1>4

\* What a snapshot of an interface says, from its address and the metrics of its
\* live routes.
LEMMA SnapshotFacts ==
    ASSUME NEW up, NEW ms, NEW f \in InterfaceFacts(TRUE, up, ms)
    PROVE  /\ f.carrier_up = TRUE /\ f.has_ip = up /\ f.has_default_route = (ms # {})
           /\ ms # {} => f.route_metric \in ms
<1>1. PICK m \in IF ms = {} THEN {0} ELSE ms :
         f = [carrier_up |-> TRUE, has_ip |-> up, has_default_route |-> ms # {}, route_metric |-> m]
  BY DEF InterfaceFacts
<1> QED BY <1>1

LEMMA HealedAgrees ==
    ASSUME Sound(State), Grounded(State), Healed(State)
    PROVE  ResolverAgrees
<1> SUFFICES ASSUME routes \cap ForeignRoutes = {}, \A i \in Ifaces : RouteGone(i),
                    EthRoute(State) => EthDns(State) # NoDns,
                    WifiRoute(State) => WifiDns(State) # NoDns,
                    NEW eth \in Snapshots("eth"), NEW wifi \in Snapshots("wifi"),
                    network_ready(primary_iface(eth, wifi, "Connected", "Running"), resolver.ns # NoDns)
             PROVE  resolver.ns = IF primary_iface(eth, wifi, "Connected", "Running") = "eth"
                                  THEN EthDns(State) ELSE WifiDns(State)
  BY DEF ResolverAgrees
<1> DEFINE s == State
<1>1. /\ s.routes = routes /\ s.owned = owned /\ s.addr = addr
      /\ s.resolver = resolver /\ s.created = created
  BY StateFields
<1>2. \A r \in s.routes : r.iface \in Ifaces /\ s.owned[r.iface] = r
  BY <1>1 DEF Sound, RoutesSound, Grounded, Accounted
<1>3. \A i \in Ifaces : Held(s, i) /\ (DesiredGw(s, i) = NoGw => s.owned[i] = NoRoute)
  BY <1>1 DEF Healed, RouteGone
<1>4. ASSUME NEW i \in Ifaces
      PROVE  {r.metric : r \in {q \in routes : q.iface = i}} =
               IF DesiredGw(s, i) = NoGw THEN {} ELSE {DesiredMetric(s, i)}
  BY <1>1, <1>2, <1>3, LiveMetrics
<1>5. ASSUME NEW i \in Ifaces, NEW f \in Snapshots(i)
      PROVE  /\ f.carrier_up /\ (f.has_ip <=> addr[i] # NoAddr)
             /\ f.has_default_route <=> DesiredGw(s, i) # NoGw
             /\ DesiredGw(s, i) # NoGw => f.has_ip /\ f.route_metric = DesiredMetric(s, i)
  <2> DEFINE ms == {r.metric : r \in {q \in routes : q.iface = i}}
             up == addr[i] # NoAddr
  <2>1. f \in InterfaceFacts(TRUE, up, ms)
    BY <1>5 DEF Snapshots
  <2>2. ms = IF DesiredGw(s, i) = NoGw THEN {} ELSE {DesiredMetric(s, i)}
    BY <1>4
  <2> HIDE DEF ms, up
  <2>3. /\ f.carrier_up = TRUE /\ f.has_ip = up
        /\ f.has_default_route = (ms # {}) /\ (ms # {} => f.route_metric \in ms)
    BY <2>1, SnapshotFacts
  <2>4. (DesiredGw(s, i) # NoGw => up) /\ (up <=> addr[i] # NoAddr)
    BY <1>1, <1>3 DEF Held, up
  <2> HIDE DEF s
  <2> QED BY <2>2, <2>3, <2>4
<1>6. eth_usable(eth) <=> EthRoute(s)
  BY <1>5, RoutesDesired, Constants DEF eth_usable
<1>7. wifi_usable(wifi, "Connected", "Running") <=> WifiRoute(s)
  <2>1. wifi.has_ip => wifi_ip_state(wifi, "Connected", "Running") = "Ready"
    BY DEF wifi_ip_state, wifi_connected
  <2>2. ~wifi.has_ip => wifi_ip_state(wifi, "Connected", "Running") # "Ready"
    BY DEF wifi_ip_state, wifi_connected
  <2> QED BY <1>5, <2>1, <2>2, RoutesDesired, Constants DEF wifi_usable
<1>8. /\ EthRoute(s) => eth.route_metric = DesiredMetric(s, "eth")
      /\ WifiRoute(s) => wifi.route_metric = DesiredMetric(s, "wifi")
  BY <1>5, RoutesDesired, Constants
<1>9. primary_iface(eth, wifi, "Connected", "Running") =
        IF WifiWins(s) THEN "wifi" ELSE IF EthRoute(s) THEN "eth" ELSE NoIface
  BY <1>6, <1>7, <1>8 DEF primary_iface, WifiWins
<1>10. WifiWins(s) \/ EthRoute(s)
  BY <1>9 DEF network_ready
<1>11. /\ WifiWins(s) => SelectedDns(s) = WifiDns(s)
       /\ ~WifiWins(s) /\ EthRoute(s) => SelectedDns(s) = EthDns(s)
  BY WinnerSelected
<1>12. ~PreserveExternal(s)
  <2>1. ASSUME ~EthRoute(s), NEW r \in s.routes, r.iface = "eth" PROVE FALSE
    <3>1. s.owned["eth"] = NoRoute
      BY <1>3, <2>1, RoutesDesired, Constants
    <3> QED BY <1>2, <2>1, <3>1, Constants
  <2> QED BY <2>1 DEF PreserveExternal
<1>13. WifiWins(s) => WifiDns(s) # NoDns
  BY DEF WifiWins
<1>14. SelectedDns(s) # NoDns
  BY <1>10, <1>11, <1>13
<1>15. resolver.ns = SelectedDns(s)
  BY <1>1, <1>12, <1>14 DEF Healed, DnsDone
<1> HIDE DEF s
<1> QED BY <1>9, <1>10, <1>11, <1>15 DEF s

-----------------------------------------------------------------------------
(* The steps. *)
LEMMA GroundedFirst == ASSUME TxInit PROVE Grounded(State)
<1>1. /\ link = [i \in Ifaces |-> adopt_dhcp(i, client)] /\ static_eth = NoStatic
      /\ routes \subseteq ForeignRoutes
  BY DEF TxInit, Init
<1>2. \A i \in Ifaces : adopt_dhcp(i, client).active = FALSE
  BY DEF adopt_dhcp, NoLink
<1> QED BY <1>1, <1>2, StateFields DEF Grounded, Accounted

LEMMA GroundedLanding ==
    ASSUME NEW s, Sound(s), Become(s), Grounded(s)
    PROVE  Grounded(State')
<1>1. State' = s  BY Landing DEF Sound
<1> QED BY <1>1

LEMMA GroundedPerform ==
    ASSUME NEW outs, \A o \in outs : Sound(o.s) /\ Grounded(o.s), Perform(outs)
    PROVE  Grounded(State')
<1>1. PICK o \in outs : Become(o.s)
  BY DEF Perform
<1> QED BY <1>1, GroundedLanding

LEMMA RuntimeGrounded ==
    ASSUME NEW s, Sound(s), Grounded(s), NEW cfg \in StaticCfg,
           NEW o \in apply_ethernet_runtime(s, cfg)
    PROVE  Grounded(o.s)
  BY ApplyStaticGrounded, StartDhcpGrounded, Constants DEF apply_ethernet_runtime

LEMMA StageGrounded ==
    ASSUME TxInv, Grounded(State), NEW desired \in StaticCfg, apply_ethernet_transaction(desired)
    PROVE  Grounded(State')
<1>1. PICK staged \in stage_ethernet_config(State) :
         \/ Become(staged.s)
         \/ \E o \in apply_ethernet_runtime(staged.s, desired) : Become(o.s)
  BY DEF apply_ethernet_transaction
<1>2. Sound(State) /\ State \in StateType
  BY DEF TxInv, Sound
<1>3. Sound(staged.s)
  BY <1>1, <1>2, OkKept, FailedKept DEF Kept, stage_ethernet_config
<1>4. Leaves(State, staged.s)
  BY <1>1, <1>2, OkLeaves, FailedLeaves DEF stage_ethernet_config
<1>5. Grounded(staged.s)
  BY <1>4, LeavesGrounded
<1>6. ASSUME NEW o \in apply_ethernet_runtime(staged.s, desired), Become(o.s)
      PROVE  Grounded(State')
  <2>1. Sound(o.s) /\ Grounded(o.s)
    BY <1>3, <1>5, <1>6, RuntimeGrounded, ApplyRuntime
  <2> QED BY <1>6, <2>1, GroundedLanding
<1> QED BY <1>1, <1>3, <1>5, <1>6, GroundedLanding

LEMMA GroundedStep ==
    ASSUME TxInv, Grounded(State), [TxNext]_allvars
    PROVE  Grounded(State')
<1>0. Sound(State) /\ State \in StateType
  BY DEF TxInv, Sound
<1>1. CASE eth_set_dhcp
  BY <1>1, StageGrounded, Constants DEF eth_set_dhcp
<1>2. ASSUME NEW cfg \in Statics, eth_set_static(cfg) PROVE Grounded(State')
  <2>1. [cfg EXCEPT !.metric = 10] \in StaticCfg
    BY StaticAssumption, SMTT(60) DEF StaticCfg
  <2> QED BY <1>2, <2>1, StageGrounded DEF eth_set_static
<1>3. CASE commit_ethernet_config
  <2>1. PICK o \in Ok(State) \cup Failed(State) : Become(o.s)
    BY <1>3 DEF commit_ethernet_config
  <2>2. Sound(o.s) /\ Leaves(State, o.s)
    BY <1>0, <2>1, OkKept, FailedKept, OkLeaves, FailedLeaves DEF Kept
  <2> QED BY <2>1, <2>2, LeavesGrounded, GroundedLanding
<1>4. CASE roll_back
  <2>1. PICK o \in apply_ethernet_runtime(State, tx.previous) : Become(o.s)
    BY <1>4 DEF roll_back
  <2>2. tx.previous \in StaticCfg
    BY DEF TxInv, Transactions
  <2>3. Grounded(o.s) /\ Sound(o.s)
    BY <1>0, <2>1, <2>2, RuntimeGrounded, ApplyRuntime
  <2> QED BY <2>1, <2>3, GroundedLanding
<1>5. ASSUME NEW p \in Policies, SetRoutePolicy(p) PROVE Grounded(State')
  <2>1. p \in RoutePolicy
    BY StringAssumption
  <2>2. ASSUME NEW o \in set_route_policy(State, p) PROVE Sound(o.s) /\ Grounded(o.s)
    <3>1. Sound(o.s) /\ Leaves(State, o.s)
      BY <1>0, <2>1, <2>2, SetRoutePolicySound, SetRoutePolicyLeaves
    <3> QED BY <3>1, LeavesGrounded
  <2> QED BY <1>5, <2>2, GroundedPerform DEF SetRoutePolicy
<1>6. CASE Reconcile
  <2>1. \A o \in reconcile_changed(State) : Sound(o.s) /\ Grounded(o.s)
    BY <1>0, ReconcileChangedKept, ReconcileChangedGrounded DEF Kept
  <2> QED BY <1>6, <2>1, GroundedPerform DEF Reconcile
<1>7. CASE ReconcileFull
  <2>1. \A o \in reconcile_full(State) : Sound(o.s) /\ Grounded(o.s)
    BY <1>0, ReconcileFullKept, ReconcileFullGrounded DEF Kept
  <2> QED BY <1>7, <2>1, GroundedPerform DEF ReconcileFull
<1>8. CASE Refresh
  <2>1. \A o \in refresh_external_state(State) : Sound(o.s) /\ Grounded(o.s)
    BY <1>0, RefreshKept, RefreshLeaves, LeavesGrounded DEF Kept
  <2> QED BY <1>8, <2>1, GroundedPerform DEF Refresh
<1>9. CASE StartDhcp("wifi")
  <2>1. \A o \in start_dhcp(State, "wifi") : Sound(o.s) /\ Grounded(o.s)
    BY <1>0, StartDhcpSound, StartDhcpGrounded, Constants
  <2> QED BY <1>9, <2>1, GroundedPerform DEF StartDhcp
<1>10. CASE StopDhcp
  <2>1. \A o \in stop_dhcp(State, "wifi") : Sound(o.s) /\ Grounded(o.s)
    BY <1>0, StopDhcpKept, StopDhcpGrounded DEF Kept
  <2> QED BY <1>10, <2>1, GroundedPerform DEF StopDhcp
<1>11. ASSUME link' = link, static_eth' = static_eth, routes' \subseteq created' \cup ForeignRoutes
       PROVE  Grounded(State')
  BY <1>11, StateFields, NextFields DEF Grounded, Accounted
<1>12. routes \subseteq created \cup ForeignRoutes
  BY StateFields DEF Grounded, Accounted
<1>13. ASSUME NEW i \in Ifaces, PublishLease(i) PROVE Grounded(State')
  BY <1>11, <1>12, <1>13 DEF PublishLease
<1>14. CASE Drift
  <2>1. \/ \E r : routes' = routes \ {r} /\ created' = created \ {r}
        \/ \E r \in ForeignRoutes : routes' = routes \cup {r} /\ created' = created
        \/ routes' = routes /\ created' = created
    BY <1>14 DEF Drift
  <2>2. link' = link /\ static_eth' = static_eth
    BY <1>14 DEF Drift
  <2>3. routes' \subseteq created' \cup ForeignRoutes
    BY <1>12, <2>1
  <2> QED BY <1>11, <2>2, <2>3
<1>15. CASE UNCHANGED allvars
  BY <1>11, <1>12, <1>15 DEF allvars, vars
<1>16. CASE Transaction  BY <1>1, <1>2, <1>3, <1>4, <1>16 DEF Transaction
<1>17. CASE Reactor  BY <1>5, <1>6, <1>7, <1>8, <1>17 DEF Reactor
<1>18. CASE Others  BY <1>9, <1>10, <1>13, <1>14, <1>18 DEF Others
<1> QED BY <1>15, <1>16, <1>17, <1>18 DEF TxNext

\* A repair pass in which no call into the platform failed: the fallback
\* deadline's refresh, or a tick without Netlink.
CleanPass == (Refresh \/ ReconcileFull) /\ faults' = faults

LEMMA CleanPassHeals ==
    ASSUME TxInv, Grounded(State), CleanPass
    PROVE  Sound(State') /\ Grounded(State') /\ Healed(State')
<1>0. Sound(State)
  BY DEF TxInv
<1>1. PICK o \in refresh_external_state(State) \cup reconcile_full(State) : Become(o.s)
  BY DEF CleanPass, Refresh, ReconcileFull, Perform
<1>2. Sound(o.s) /\ Paid(State, o)
  BY <1>0, <1>1, RefreshKept, ReconcileFullKept, RefreshRespects, ReconcileFullRespects DEF Kept
<1>3. State' = o.s
  BY <1>1, <1>2, Landing DEF Sound
<1>4. o.s.faults = State.faults /\ State.faults \in Nat
  BY <1>0, <1>3, StateFields, NextFields DEF CleanPass, Sound, StateType
<1>5. o.ok
  BY <1>2, <1>4, SMTT(60) DEF Paid
<1>6. Grounded(o.s) /\ Healed(o.s)
  BY <1>0, <1>1, <1>5, RefreshEffect, ReconcileFullEffect
<1> QED BY <1>2, <1>3, <1>6

LEMMA HealedConverged ==
    ASSUME Healed(State)
    PROVE  Converged
<1>1. ASSUME NEW i \in Ifaces PROVE RouteInPlace(i)
  <2> DEFINE want == Route(i, DesiredGw(State, i), DesiredMetric(State, i))
  <2>1. want.gw = DesiredGw(State, i)
    BY DEF Route
  <2>2. State.owned = owned /\ State.routes = routes /\ Held(State, i)
    BY StateFields DEF Healed
  <2> QED BY <2>1, <2>2 DEF RouteInPlace, Held
<1>2. DnsInPlace
  BY StateFields DEF Healed, DnsDone, DnsInPlace
<1> QED BY <1>1, <1>2 DEF Converged

-----------------------------------------------------------------------------
(* Theorems *)

\* The invariant the others follow from.
THEOREM Invariance == TxSpec => []TxInv
<1>1. TxInit => TxInv
  BY Established
<1>2. TxInv /\ [TxNext]_allvars => TxInv'
  BY Preserved
<1> QED BY <1>1, <1>2, PTL DEF TxSpec

\* Types, for every set of facts, configurations and foreign routes.
THEOREM TypeCorrect == TxSpec => []TxTypeOK
<1>1. Sound(State) => OwnedWhole(owned)
  BY StateFields DEF Sound, RoutesSound, OwnedWhole
<1>2. TxInv => TxTypeOK
  BY <1>1, SMTT(60) DEF TxInv, Sound, TxTypeOK, TypeOK, Transactions
<1> QED BY <1>2, Invariance, PTL

\* No failure inside ensure_owned_route, clear_owned_route or any entry point
\* leaks a default route: what this process added and is still live is recorded.
THEOREM RoutesAlwaysRecorded == TxSpec => []NoLeakedRoute
<1>1. TxInv => NoLeakedRoute
  BY StateFields DEF TxInv, Sound, RoutesSound, NoLeakedRoute
<1> QED BY <1>1, Invariance, PTL

\* No failure inside recompute_dns_locked orphans the resolver's marker.
THEOREM MarkerAlwaysTracked == TxSpec => []MarkerTracked
<1>1. TxInv => MarkerTracked
  BY StateFields, SMTT(60) DEF TxInv, Sound, MarkerSound, MarkerTracked
<1> QED BY <1>1, Invariance, PTL

\* start_dhcp and apply_ethernet_static exclude one another at every failure point.
THEOREM OneEthernetOwner == TxSpec => []StaticExcludesDhcp
<1>1. TxInv => StaticExcludesDhcp
  BY StateFields DEF TxInv, Sound, MethodSound, StaticExcludesDhcp
<1> QED BY <1>1, Invariance, PTL

\* Between Ethernet transactions file and runtime agree, whatever failed and
\* whatever the monitor thread, DHCP clients and other managers did in between,
\* unless a rollback was reported as failed.
THEOREM FileMatchesRuntime == TxSpec => []NoSplitBrain
<1>1. TxInv => NoSplitBrain
  BY DEF TxInv, NoSplitBrain
<1> QED BY <1>1, Invariance, PTL

\* A policy change is all or nothing: set_route_policy changes the policy only
\* together with both routes and the resolver; a change that fails anywhere
\* leaves the old policy.
THEOREM PolicyIsAtomic == TxSpec => PolicyChangeComplete
<1>1. TxInv /\ [TxNext]_allvars => (route_policy' # route_policy => PolicyDone')
  BY Preserved
<1>2. (route_policy' # route_policy => PolicyDone') =>
        [route_policy' # route_policy =>
           (\A i \in Ifaces : RouteInPlace(i) /\ RouteGone(i))' /\ DnsInPlace']_vars
  BY DEF PolicyDone
<1> QED BY <1>1, <1>2, Invariance, PTL DEF TxSpec, PolicyChangeComplete

\* A resolver file that the service did not write, one without its marker, is
\* never emptied: not by recompute_dns_locked, relinquishing or selecting, not by
\* an Ethernet transaction or a policy change and its roll-back, unless a write
\* that began with truncation, or another platform call, failed.
THEOREM ForeignResolverKept == TxSpec => ForeignDnsKept
<1>1. TxInv /\ [TxNext]_allvars => DnsStep
  BY DnsKept
<1>2. DnsStep => [resolver.ns # NoDns /\ resolver'.ns = NoDns =>
                    resolver.marker \/ faults' < faults]_vars
  BY DEF DnsStep
<1> QED BY <1>1, <1>2, Invariance, PTL DEF TxSpec, ForeignDnsKept

\* Every live default route is accounted for, a lease is in force only on a
\* managed interface, and a static configuration not in force is empty: what
\* start_dhcp, apply_ethernet_static and reconcile_link_locked must leave for the
\* repair pass and the resolver pass to read the same facts.
THEOREM FactsGrounded == TxSpec => []Grounded(State)
<1>1. TxInit => Grounded(State)
  BY GroundedFirst
<1>2. TxInv /\ Grounded(State) /\ [TxNext]_allvars => Grounded(State)'
  BY GroundedStep
<1> QED BY <1>1, <1>2, Invariance, PTL DEF TxSpec

\* Self-healing takes one pass: from any state that failures, other managers and
\* the transaction's other threads can leave, a refresh_external_state or full
\* reconcile in which nothing fails puts both routes and the resolver right.
\* (SelfHealing adds that such a pass comes, which needs fairness.)
THEOREM OnePassHeals == TxSpec => [][CleanPass => Converged']_allvars
<1>1. TxInv /\ Grounded(State) /\ [TxNext]_allvars => [CleanPass => Converged']_allvars
  <2> SUFFICES ASSUME TxInv, Grounded(State), CleanPass PROVE Converged'
    OBVIOUS
  <2>1. Healed(State)'
    BY CleanPassHeals
  <2> QED BY <2>1, HealedConverged, PTL
<1> QED BY <1>1, Invariance, FactsGrounded, PTL DEF TxSpec

\* After such a pass the interface that normalize_network_snapshot calls primary,
\* from live addresses and metrics, is the one whose server recompute_dns_locked
\* chose from policy and leases, under every policy.
THEOREM OnePassAgrees == TxSpec => [][CleanPass => ResolverAgrees']_allvars
<1>1. TxInv /\ Grounded(State) /\ [TxNext]_allvars => [CleanPass => ResolverAgrees']_allvars
  <2> SUFFICES ASSUME TxInv, Grounded(State), CleanPass PROVE ResolverAgrees'
    OBVIOUS
  <2>1. Sound(State)' /\ Grounded(State)' /\ Healed(State)'
    BY CleanPassHeals
  <2> QED BY <2>1, HealedAgrees, PTL
<1> QED BY <1>1, Invariance, FactsGrounded, PTL DEF TxSpec
=============================================================================
