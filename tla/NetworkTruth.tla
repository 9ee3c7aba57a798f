---------------------------- MODULE NetworkTruth -----------------------------
(***************************************************************************)
(* NetworkDaemon::snapshot: the raw facts of read_live_snapshot            *)
(* (src/src/platform/interface_snapshot.cpp) and what                      *)
(* normalize_network_snapshot (src/src/service/network_state.cpp) makes of *)
(* them.  Pure operators; a fact of one interface is a record              *)
(* [carrier_up, has_ip, has_default_route, route_metric].                  *)
(***************************************************************************)
EXTENDS Integers

CONSTANT NoIface    \* the empty interface name

\* populate_interface_addresses and populate_default_routes: of several default
\* routes of an interface the last line of /proc/net/route counts, which is any
\* of them as far as this code knows.
InterfaceFacts(carrier, has_ip, metrics) ==
    {[carrier_up |-> carrier, has_ip |-> has_ip,
      has_default_route |-> metrics # {}, route_metric |-> m] :
        m \in IF metrics = {} THEN {0} ELSE metrics}

dhcp_client_active(dhcp) == dhcp \in {"Starting", "Running"}

\* An address alone proves a link only while the supplicant has not spoken.
wifi_connected(wifi, l2) == l2 = "Connected" \/ (l2 = "Unknown" /\ wifi.has_ip)

wifi_ip_state(wifi, l2, dhcp) ==
    CASE wifi_connected(wifi, l2) /\ wifi.has_ip -> "Ready"
      [] wifi_connected(wifi, l2) /\ ~wifi.has_ip /\ dhcp_client_active(dhcp) -> "Configuring"
      [] OTHER -> "None"

eth_usable(eth) == eth.carrier_up /\ eth.has_ip /\ eth.has_default_route
wifi_usable(wifi, l2, dhcp) ==
    wifi_ip_state(wifi, l2, dhcp) = "Ready" /\ wifi.has_default_route

\* Mutant: Ethernet wins whenever it is usable.
primary_iface_NoMetric(eth, wifi, l2, dhcp) ==
    CASE eth_usable(eth) -> "eth"
      [] ~eth_usable(eth) /\ wifi_usable(wifi, l2, dhcp) -> "wifi"
      [] OTHER -> NoIface

primary_iface(eth, wifi, l2, dhcp) ==
    IF /\ wifi_usable(wifi, l2, dhcp)
       /\ ~eth_usable(eth) \/ wifi.route_metric < eth.route_metric
    THEN "wifi"
    ELSE IF eth_usable(eth) THEN "eth" ELSE NoIface

network_ready(primary, dns_available) == primary # NoIface /\ dns_available
=============================================================================
