------------------------ MODULE MCEthernetTransaction ------------------------
(* EthernetTransaction for TLC: the Ethernet lease may be lost again and      *)
(* the policy is one that route_policy_apply accepts.                         *)
EXTENDS EthernetTransaction

Bound(g, d) == [event |-> "Bound", gw |-> g, dns |-> d]
Deconfig    == [event |-> "Deconfig", gw |-> "", dns |-> ""]

MCFacts == [i \in Ifaces |->
              IF i = "eth" THEN {Bound("g1", "d1"), Deconfig}
                           ELSE {Bound("w1", "dw")}]
MCStatics == {[gw |-> "gs", dns |-> "d1", active |-> TRUE, metric |-> 30]}
MCPolicies == {"EthernetPreferred", "WifiPreferred", "WifiOnly"}
MCForeignRoutes == {Route("eth", "gx", 0)}
=============================================================================
