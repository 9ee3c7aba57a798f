------------------------- MODULE EthernetTransaction -------------------------
(***************************************************************************)
(* eth_set_dhcp and eth_set_static (src/src/service/network_daemon.cpp and *)
(* src/src/config/ethernet_config.cpp): stage the new configuration file,  *)
(* apply it to the control plane, commit the file, or roll the control     *)
(* plane back.                                                             *)
(*                                                                         *)
(* The transaction runs on the reactor thread and takes the control        *)
(* plane's lock_ once per apply, so the monitor thread's Wi-Fi calls, the  *)
(* DHCP clients and other managers may act between its steps, and the      *)
(* reactor's own passes may not.                                           *)
(***************************************************************************)
EXTENDS NetworkControlPlane, NetworkTruth

VARIABLES
    config,    \* smart_hmi_ethernet.conf or NoFile; active says method=static
    stages,    \* staged files on disk
    tx,        \* where the transaction is, and its desired and previous
    settled    \* history: the last apply to finish, forwards or back, succeeded

tvars == <<config, stages, tx, settled>>
allvars == <<vars, tvars>>

Idle == [pc |-> "idle", desired |-> NoStatic, previous |-> NoStatic]

NoFile == [NoStatic EXCEPT !.metric = -1]

TxInit ==
    /\ Init
    /\ config \in {NoFile} \cup Statics
    /\ stages = 0
    /\ tx = Idle
    /\ settled = FALSE

apply_ethernet_runtime(s, cfg) ==
    IF cfg.active THEN apply_ethernet_static(s, cfg) ELSE start_dhcp(s, "eth")

\* A missing file means DHCP.
load_ethernet_config == IF config = NoFile THEN NoStatic ELSE config

\* Write and fsync a new file; a failed one is unlinked at once.
stage_ethernet_config(s) == Ok(s) \cup Failed(s)
discard_ethernet_config(n) == n - 1

\* Stage and, if that succeeded, apply; a failed apply discards the stage.
apply_ethernet_transaction(desired) ==
    /\ tx.pc = "idle"
    /\ \E staged \in stage_ethernet_config(State) :
         \/ ~staged.ok /\ Become(staged.s) /\ UNCHANGED tvars
         \/ /\ staged.ok
            /\ \E o \in apply_ethernet_runtime(staged.s, desired) :
                 /\ Become(o.s)
                 /\ stages' = IF o.ok THEN stages + 1 ELSE discard_ethernet_config(stages + 1)
                 /\ tx' = [pc |-> IF o.ok THEN "commit" ELSE "rollback",
                           desired |-> desired, previous |-> load_ethernet_config]
            /\ UNCHANGED <<config, settled>>
    /\ UNCHANGED drift

eth_set_dhcp == apply_ethernet_transaction(NoStatic)
eth_set_static(cfg) == apply_ethernet_transaction([cfg EXCEPT !.metric = 10])

\* Mutant: an uncertain durability barrier rolls the runtime back.
commit_ethernet_config_Uncertain ==
    /\ tx.pc = "commit"
    /\ stages' = stages - 1
    /\ \/ config' = tx.desired /\ tx' = Idle /\ settled' = TRUE /\ Become(State)
       \/ \E o \in Failed(State) :
            Become(o.s) /\ tx' = [tx EXCEPT !.pc = "rollback"] /\ config' = tx.desired
                        /\ UNCHANGED settled
    /\ UNCHANGED drift

\* rename is the commit point: a failed directory fsync after it is only logged.
\* A failed rename discards the stage.
commit_ethernet_config ==
    /\ tx.pc = "commit"
    /\ stages' = discard_ethernet_config(stages)
    /\ \/ /\ config' = tx.desired /\ tx' = Idle /\ settled' = TRUE
          /\ \E o \in Ok(State) \cup Failed(State) : Become(o.s)
       \/ \E o \in Failed(State) :
            Become(o.s) /\ tx' = [tx EXCEPT !.pc = "rollback"] /\ UNCHANGED <<config, settled>>
    /\ UNCHANGED drift

\* The error text tells a failed rollback apart.
roll_back ==
    /\ tx.pc = "rollback"
    /\ \E o \in apply_ethernet_runtime(State, tx.previous) :
         Become(o.s) /\ settled' = o.ok
    /\ tx' = Idle
    /\ UNCHANGED <<config, stages, drift>>

Transaction ==
    \/ eth_set_dhcp
    \/ \E cfg \in Statics : eth_set_static(cfg)
    \/ commit_ethernet_config
    \/ roll_back

\* What the reactor thread does between transactions.
Reactor ==
    /\ tx.pc = "idle"
    /\ \/ \E p \in Policies : SetRoutePolicy(p)
       \/ Reconcile \/ ReconcileFull \/ Refresh
    /\ UNCHANGED tvars

\* The monitor thread, DHCP clients and other managers.
Others ==
    /\ StartDhcp("wifi") \/ StopDhcp \/ (\E i \in Ifaces : PublishLease(i)) \/ Drift
    /\ UNCHANGED tvars

TxNext == Transaction \/ Reactor \/ Others

TxSpec == TxInit /\ [][TxNext]_allvars

\* The transaction is straight-line code, and the reactor's fallback deadline
\* (30 s) recurs between transactions; nothing is assumed of anyone else.
TxFairSpec ==
    /\ TxSpec
    /\ WF_allvars(commit_ethernet_config) /\ WF_allvars(roll_back)
    /\ SF_allvars(tx.pc = "idle" /\ Refresh /\ UNCHANGED tvars)

-----------------------------------------------------------------------------
(* Properties *)
\* Types of the fields.
TxTypeOK ==
    /\ TypeOK
    /\ config \in StaticCfg
    /\ stages \in Nat
    /\ tx \in [pc : {"idle", "commit", "rollback"}, desired : StaticCfg, previous : StaticCfg]
    /\ settled \in BOOLEAN

\* Ethernet's runtime method is the one the configuration asks for.
Runs(cfg) ==
    IF cfg.active THEN static_eth = cfg
                  ELSE link["eth"].managed /\ ~static_eth.active

\* No split brain (network_daemon.cpp:189-193): between transactions the control
\* plane runs the configuration in the file and no staged file is left, whatever
\* failed in between, unless the caller was told that a rollback failed or nothing
\* was ever applied; staged files do not pile up in either case.
NoSplitBrain ==
    /\ tx.pc = "idle" /\ settled => Runs(config)
    /\ tx.pc # "commit" => stages = 0

\* NetworkDaemon::snapshot while both links are up.
Snapshots(i) ==
    InterfaceFacts(TRUE, addr[i] # NoAddr, {r.metric : r \in {q \in routes : q.iface = i}})

\* The resolver names the DNS server of the interface that the snapshot calls
\* primary, provided both links are up, no other manager added a default route,
\* no failed removal left one and whoever gave us a gateway gave us a server.
ResolverAgrees ==
    /\ routes \cap ForeignRoutes = {} /\ \A i \in Ifaces : RouteGone(i)
    /\ EthRoute(State) => EthDns(State) # NoDns
    /\ WifiRoute(State) => WifiDns(State) # NoDns
    => \A eth \in Snapshots("eth"), wifi \in Snapshots("wifi") :
         LET primary == primary_iface(eth, wifi, "Connected", "Running")
         IN  network_ready(primary, resolver.ns # NoDns) =>
               resolver.ns = IF primary = "eth" THEN EthDns(State) ELSE WifiDns(State)

\* Route and name resolution agree again and again.  normalize_network_snapshot
\* and recompute_dns_locked decide the two separately, one from live metrics,
\* the other from policy and leases.
PrimaryResolves == []<>ResolverAgrees
=============================================================================
