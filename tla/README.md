# A TLA+ model of network_service

`network_service` is the daemon of a wall panel that owns Ethernet and Wi-Fi: it starts and
stops DHCP clients, applies addresses, default routes and DNS by policy, and serves other
programs over a Unix socket. This directory holds TLA+ modules translated from its C++ source
(`src/src`, `src/include`) and its init script (`src/packaging`), the TLC configurations that
check them, and TLAPS proofs. `PROJECT.json` lists components, runs, mutants, hazards, findings
and theorems, and maps every definition to its source lines.

## The system and its parts

| part | source | modules |
|---|---|---|
| reactor thread: IPC server, 250 ms reconciliation, netlink, 30 s fallback | `ipc/network_ipc_server.cpp` | `NetworkIpcServer` |
| v1 session, outbound queue, event sequencer, rebase tracker, change detector | `ipc/network_ipc_v1_*.cpp`, `service/network_state_change_detector.cpp` | `NetworkIpcServer`, `NetworkIpcStream`, `EventStream` |
| frame codec | `ipc/network_ipc_v1_codec.cpp` | `FrameDecoder`, `NetworkIpcInput` |
| Wi-Fi link to DHCP lifecycle, called by the monitor thread and the reactor | `service/wifi_manager.cpp` | `WifiManager` |
| Wi-Fi profiles over wpa_supplicant | `service/wifi_profile_policy.cpp`, `platform/wifi_backend.cpp` | `WifiProfiles` |
| the daemon's Wi-Fi commands | `service/network_daemon.cpp` | `WifiCommands` |
| WPA monitor thread and its control channel | `platform/wpa_event_monitor.cpp`, `platform/wpa_ctrl_client.cpp` | `WpaMonitor` |
| scan lifecycle | `service/wifi_scan_lifecycle.cpp` | `WifiScan` |
| address, route and DNS ownership, under one mutex | `service/network_control_plane*.cpp`, `platform/network_configurator.cpp` | `NetworkControlPlane` |
| Ethernet configuration store and transaction | `config/ethernet_config.cpp`, `service/network_daemon.cpp` | `EthernetTransaction` |
| snapshot: interface facts and what is made of them | `platform/interface_snapshot.cpp`, `service/network_state.cpp` | `NetworkTruth` |
| udhcpc processes, generation marker, lease files, event script | `platform/udhcpc_process.cpp`, `platform/dhcp_lease_store.cpp` | `DhcpClient` |
| process lock, signals, init script with supervisor loop | `main.cpp`, `packaging/S40network_service` | `Supervisor` |

They meet as follows. The WPA monitor reports link changes to `WifiManager`, which calls the
control plane to start or stop the client. The client's script publishes lease facts in files.
The reactor's tick lets the control plane consume them and then compares snapshots; a
difference becomes a sequenced event for every subscribed session. Commands of sessions run on the
reactor: Wi-Fi commands change the supplicant's profiles and the lifecycle, Ethernet commands run
the configuration transaction. The init script keeps one daemon alive.

## Modules

**Outcomes.** A C++ function that makes several fallible calls is a set of outcomes (return value,
state left), one per pattern of failures. `Then` is an early return, `Always` a `(void)call`,
`Rollback` a clean-up that keeps the failure.

**NetworkControlPlane.** `lock_` makes each entry point atomic, but each platform call inside
may fail, so an entry point is a set of outcomes built from the same calls in the same order as the
code. Beside the class's fields the state has the kernel's routes and addresses, the resolver file
with its ownership marker, the lease facts, and `created`, the live routes this process added.
`Drift` is another network manager.

**EthernetTransaction** extends it with the configuration file, the staged files and the daemon's
`eth_set_dhcp` and `eth_set_static`: stage, apply to the control plane, commit, and on a failure
the roll-back. A rename is the commit point even if the directory's fsync fails after it. `tx` is
where the transaction is; the reactor runs nothing else meanwhile, but the monitor thread, the DHCP
clients and other managers act between its steps. **NetworkTruth** adds the snapshot as operators:
the interface called primary, and readiness.

**DhcpClient.** One interface. Every unlink, rename and launch of `start`, `stop`,
`cleanup_stale` and `adopt_existing_dhcp`, and every test and move of the generated script, is a
step. Processes come up, exit and run their script in between, and the daemon may crash anywhere
and be restarted. Process 0 is a udhcpc that somebody else started.

**WifiManager.** State: the fields of `WifiManagerState`, `operation_lock_`, whether a client
runs, and per thread where it is (`pc`). A step is one `lock_` block, one acquisition of
`operation_lock_` or one mechanism call, since other threads run in between.

**WifiProfiles** is the profile policy as outcome sets over the supplicant's network list and its
saved file. A request fails because it is refused, or because its answer does not come in time;
then it was executed. **WifiCommands** composes it with `WifiManager`: commands on the reactor, a
supplicant that associates, loses the link and restarts, and the monitor thread that hands link
events on in order.

**WpaMonitor.** The monitor thread (open and attach, STATUS request, its answer, receive, leave
poll) beside the external wpa_supplicant: link changes, scans of its own, a queue of unsolicited
messages, a channel that may be lost. **WifiScan** extends it with `WifiScanLifecycle`: a request
reads the snapshot's event sequence before it sends SCAN, and a later poll looks for a start after
it and an end after that.

**NetworkIpcServer.** A step is one reactor lambda on one client: a message handled with all
its effects, a flush, an observation, a deadline, a clean-up, an accept. Around it are the network
state, the kernel's socket buffer, and consumers that follow `NETWORK_IPC_CONTRACT_V1.md` using
the library's `RebaseTracker`, or send something else. **FrameDecoder** is the decoder's loop over
bytes cut anywhere. **NetworkIpcInput** writes a consumer's messages as such bytes; `InboxDecodes`
compares what the decoder makes of every arriving byte sequence with a reference definition of the
frames in it, and so justifies whole messages in the server's model. The 2-byte header and the
messages' payloads are chosen there; the theorems about the decoder are for every payload.

**EventStream** is the abstract specification: one numbered stream, of which a subscriber hears
every number from its subscription on, in order, or loses its session. **NetworkIpcStream** holds
the mapping under which `NetworkIpcServer` implements it (`StreamPromised`): the number a session
has reached is read from what it was told, what is still in its queue and what is in the socket.

**Supervisor.** `start` and `stop` of the script and the supervisor shell with its trap, pidfiles
and lock directory, one step per command: to check the process that a pidfile names is one step, and
to remove the file because of it is a later one. The daemon goes from fork to exit with its `flock`
and the window between its signal handler and its wake pipe. Supervisors and daemons may crash or be
killed at any step. `start` may give up after `START_CHECK_SECONDS` wherever its supervisor is;
`overdue` remembers that it did so before the supervisor had written its pidfile.

Each `MC…` module gives the constants values. Operators named `…_Something` with the comment
"Mutant" are broken variants of the definition that follows them; replacing the definition by the
variant must violate the property it is paired with in `PROJECT.json`.

## Runs

| run | bounds | shows |
|---|---|---|
| `ethernet_transaction` | 2 failures, 1 foreign change, an Ethernet lease that comes and goes, the three policies the product sets | no leaked route, marker tracked, static excludes DHCP, policy change all or nothing, foreign resolver kept; file and runtime agree after each transaction; routes and resolver return to what the facts ask; the resolver follows the interface that the snapshot calls primary |
| `dhcp_client_prompt` | 3 generations, 2 crashes | one client at most, no conflict with an own client, complete stops, no live client disowned, late callbacks harmless |
| `wifi_commands` | 1 SSID, ids 0 and 1, 2 failures, 1 spontaneous link change; one monitor and one reactor thread | profiles are rolled back, a connect isolates its network, no client without a link, no orphan client, exit verdicts are fresh, a failure reason is shown with `Failed` and nothing else; a link is served and a dead client noticed in the end |
| `wifi_scan_prompt` | 1 link change, 1 foreign scan, 1 fault, 2 requests, queue of 2 | the snapshot agrees with the supplicant once the queue is read, it shows no link state from before the last ATTACH, a timed-out scan never completes a later one, the monitor recovers |
| `ipc_stream` | 2 consumers, queue of 2, socket buffer of 1, 2 changes | answers conserved, convergence, refinement of `EventStream` |
| `ipc_sessions` | 1 slot for 2 consumers, 2 sessions each, 1 stray message or hang-up, largest sequence 2, 1 change | consecutive streams with refusals, reconnects and an exhausted sequence; frames decoded whole; queues drain, messages are handled, handshakes end |
| `supervisor_lifecycle` | 2 starts, 2 launches, 2 faults (a start that gives up too early is one) | pidfiles true and stops end supervision, unless a start gave up; a daemon comes back, and two supervisors do not stay |
| `wifi_manager_explicit_stop`, `dhcp_client_slow`, `wifi_scan_late`, `ipc_flapping`, `supervisor_stop` | the smallest that show it | *violated*, see findings |

Why the bounds are enough to be interesting: two failures let a rollback fail after the step it
undoes; a lease that comes and goes makes routes appear and disappear under a policy change; one
link change beside one foreign scan and one lost channel lets a message overtake the STATUS answer;
two requests let the first time out under the second; three generations let a late script of the
first overlap the second and third; a queue of 2 over a socket of 1 overflows, stalls and drains;
sequence 2 is reached by two events; two launches let a crashed daemon come back, or two supervisors
have a daemon each. `ManualMetric`, which no command of the product selects, is left to the proofs.
The faults are budgets in guards (`MaxFaults`, `MaxDrift`, `MaxCrashes`, `MaxGen`, `MaxStray`,
`MaxSessions`, `MaxChanges`, `MaxLinkEvents`, `MaxOwnScans`, `MaxScans`, `MaxStarts`,
`MaxLaunches`); `MaxQueue` bounds the supplicant's unread messages, `MaxInbox` and `MaxPayload` the
decoder's input. The runs of the IPC server, the scan and the supervisor switch the deadlock check
off, because an idle reactor or monitor rightly waits in `poll`, and an operator may stop for good.
Symmetry of the consumers is used in `ipc_stream` only, which has no liveness property.

### Fairness

- `EthernetTransaction`: weak fairness of commit and roll-back, which are straight-line code after
  the apply, and strong fairness of a `Refresh` between transactions: the 30 s fallback deadline
  expires again and again, though transactions may keep the reactor from it at any one moment.
- `WifiCommands`: weak fairness of a thread inside a call, of the monitor handing on a queued event
  or failing its STATUS request, and of the reactor's tick.
- `WpaMonitor`: weak fairness of the monitor thread's own steps (a loop with a bounded poll and a
  retry delay). Nothing is assumed of the supplicant beyond answering or failing a request.
- `NetworkIpcServer`: weak fairness of the reactor's lambdas. Nothing is assumed of consumers. An
  input deadline may pass while unread input waits, but is sure to pass only when none does.
- `Supervisor`: weak fairness of the supervisors' and daemons' own steps. Nothing is assumed of the
  operator's commands, not even that one ends.

## What is proved

Eight modules hold proofs; each theorem is for every value of the constants that the named
assumptions allow. The proofs are laid out alike: lemmas about the operators, then what one step may
do to one session, thread or process, then the invariant, then the theorems. The `USE` at the head
of a module names the prover of the leaves that name none.

**`ControlPlaneProofs`**, over `EthernetTransaction` with any lease facts, static configurations,
policies (all four), foreign routes and any number of failures and foreign changes: `TxTypeOK`,
`NoLeakedRoute`, `MarkerTracked`, `StaticExcludesDhcp`, `NoSplitBrain`, `PolicyChangeComplete` and
`ForeignDnsKept`. The assumptions say that the constants have their types (`StringAssumption`,
`FactAssumption`, `StaticAssumption`, `BudgetAssumption`) and that a foreign resolver file names a
server (`DnsAssumption`). There is one lemma per operator, from the platform calls upwards, each
saying that every outcome, successful or not, leaves a state that is `Sound` and keeps Ethernet's
method and the policy (`Kept`). `Sound` strengthens the three ownership properties: a created route
is also live, and a record is empty or a route of its own interface with a gateway (also part of
`TxTypeOK`); without that, clearing one interface's record could drop the other's route. The transaction's invariant `TxInv` adds that
before the commit the control plane already runs the desired configuration, and that a roll-back
goes to the one in the file. For the policy, `EnsureEffect` and `RecomputeEffect` say what a
successful call achieves and what it leaves alone, so that the first interface's route survives the
second's. For `ForeignDnsKept` a second lemma per operator says that it leaves the resolver file
alone (`Spares`) or at least does not empty one without the marker (`Respects`), unless a call
failed, and that an error it returns comes from such a call (`Paid`).

`OnePassHeals` and `OnePassAgrees` are the safety halves of the liveness properties `SelfHealing`
and `PrimaryResolves`: from every reachable state, one `Refresh` or full reconcile in which no call
fails (`CleanPass`) ends with routes and resolver where facts and policy want them, and with the
resolver naming the server of the interface that the snapshot calls primary. Both need
`FactsGrounded`, a further invariant (`Grounded`): a live default route is this process's or another
manager's, a lease is in force only on a managed interface, and a static configuration not in force
is empty. Without it the pass could repair one interface by facts that the resolver does not go by.
`Held` says that one interface is as wanted, `Healed` that both are and the resolver too; repairing
the second interface keeps the first `Held`. What remains to TLC is that a clean pass comes.

**`DhcpClientProofs`**, for any number of generations and crashes, under `PromptLaunch` (a launched
udhcpc is visible or gone before the service stops polling; without it the properties are false, see
finding 3): `TypeOK`, `SingleClient`, `NoSelfConflict`, `StopComplete`, `CleanupOnlyStale`,
`NoRollback`. The inductive invariant `DInv` says where the one client that may live is known from:
the marker, the pidfile, or the step of `start` that has just launched it.

**`SupervisorProofs`**, for any number of supervisors, launches and faults: `PidfilesTrue` and
`StopEndsSupervision`. Both are conditional: they speak of histories in which no start gave up before
its supervisor had written its pidfile (`~overdue`), which `START_CHECK_SECONDS` makes likely and not
certain; no other timing is assumed. The argument is that the pidfile acts as the lock (`Ownership`):
as long as no start gave up, only the supervisor that the operator waits for is before its pidfile,
so a clean-up removes the pidfile or the lock directory only while there is no owner, and a stop
removes the files only when no owner is left. `ChildPublished` then says that while a supervisor
waits, no one else writes the child's pidfile.

**`WifiProofs`** is first about `WifiManager` with any sets of threads (`ThreadAssumption`:
`NoThread` is not a thread): types, serialized mechanism, `Starting` always owned, and
`ExitVerdict`. The inductive invariant `IndInv` needs `FreshProbe`: a thread about to publish an exit
verdict holds `operation_lock_`, so nobody can have started a client since its probe.
`NoOrphanInProduction` proves `NoOrphanClient` for a single L2 thread, the daemon's monitor. With two
it is false: an explicit stop can mark `Idle` while a start waits, the start then brings up a client,
and the other thread's DISCONNECTED finds `Idle` and stops nothing. `FailuresExplained` proves
`FailureExplained` for a single L2 thread, because while it is inside `on_l2_connected` the state is
`Starting` or `Idle` and nothing can fail (`ReservedWhileConnecting`); with two, a failure of one start
can be shown with the success of the other.

Its second part is about `WifiCommands` with any SSIDs, network ids, failures, link changes and
restarts of the supplicant, under the assumptions of `WifiProfiles` and `WifiCommands` on types.
`DaemonUsesManager` shows that the daemon, its commands included, is a behaviour of `WifiManager`;
what is proved there for arbitrary callers therefore holds here, `ExitVerdict` and `NoOrphanClient`
among it. `CmdTypeOK`, `NoTransientProfile` and `ConnectIsolates` follow from one lemma per operation of the profile
policy, over all its outcomes: every failure path after the id is known removes the network again,
from the saved file too, so both lists stay clean (`Clean`). `NoClientOutlivesLink` proves
`NoClientWithoutLink` for one monitor thread. `LinkInv` carries it: an active lifecycle has a link,
or a reason was reported, or the monitor is about to read STATUS, and the last event in the queue of
a supplicant without a link is not "up".

**`WifiScanProofs`**, for any number of link changes, scans, faults, requests and any queue length:
`TypeOK` (with it that no marker or baseline is ahead of `event_sequence`), `InSync`,
`ShownIsRecent`, and under `PromptStart` (finding 2) `GenerationFence`. `MonInv` gives the first three. `Synced`: while attached, the last link message that waits tells the
supplicant's phase, and when none waits the STATUS answer or the snapshot does. `Recent`: nothing
older than the last ATTACH is waiting, read or shown. `ScanInv` gives
the fence: the radio serves one scan at a time, so the last start before an end belongs to the scan
that ended (`Ordered`), no start of a scan that timed out is still to come or to be read (`Aged`), and
once a start is read after the baseline no such scan can end any more (`Fenced`).

**`NetworkIpcServerProofs`** and **`NetworkIpcStreamProofs`**, for any consumers, queue and socket
sizes, number space and session count (`BoundAssumption`: sizes are positive). Every action is first
shown to do one of a few things to one session (`Steps`). `IpcInv` says of each session that the
events in queue and socket are consecutive, begin where the consumer stands and end at the last
number allocated while it is subscribed; `NoArtificialGap` and `TypeOK` follow, and with the mapping
of `NetworkIpcStream` the refinement, `StreamKept`. `AllCounted` counts answers in the pipe against
what the consumer awaits, for `AnswersConserved`. `ViewsConverge` proves `Converged` if the network
does not return to an earlier state between two observations (`~Flapping`, finding 4) and numbers are
left; after exhaustion nobody is told of changes. `ViewInv` says that a consumer behind the observed
state has an event or a snapshot with something newer still to come.

**`NetworkIpcInputProofs`**, for any frame types and payload limit (`CodecAssumption`: they are
numbers; `InputAssumption`: the messages of `NetworkIpcInput` fit, and their bad header is one), any
clients and any inbox bound. First `FrameDecoder` alone. `TwoChunks`: feeding two chunks comes to the
same as feeding both at once, because a turn of `parse_available`'s loop that can be made can still
be made, with the same effect, when more bytes follow (`TurnPlus`). `CutsUnseen`: hence no cuts of a
stream are noticed. `FrameRead`, `PartialFrameWaits` and `BadHeaderStops` say what a decoder between
frames makes of a frame and more, of part of a frame, and of a bad header. `StreamDecoded` puts them
together for any sequence of messages, and `ClientsDecoded` proves `InboxDecodes` with the small
invariant `InboxInv`, that a client's messages under way are at most `MaxInbox` requests.

The prover has no induction over data, but it has the well-foundedness of the numbers. `Least`
derives from it that a set of numbers has a least element, and every induction here is a least
counterexample. That a recursive definition has a value at all is `Recursion` and
`BoundedRecursion`: the step is given as a function, not an operator, so that the provers can
instantiate it. `parse_available`, `Received` and the bytes sent are written as recursive functions
for that reason.

Only model-checked, with the reason:

- `SelfHealing`, `PrimaryResolves`, `MonitorRecovers`, `LinkServed`, `DeadClientNoticed`,
  `SessionProgress`, `HandshakeBounded`, `Supervised`, `SupervisorsSettle`: liveness; fairness and ENABLED are out of the
  prover's reach. Every invariant and action property of the passing runs has a theorem.

## Findings

1. **Explicit stop during a start** (`wifi_manager.cpp:65`). The start publishes `Running` after
   the stop marked `Idle`. If the start has `operation_lock_`, the stop kills the client afterwards
   and the state says `Running` without one until the next process check; if the stop has it first,
   there is nothing to stop yet and the start leaves a running client. A start that fails overwrites
   `Idle` as well, with `Failed` (:50); `ExplicitStopLeavesIdle` lets that pass.
2. **Scan generation fence** (`wifi_scan_lifecycle.cpp:58`). A start event and an end event
   after the request's baseline complete it. When a scan's start is read only after its request
   timed out, both its events lie after the baseline of the next request, which is reported ready by
   a scan that is not its own; `docs/contracts/WIFI_SCAN_LIFECYCLE_V1.md:56` excludes that.
   `GenerationFence` holds under `PromptStart`, the assumption that this does not happen.
3. **Slow client start** (`udhcpc_process.cpp:384`). If udhcpc appears after the start poll gave
   up, its marker and script are already gone; it then counts as a conflicting process that is
   never stopped and blocks later starts, or runs beside the next client.
4. **Transient state in a snapshot** (`network_ipc_server.cpp:470`). A consumer that is given a
   state which is gone again before the next observation is never told. `Converged` holds when the
   network does not return to an earlier state between two observations.
5. **Signal window of the daemon** (`main.cpp:82`). A SIGTERM between the installation of the
   handler and the publication of the wake pipe is dropped. The supervisor's `wait` is interrupted by
   its own TERM, so it does not wait for the daemon but removes its files and exits; the script's
   stop then returns with the daemon running and no supervisor, although
   `network_service_supervisor_test.sh:122` treats that as a failure.

Behaviour that the properties deliberately allow:

- A restarted daemon that adopts a running client writes the resolver although it may be foreign
  (`network_control_plane.cpp:399`); `ForeignDnsKept` says only that a foreign file is never emptied.
- A failed route removal in `stop_dhcp` (`network_control_plane.cpp:133`) is ignored and not retried
  while the link is down; the route stays recorded, so the next start or static apply removes it.
- A policy change whose rollback fails too (`network_control_plane.cpp:425`) can leave a route that
  the policy in force does not allow; it is recorded, so `NoLeakedRoute` still holds.
- Frames that precede garbage in one `recv` are dropped with it (`network_ipc_server.cpp:582`).
- A `start` that gives up before its supervisor wrote its pidfile (`S40network_service:196`) returns
  an error and leaves the supervisor coming up: a stop at that moment finds nothing to stop, and a
  second start brings a second supervisor. `SupervisorsSettle` says that this does not last.
- A `start` that finds no valid child removes the child's pidfile (`S40network_service:80`), also if
  a supervisor writes it in between, or its daemon has not yet the command line that is looked for;
  `PidfilesTrue` lets the file be missing. A stop still ends the daemon through its supervisor.
- An `ADD_NETWORK` whose answer is lost leaves an empty, disabled network in the supplicant;
  `NoTransientProfile` is about profiles whose id the daemon learned.

## Not modelled

- Text: JSON representation, v0 command lines, log lines, `/proc` and `/sys` parsing, and
  `legacy_wifi_state`, a name for old clients. No decision of another part depends on them.
- The netlink monitor: it only says that something changed; its effect is a `Refresh` or an
  observation, which may come at any time.
- The RC probe tool, a test client outside the service.
- `status` and `restart` of the script, which add no step; option parsing and the restart delay; a
  write of the child's pidfile that fails, and the socket file that stop removes.
- Interfaces that do not exist: the control plane skips their repair
  (`network_control_plane_reconcile.cpp:44`). A recorded route that is live is not asked for again
  there; the model asks, which changes nothing or fails.
- The byte limit of the outbound queue, a change of server generation, the read and write budgets of
  a tick, shutdown of the reactor, starting and stopping the monitor, and a control socket whose
  peer dies unnoticed.
- Real time beyond "the deadline has passed", PID reuse, the counter `dhcp_requests`, null platform
  ports.
- A restart of the daemon in the middle of an Ethernet transaction.
- A lease file that a crash leaves behind (`dhcp_lease_store.cpp:173`) stays on disk; nothing reads
  it, because its generation is never active again.

In `DhcpClient` a kill always ends the process before the clean-up. After a server-side close a
consumer does not read what is still buffered; it has lost its projection. The link phases of the
supplicant are reduced to three, and `WifiCommands` has the monitor read events in order, which
`WpaMonitor` models in detail.
