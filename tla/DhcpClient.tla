----------------------------- MODULE DhcpClient ------------------------------
(***************************************************************************)
(* The DHCP client of one interface: UdhcpcProcess, DhcpLeaseStore and the *)
(* lease-event script, over the files they share: the generation marker,   *)
(* the pidfile, the per-generation script and lease file.                  *)
(*                                                                         *)
(* The service's calls are serialized by the control plane's lock, but     *)
(* each file operation is a step: client processes come up, exit and run   *)
(* their scripts in between, and the daemon may crash at any of them.      *)
(* The process launched for generation g is called g; process 0 is a       *)
(* udhcpc that somebody else runs on the interface with the same pidfile.  *)
(***************************************************************************)
EXTENDS Naturals, FiniteSets

CONSTANTS
    MaxGen,       \* bound: generations started
    MaxCrashes,   \* bound: daemon crashes
    PromptLaunch  \* a launched udhcpc is visible or gone within the 20 polls

ASSUME BoundAssumption == MaxGen \in Nat \ {0} /\ MaxCrashes \in Nat
ASSUME PromptAssumption == PromptLaunch \in BOOLEAN

Gens  == 1..MaxGen
Procs == 0..MaxGen
None  == MaxGen + 1     \* no pidfile

VARIABLES
    active,    \* generation marker, 0 if the file does not exist
    pidfile,   \* the process the pidfile names, or None
    scripts,   \* generations whose script file exists
    leases,    \* lease files by path: the generation and event they hold
    procs,     \* process states
    hook,      \* where the script run of each process is
    used,      \* generations used so far (next_generation never repeats)
    pc,        \* where the service is in start / stop / adoption
    then,      \* where it goes after the stop or cleanup in progress
    request,   \* history: the last call of the control plane that completed
    crashes

vars == <<active, pidfile, scripts, leases, procs, hook, used, pc, then, request, crashes>>

NoLease == [gen |-> 0, event |-> "none"]

\* Mutant: one lease file for all generations.
path_for_Shared(g) == 1

path_for(g) == g

\* The arguments of process p name the script of generation p; the foreign
\* client 0 has no script of the service among its arguments.
matches_owned_process(p, g) == g # 0 /\ p = g

probe ==
    CASE pidfile = None -> IF active # 0 THEN "StaleArtifacts" ELSE "Absent"
      [] pidfile # None /\ procs[pidfile] # "alive" -> "StaleArtifacts"
      [] OTHER -> IF matches_owned_process(pidfile, active) /\ active \in scripts
                  THEN "OwnedRunning" ELSE "ConflictingProcess"

\* DhcpLeaseStore::read: the event of the active generation's fact.
read ==
    LET fact == leases[path_for(active)]
    IN  IF active # 0 /\ fact.gen = active THEN fact.event ELSE "none"

Init ==
    /\ active = 0
    /\ pidfile \in {None, 0}
    /\ scripts = {}
    /\ leases = [g \in Gens |-> NoLease]
    /\ procs = [p \in Procs |-> IF p = pidfile THEN "alive" ELSE "none"]
    /\ hook = [g \in Gens |-> "idle"]
    /\ used = 0
    /\ pc = "idle" /\ then = "idle" /\ request = "none"
    /\ crashes = 0

-----------------------------------------------------------------------------
(* The service. *)
files == <<active, pidfile, scripts, leases>>
world == <<procs, hook, used, crashes>>

\* The control plane calls stop_dhcp, then clear_lease, then start_dhcp; or only
\* the first two.
Call ==
    /\ pc = "idle"
    /\ pc' = "stop"
    /\ \E op \in {"start", "stop"} :
          /\ op = "start" => used < MaxGen
          /\ then' = op
    /\ UNCHANGED <<files, world, request>>

\* What the conflict return of UdhcpcProcess::stop leads to: clear_lease after a
\* call of the control plane, nothing inside start.
AfterConflict == IF then \in {"start", "stop"} THEN "clear_lease" ELSE then

StopProbe ==
    /\ pc = "stop"
    /\ pc' = CASE probe = "ConflictingProcess" -> AfterConflict
               [] probe = "OwnedRunning" -> "kill"
               [] OTHER -> "clean_pidfile"
    /\ UNCHANGED <<files, world, then, request>>

\* Mutant: the client is not signalled before its files are removed.
Kill_Skip ==
    /\ pc = "kill"
    /\ pc' = "clean_pidfile"
    /\ UNCHANGED <<procs, files, hook, used, crashes, then, request>>

\* SIGTERM, 20 polls, SIGKILL: the process is gone, its script may still run.
Kill ==
    /\ pc = "kill"
    /\ procs' = [procs EXCEPT ![active] = "dead"]
    /\ pc' = "clean_pidfile"
    /\ UNCHANGED <<files, hook, used, crashes, then, request>>

\* cleanup_stale, one unlink after another.
CleanPidfile ==
    /\ pc = "clean_pidfile"
    /\ pidfile' = None
    /\ pc' = "clean_script"
    /\ UNCHANGED <<active, scripts, leases, world, then, request>>

\* Mutant: the marker goes first, and with it the name of the script.
CleanScript_MarkerFirst ==
    /\ pc = "clean_script"
    /\ active' = 0
    /\ scripts' = scripts \ {active'}
    /\ pc' = "clear_lease"
    /\ UNCHANGED <<pidfile, leases, world, then, request>>

CleanScript ==
    /\ pc = "clean_script"
    /\ scripts' = scripts \ {active}
    /\ pc' = "clear_lease"
    /\ UNCHANGED <<active, pidfile, leases, world, then, request>>

\* DhcpLeaseStore::clear: the lease file, then the marker.
ClearLease ==
    /\ pc = "clear_lease"
    /\ leases' = IF active = 0 THEN leases
                 ELSE [leases EXCEPT ![path_for(active)] = NoLease]
    /\ pc' = "clear_marker"
    /\ UNCHANGED <<active, pidfile, scripts, world, then, request>>

ClearMarker ==
    /\ pc = "clear_marker"
    /\ active' = 0
    /\ pc' \in CASE then = "stop" -> {"idle"}
                 [] then = "start" -> {"start", "idle"}   \* idle: the DNS step failed
                 [] OTHER -> {then}
    /\ request' = IF then \in {"start", "stop"} THEN "stop" ELSE request
    /\ UNCHANGED <<pidfile, scripts, leases, world, then>>

\* UdhcpcProcess::start.
StartProbe ==
    /\ pc = "start"
    /\ then' = "activate"
    /\ pc' = CASE probe = "ConflictingProcess" -> "idle"
               [] probe = "OwnedRunning" -> "stop"
               [] probe = "StaleArtifacts" -> "clean_pidfile"
               [] OTHER -> "activate"
    /\ request' = "start"
    /\ UNCHANGED <<files, world>>

\* Mutant: the failed marker write is ignored.
Activate_IgnoreError ==
    /\ pc = "activate"
    /\ \/ used' = used + 1 /\ active' = used + 1
       \/ UNCHANGED <<used, active>>
    /\ pc' = "script"
    /\ UNCHANGED <<pidfile, scripts, leases, procs, hook, crashes, then, request>>

\* activate_generation(next_generation()).
Activate ==
    /\ pc = "activate"
    /\ \/ /\ used' = used + 1 /\ active' = used + 1
          /\ pc' = "script"
       \/ UNCHANGED <<used, active>> /\ pc' = "idle"        \* the write failed
    /\ UNCHANGED <<pidfile, scripts, leases, procs, hook, crashes, then, request>>

\* Mutant: the failed script write is ignored.
WriteScript_IgnoreError ==
    /\ pc = "script"
    /\ then' = "idle" /\ pc' = "launch"
    /\ scripts' \in {scripts, scripts \cup {active}}
    /\ UNCHANGED <<active, pidfile, leases, world, request>>

\* ensure_event_script.
WriteScript ==
    /\ pc = "script"
    /\ then' = "idle"
    /\ \/ scripts' = scripts \cup {active} /\ pc' = "launch"
       \/ UNCHANGED scripts /\ pc' = "clear_lease"           \* the write failed
    /\ UNCHANGED <<active, pidfile, leases, world, request>>

\* system("udhcpc ... &"); if the shell refuses, the script is unlinked.
Launch ==
    /\ pc = "launch"
    /\ \/ procs' = [procs EXCEPT ![active] = "launching"] /\ pc' = "poll"
          /\ UNCHANGED scripts
       \/ scripts' = scripts \ {active} /\ pc' = "clear_lease"
          /\ UNCHANGED procs
    /\ UNCHANGED <<active, pidfile, leases, hook, used, crashes, then, request>>

PollRunning ==
    /\ pc = "poll" /\ probe = "OwnedRunning"
    /\ pc' = "idle"
    /\ UNCHANGED <<files, world, then, request>>

\* 20 polls of 25 ms without success: stop what is there.
PollTimeout ==
    /\ pc = "poll" /\ probe # "OwnedRunning"
    /\ PromptLaunch => procs[active] = "dead"
    /\ pc' = "stop"
    /\ UNCHANGED <<files, world, then, request>>

\* The daemon dies; the supervisor starts a new one, which probes first.
Crash ==
    /\ crashes < MaxCrashes
    /\ PromptLaunch => \A g \in Gens : procs[g] # "launching"
    /\ crashes' = crashes + 1
    /\ pc' = "adopt" /\ then' = "idle" /\ request' = "none"
    /\ UNCHANGED <<files, procs, hook, used>>

\* Mutant: the new daemon cleans up whatever it finds.
Adopt_Clean ==
    /\ pc = "adopt"
    /\ pc' = "clean_pidfile"
    /\ UNCHANGED <<files, world, then, request>>

\* adopt_existing_dhcp: only stale artifacts lead to a change of files.
Adopt ==
    /\ pc = "adopt"
    /\ pc' = IF probe = "StaleArtifacts" THEN "clean_pidfile" ELSE "idle"
    /\ UNCHANGED <<files, world, then, request>>

Service ==
    \/ Call \/ StopProbe \/ Kill \/ CleanPidfile \/ CleanScript \/ ClearLease
    \/ ClearMarker \/ StartProbe \/ Activate \/ WriteScript \/ Launch
    \/ PollRunning \/ PollTimeout \/ Crash \/ Adopt

-----------------------------------------------------------------------------
(* Client processes and their script runs. *)
svc == <<pc, then, request, used, crashes>>

ProcessUp(g) ==
    /\ procs[g] = "launching"
    /\ procs' = [procs EXCEPT ![g] = "alive"]
    /\ pidfile' = g
    /\ UNCHANGED <<active, scripts, leases, hook, svc>>

\* udhcpc gives up (-n) or crashes; a clean exit unlinks the pidfile.
ProcessExit(p) ==
    /\ procs[p] \in {"launching", "alive"}
    /\ procs' = [procs EXCEPT ![p] = "dead"]
    /\ pidfile' \in {pidfile, IF procs[p] = "alive" THEN None ELSE pidfile}
    /\ UNCHANGED <<active, scripts, leases, hook, svc>>

is_current(g) == active = g

\* is_current || exit; write the temporary file.
HookWrite(g) ==
    /\ procs[g] = "alive" /\ g \in scripts
    /\ hook[g] = "idle" /\ is_current(g)
    /\ hook' = [hook EXCEPT ![g] = "written"]
    /\ UNCHANGED <<files, procs, svc>>

HookRecheck(g) ==
    /\ hook[g] = "written"
    /\ hook' = [hook EXCEPT ![g] = IF is_current(g) THEN "current" ELSE "idle"]
    /\ UNCHANGED <<files, procs, svc>>

HookMove(g) ==
    /\ hook[g] = "current"
    /\ hook' = [hook EXCEPT ![g] = "moved"]
    /\ \E e \in {"bound", "deconfig"} :
          leases' = [leases EXCEPT ![path_for(g)] = [gen |-> g, event |-> e]]
    /\ UNCHANGED <<active, pidfile, scripts, procs, svc>>

\* is_current || rm -f the lease.
HookFinish(g) ==
    /\ hook[g] = "moved"
    /\ hook' = [hook EXCEPT ![g] = "idle"]
    /\ leases' = IF is_current(g) THEN leases
                 ELSE [leases EXCEPT ![path_for(g)] = NoLease]
    /\ UNCHANGED <<active, pidfile, scripts, procs, svc>>

Clients ==
    \/ \E g \in Gens : \/ ProcessUp(g) \/ HookWrite(g) \/ HookRecheck(g)
                       \/ HookMove(g) \/ HookFinish(g)
    \/ \E p \in Procs : ProcessExit(p)

Next == Service \/ Clients

Spec == Init /\ [][Next]_vars

-----------------------------------------------------------------------------
(* Properties *)

\* Types of the variables.
TypeOK ==
    /\ active \in 0..MaxGen /\ pidfile \in Procs \cup {None}
    /\ scripts \subseteq Gens
    /\ leases \in [Gens -> [gen : 0..MaxGen, event : {"none", "bound", "deconfig"}]]
    /\ procs \in [Procs -> {"none", "launching", "alive", "dead"}]
    /\ hook \in [Gens -> {"idle", "written", "current", "moved"}]
    /\ pc \in {"idle", "stop", "kill", "clean_pidfile", "clean_script", "clear_lease",
               "clear_marker", "start", "activate", "script", "launch", "poll", "adopt"}

Live(g) == procs[g] \in {"launching", "alive"}

\* The service never has two clients of its own on the interface, whatever
\* attempt failed or daemon crashed before (the duplicate DHCP client instances
\* that wifi_manager.h:54-56 rules out).
SingleClient == Cardinality({g \in Gens : Live(g)}) <= 1

\* A process that probe reports as conflicting, and that stop therefore spares
\* as another owner's, is not a client this service launched itself.
NoSelfConflict == probe = "ConflictingProcess" => pidfile = 0

\* cleanup_stale removes dead or stale artifacts only (udhcpc_process.h:36): the
\* script and the marker of a client that is coming up or running stay.
CleanupOnlyStale ==
    [][/\ \A g \in scripts \ scripts' : ~Live(g)
       /\ active # 0 /\ active' = 0 => ~Live(active)]_vars

\* A stop is complete: when stop_dhcp and clear_lease have returned, no client of
\* the service is left and no marker or script either, whatever crashed before.
StopComplete ==
    pc = "idle" /\ request = "stop"
        => (\A g \in Gens : ~Live(g)) /\ active = 0 /\ scripts = {}

\* Late callbacks cannot roll back a newer lease (ROUTE_DNS_OWNERSHIP_PHASE3.md:33):
\* the fact the service reads changes only by a step of the service or of the
\* active generation's own script.
NoRollback ==
    [][read' # read => pc' # pc \/ (active # 0 /\ hook'[active] # hook[active])]_vars
=============================================================================
