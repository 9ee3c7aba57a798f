-------------------------- MODULE DhcpClientProofs ---------------------------
(***************************************************************************)
(* Proofs about DhcpClient for any number of generations and crashes,      *)
(* under PromptLaunch: a launched udhcpc is visible or gone before the     *)
(* service stops polling for it.                                           *)
(***************************************************************************)
EXTENDS DhcpClient, FiniteSetTheorems, TLAPS

\* Time limits of the leaves that name no prover.
USE SMTT(60), ZenonT(60)

\* Types that TypeOK leaves open.
Counters ==
    /\ used \in 0..MaxGen
    /\ then \in {"idle", "start", "stop", "activate"}
    /\ request \in {"none", "start", "stop"}

\* A live client is always the one the marker, the script and, once it is up, the
\* pidfile name, so that probe finds it; it comes up only while start polls.
Known ==
    /\ \A g \in Gens : Live(g) => g = active /\ g \in scripts
    /\ \A g \in Gens : procs[g] = "alive" => pidfile = g
    /\ \A g \in Gens : procs[g] = "launching" => pc = "poll"
    /\ scripts \subseteq {active}

\* A foreign client keeps the service from starting anything beside it.
ForeignAlone ==
    procs[0] = "alive" =>
        /\ pidfile = 0 /\ active = 0 /\ scripts = {}
        /\ pc \notin {"activate", "script", "launch", "poll", "clean_pidfile", "clean_script"}
        /\ then = "activate" => pc = "idle"

NoneLive == \A g \in Gens : ~Live(g)

\* What is left of the last client at each place in start, stop and cleanup_stale.
Progress ==
    /\ pc \in {"kill", "script", "launch", "poll"} => active # 0
    /\ pc \in {"clean_pidfile", "clean_script", "clear_lease", "clear_marker", "start",
               "activate", "script", "launch"} => NoneLive
    /\ pc \in {"clear_lease", "clear_marker", "start", "activate", "script"} => scripts = {}
    /\ pc \in {"start", "activate"} => active = 0
    /\ pc = "launch" => active \in scripts
    /\ pc \in {"start", "activate"} => then = pc
    /\ then \in {"start", "activate"} /\ pc \notin {"idle", "script"} => used < MaxGen
    /\ pc = "stop" => then # "activate"
    /\ pc \in {"launch", "poll", "adopt"} => then = "idle"

\* Which call of the control plane is under way.
Requests ==
    /\ pc \in {"activate", "script", "launch", "poll"} \/ then = "activate" => request = "start"
    /\ request = "stop" => then \in {"start", "stop"}

DInv == TypeOK /\ Counters /\ Known /\ ForeignAlone /\ Progress /\ Requests /\ StopComplete

-----------------------------------------------------------------------------
LEMMA Numbers ==
    /\ MaxGen \in Nat /\ None \notin Procs /\ 0 \in Procs /\ 0 \notin Gens
    /\ \A g \in Gens : g \in Procs
    /\ \A p \in Procs : p # 0 => p \in Gens
    /\ 0..MaxGen = Procs
    /\ \A n \in 0..MaxGen : n < MaxGen => n + 1 \in Gens
  BY BoundAssumption DEF Gens, Procs, None

\* What probe's verdicts say about the process the pidfile names.
LEMMA ProbeFacts ==
    /\ probe \in {"OwnedRunning", "ConflictingProcess", "StaleArtifacts", "Absent"}
    /\ probe = "OwnedRunning" => active # 0 /\ pidfile = active /\ procs[pidfile] = "alive"
    /\ probe = "ConflictingProcess" =>
         pidfile # None /\ procs[pidfile] = "alive" /\ ~(pidfile = active /\ active # 0 /\ active \in scripts)
    /\ probe \in {"StaleArtifacts", "Absent"} => pidfile = None \/ procs[pidfile] # "alive"
    /\ probe = "Absent" => active = 0
<1>1. CASE pidfile = None /\ active # 0  BY <1>1 DEF probe
<1>2. CASE pidfile = None /\ active = 0  BY <1>2 DEF probe
<1>3. CASE pidfile # None /\ procs[pidfile] # "alive"  BY <1>3 DEF probe
<1>4. CASE pidfile # None /\ procs[pidfile] = "alive"
  <2>1. probe = IF matches_owned_process(pidfile, active) /\ active \in scripts
                THEN "OwnedRunning" ELSE "ConflictingProcess"
    BY <1>4 DEF probe
  <2> QED BY <1>4, <2>1 DEF matches_owned_process
<1> QED BY <1>1, <1>2, <1>3, <1>4

\* A process that stop spares is the foreign one.
LEMMA ConflictIsForeign ==
    ASSUME TypeOK, Known, probe = "ConflictingProcess"
    PROVE  pidfile = 0 /\ procs[0] = "alive"
  BY ProbeFacts, Numbers DEF TypeOK, Known, Live

\* Where probe finds nothing running, nothing runs, unless start is polling.
LEMMA StaleIsDead ==
    ASSUME TypeOK, Known, ForeignAlone, pc # "poll", probe \in {"StaleArtifacts", "Absent"}
    PROVE  NoneLive /\ procs[0] # "alive"
  BY ProbeFacts, Numbers DEF TypeOK, Known, Live, NoneLive, ForeignAlone

-----------------------------------------------------------------------------
LEMMA Step ==
    ASSUME PromptLaunch, DInv, [Next]_vars
    PROVE  DInv'
<1> USE Numbers DEF DInv, TypeOK, Counters, Known, ForeignAlone, Progress, Requests, StopComplete,
                    Live, NoneLive, files, world, svc
<1>1. CASE Call          BY <1>1 DEF Call
<1>2. CASE StopProbe     BY <1>2, ProbeFacts, ConflictIsForeign, StaleIsDead DEF StopProbe, AfterConflict
<1>3. CASE Kill          BY <1>3 DEF Kill
<1>4. CASE CleanPidfile  BY <1>4 DEF CleanPidfile
<1>5. CASE CleanScript   BY <1>5 DEF CleanScript
<1>6. CASE ClearLease    BY <1>6 DEF ClearLease, NoLease, path_for
<1>7. CASE ClearMarker   BY <1>7 DEF ClearMarker
<1>8. CASE StartProbe    BY <1>8, ProbeFacts, ConflictIsForeign, StaleIsDead DEF StartProbe
<1>9. CASE Activate      BY <1>9 DEF Activate
<1>10. CASE WriteScript  BY <1>10, ZenonT(60) DEF WriteScript
<1>11. CASE Launch       BY <1>11, ZenonT(60) DEF Launch
<1>12. CASE PollRunning  BY <1>12, ProbeFacts DEF PollRunning
<1>13. CASE PollTimeout  BY <1>13 DEF PollTimeout
<1>14. CASE Crash        BY <1>14 DEF Crash
<1>15. CASE Adopt        BY <1>15, ProbeFacts, StaleIsDead DEF Adopt
<1>16. ASSUME NEW g \in Gens, ProcessUp(g) PROVE DInv'     BY <1>16 DEF ProcessUp
<1>17. ASSUME NEW p \in Procs, ProcessExit(p) PROVE DInv'  BY <1>17 DEF ProcessExit
<1>18. ASSUME NEW g \in Gens, HookWrite(g) PROVE DInv'     BY <1>18 DEF HookWrite
<1>19. ASSUME NEW g \in Gens, HookRecheck(g) PROVE DInv'   BY <1>19 DEF HookRecheck
<1>20. ASSUME NEW g \in Gens, HookMove(g) PROVE DInv'      BY <1>20 DEF HookMove, path_for
<1>21. ASSUME NEW g \in Gens, HookFinish(g) PROVE DInv'    BY <1>21 DEF HookFinish, path_for, NoLease
<1>22. CASE UNCHANGED vars BY <1>22 DEF vars
<1> QED
  BY ZenonT(60), <1>1, <1>2, <1>3, <1>4, <1>5, <1>6, <1>7, <1>8, <1>9, <1>10, <1>11, <1>12, <1>13, <1>14,
     <1>15, <1>16, <1>17, <1>18, <1>19, <1>20, <1>21, <1>22 DEF Next, Service, Clients

LEMMA Start == Init => DInv
<1> SUFFICES ASSUME Init PROVE DInv
  OBVIOUS
<1> USE Numbers DEF Init
<1>1. TypeOK /\ Counters
  BY DEF TypeOK, Counters, NoLease
<1>2. \A g \in Gens : procs[g] = "none"
  OBVIOUS
<1>3. Known /\ ForeignAlone /\ Progress /\ Requests /\ StopComplete
  BY <1>2 DEF Known, ForeignAlone, Progress, Requests, StopComplete, Live
<1> QED BY <1>1, <1>3 DEF DInv

LEMMA Invariance == ASSUME PromptLaunch PROVE Spec => []DInv
<1>1. DInv /\ [Next]_vars => DInv'
  BY Step
<1> QED BY <1>1, Start, PTL DEF Spec

-----------------------------------------------------------------------------
\* The variables keep their types.
THEOREM TypeCorrect == ASSUME PromptLaunch PROVE Spec => []TypeOK
<1>1. DInv => TypeOK  BY DEF DInv
<1> QED BY <1>1, Invariance, PTL

\* UdhcpcProcess never has two clients of its own on the interface: a live one is
\* the one the marker names.
THEOREM OneClient == ASSUME PromptLaunch PROVE Spec => []SingleClient
<1>1. DInv => SingleClient
  <2> SUFFICES ASSUME DInv PROVE SingleClient
    OBVIOUS
  <2> DEFINE Clients_ == {g \in Gens : Live(g)}
  <2>1. Clients_ \subseteq {active}
    BY DEF DInv, Known
  <2>2. IsFiniteSet({active}) /\ Cardinality({active}) = 1
    BY FS_Singleton, ZenonT(60)
  <2>3. IsFiniteSet(Clients_) /\ Cardinality(Clients_) <= Cardinality({active})
    BY <2>1, <2>2, FS_Subset
  <2> QED BY <2>2, <2>3 DEF SingleClient
<1> QED BY <1>1, Invariance, PTL

\* A process that probe calls conflicting, and that start and stop therefore
\* leave alone, was not launched by the service.
THEOREM ConflictsAreForeign == ASSUME PromptLaunch PROVE Spec => []NoSelfConflict
<1>1. DInv => NoSelfConflict
  BY ConflictIsForeign DEF DInv, NoSelfConflict
<1> QED BY <1>1, Invariance, PTL

\* After stop_dhcp and clear_lease no client, marker or script is left.
THEOREM StopsAreComplete == ASSUME PromptLaunch PROVE Spec => []StopComplete
<1>1. DInv => StopComplete  BY DEF DInv
<1> QED BY <1>1, Invariance, PTL

\* cleanup_stale, a failed launch and clear_lease remove the script or the marker
\* of no client that is coming up or running.
THEOREM OnlyStaleIsCleaned == ASSUME PromptLaunch PROVE Spec => CleanupOnlyStale
<1> DEFINE Stale == /\ \A g \in scripts \ scripts' : ~Live(g)
                    /\ active # 0 /\ active' = 0 => ~Live(active)
<1>1. DInv /\ [Next]_vars => [Stale]_vars
  <2> SUFFICES ASSUME DInv, [Next]_vars PROVE Stale
    OBVIOUS
  <2>1. ASSUME \/ CleanScript \/ ClearMarker \/ Launch PROVE Stale
    BY <2>1, Numbers DEF DInv, TypeOK, Progress, NoneLive, CleanScript, ClearMarker, Launch
  <2>2. ASSUME active' = active \/ active' # 0, \A g \in scripts : g \in scripts' PROVE Stale
    BY <2>2
  <2>3. CASE Activate  BY <2>2, <2>3, Numbers DEF Activate, DInv, Counters, Progress
  <2>4. CASE WriteScript  BY <2>2, <2>4 DEF WriteScript
  <2> QED
    BY <2>1, <2>2, <2>3, <2>4
    DEF Next, Service, Clients, Call, StopProbe, Kill, CleanPidfile, ClearLease, StartProbe,
        PollRunning, PollTimeout, Crash, Adopt, ProcessUp, ProcessExit, HookWrite, HookRecheck,
        HookMove, HookFinish, files, svc, vars
<1> QED BY <1>1, Invariance, PTL DEF Spec, CleanupOnlyStale

\* The lease fact that DhcpLeaseStore::read returns changes by a step of the
\* service or by the script of the active generation; a late script of an older
\* one cannot touch it, however many generations there were.
THEOREM LateScriptsAreHarmless == ASSUME PromptLaunch PROVE Spec => NoRollback
<1> DEFINE Quiet == read' # read => pc' # pc \/ (active # 0 /\ hook'[active] # hook[active])
<1>1. DInv /\ [Next]_vars => [Quiet]_vars
  <2> SUFFICES ASSUME DInv, [Next]_vars PROVE Quiet
    OBVIOUS
  <2>1. ASSUME UNCHANGED <<active, leases>> PROVE Quiet
    BY <2>1 DEF read
  <2>2. ASSUME \/ ClearLease \/ ClearMarker \/ Activate PROVE pc' # pc
    BY <2>2 DEF ClearLease, ClearMarker, Activate, DInv, Counters
  <2>3. ASSUME NEW g \in Gens, HookMove(g) \/ HookFinish(g) PROVE Quiet
    <3>1. active' = active
      BY <2>3 DEF HookMove, HookFinish
    <3>2. CASE active = g
      BY <2>3, <3>2, Numbers DEF HookMove, HookFinish, DInv, TypeOK
    <3>3. CASE active # g /\ active # 0
      <4>1. active \in Gens
        BY <3>3, Numbers DEF DInv, TypeOK
      <4>2. leases'[active] = leases[active]
        BY <2>3, <3>3, <4>1 DEF HookMove, HookFinish, path_for, DInv, TypeOK
      <4> QED BY <3>1, <4>2 DEF read, path_for
    <3>4. CASE active = 0
      BY <3>1, <3>4 DEF read
    <3> QED BY <3>2, <3>3, <3>4
  <2> QED
    BY <2>1, <2>2, <2>3
    DEF Next, Service, Clients, Call, StopProbe, Kill, CleanPidfile, CleanScript, StartProbe,
        WriteScript, Launch, PollRunning, PollTimeout, Crash, Adopt, ProcessUp, ProcessExit,
        HookWrite, HookRecheck, files, svc, vars
<1> QED BY <1>1, Invariance, PTL DEF Spec, NoRollback
=============================================================================
