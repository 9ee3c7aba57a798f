----------------------------- MODULE WifiProofs ------------------------------
(***************************************************************************)
(* Proofs about WifiManager and WifiCommands.                              *)
(*                                                                         *)
(* WifiManager, for any sets of threads: the mechanism is serialized,      *)
(* Starting is always owned by a call in progress and exit verdicts are    *)
(* fresh whatever threads call the class; that no client is orphaned needs *)
(* the production thread model, a single L2 thread.                        *)
(*                                                                         *)
(* WifiCommands: the commands use WifiManager only through its own steps,  *)
(* leave no transient profile, isolate what they connect, and no DHCP      *)
(* client is left without a link.  A command is a set of outcomes of       *)
(* requests that may each fail; one lemma per function of WifiProfiles     *)
(* says what every outcome keeps.                                          *)
(***************************************************************************)
EXTENDS WifiCommands, WellFoundedInduction, TLAPS

\* A leaf that names no prover is one for Zenon.
USE ZenonT(60)

-----------------------------------------------------------------------------
(* WifiManager *)

\* A probe that found the client dead is still right when it is published:
\* only a start can revive the client and the prober holds operation_lock_.
FreshProbe == \A t \in Threads : pc[t] = "rec_mark" => ~running

\* The inductive invariant for any threads.
IndInv == TypeOK /\ MechanismSerialized /\ StartingIsOwned /\ FreshProbe

\* Only L2 threads are inside on_l2_connected.
ConnectorsAreL2 == \A t \in Threads : pc[t] \in ConnectPc => t \in L2Threads

\* With one L2 thread the link cannot drop during its own on_l2_connected.
LinkHeldWhileConnecting == \A t \in L2Threads : pc[t] \in ConnectPc => l2_connected

\* A client that runs before the start call is made was left by a lifecycle
\* whose stop is still owed by a control thread.
OldClientOwed ==
    \A t \in L2Threads :
        running /\ pc[t] \in ConnectPc \ {"conn_ok"} => Pending(StopPc)

\* The inductive invariant for the single L2 thread m, besides IndInv.
SingleInv ==
    /\ ConnectorsAreL2
    /\ LinkHeldWhileConnecting
    /\ OldClientOwed
    /\ NoOrphanClient

-----------------------------------------------------------------------------
\* TypeOK is inductive: every step of every handler keeps the field types.
LEMMA TypeStep == TypeOK /\ [Next]_vars => TypeOK'
<1> SUFFICES ASSUME TypeOK, [Next]_vars PROVE TypeOK'
  OBVIOUS
<1> USE DEF TypeOK, Threads, ConnectPc, StopPc, ReconcilePc, DhcpClientState,
            state_, Goto, ReleaseOperation
<1>1. CASE UNCHANGED vars
  BY <1>1 DEF vars
<1>2. ASSUME NEW t \in L2Threads, on_l2_connected(t) PROVE TypeOK'
  <2>1. CASE ConnectedReserve(t)  BY <2>1 DEF ConnectedReserve, dhcp_state_active
  <2>2. CASE ConnectedAcquire(t)  BY <2>2 DEF ConnectedAcquire, AcquireOperation
  <2>3. CASE ConnectedCancel(t)   BY <2>3 DEF ConnectedCancel
  <2>4. CASE ConnectedProceed(t)  BY <2>4 DEF ConnectedProceed
  <2>5. CASE StartSucceeds(t)     BY <2>5 DEF StartSucceeds
  <2>6. CASE StartFails(t)        BY <2>6 DEF StartFails
  <2>7. CASE ConnectedFailed(t)   BY <2>7 DEF ConnectedFailed
  <2>8. CASE ConnectedStarted(t)  BY <2>8 DEF ConnectedStarted
  <2> QED BY <1>2, <2>1, <2>2, <2>3, <2>4, <2>5, <2>6, <2>7, <2>8
          DEF on_l2_connected
<1>3. ASSUME NEW t \in Threads, MarkStopped(t), l2_connected' \in BOOLEAN
      PROVE  TypeOK'
  BY <1>3 DEF MarkStopped, dhcp_state_active
<1>4. ASSUME NEW t \in ControlThreads, reconcile_dhcp_process(t) PROVE TypeOK'
  <2>1. CASE ReconcileCheck(t)    BY <2>1 DEF ReconcileCheck
  <2>2. CASE ReconcileAcquire(t)  BY <2>2 DEF ReconcileAcquire, AcquireOperation
  <2>3. CASE ReconcileAlive(t)    BY <2>3 DEF ReconcileAlive
  <2>4. CASE ReconcileDead(t)     BY <2>4 DEF ReconcileDead
  <2>5. CASE ReconcileMark(t)     BY <2>5 DEF ReconcileMark
  <2> QED BY <1>4, <2>1, <2>2, <2>3, <2>4, <2>5 DEF reconcile_dhcp_process
<1>5. ASSUME NEW t \in Threads, StopStep(t) PROVE TypeOK'
  BY <1>5 DEF StopStep, StopAcquire, StopCall, AcquireOperation
<1>6. CASE ClientExits
  BY <1>6 DEF ClientExits
<1> QED
  BY <1>1, <1>2, <1>3, <1>4, <1>5, <1>6
     DEF Next, L2Step, ControlStep, on_l2_disconnected, stop_dhcp

\* operation_lock_ serializes the mechanism: acquiring needs the lock free, and
\* every step that leaves a mechanism section releases it.
LEMMA MechanismStep ==
    TypeOK /\ MechanismSerialized /\ [Next]_vars => MechanismSerialized'
<1> SUFFICES ASSUME TypeOK, MechanismSerialized, [Next]_vars
             PROVE  MechanismSerialized'
  OBVIOUS
<1> USE ThreadAssumption
    DEF TypeOK, MechanismSerialized, Threads, Holding, state_, Goto, ReleaseOperation
<1>1. CASE UNCHANGED vars
  BY <1>1 DEF vars
<1>2. ASSUME NEW t \in L2Threads, on_l2_connected(t) PROVE MechanismSerialized'
  <2>1. CASE ConnectedReserve(t)  BY <2>1 DEF ConnectedReserve, dhcp_state_active
  <2>2. CASE ConnectedAcquire(t)  BY <2>2 DEF ConnectedAcquire, AcquireOperation
  <2>3. CASE ConnectedCancel(t)   BY <2>3 DEF ConnectedCancel
  <2>4. CASE ConnectedProceed(t)  BY <2>4 DEF ConnectedProceed
  <2>5. CASE StartSucceeds(t)     BY <2>5 DEF StartSucceeds
  <2>6. CASE StartFails(t)        BY <2>6 DEF StartFails
  <2>7. CASE ConnectedFailed(t)   BY <2>7 DEF ConnectedFailed
  <2>8. CASE ConnectedStarted(t)  BY <2>8 DEF ConnectedStarted
  <2> QED BY <1>2, <2>1, <2>2, <2>3, <2>4, <2>5, <2>6, <2>7, <2>8
          DEF on_l2_connected
<1>3. ASSUME NEW t \in L2Threads, on_l2_disconnected(t) PROVE MechanismSerialized'
  BY <1>3 DEF on_l2_disconnected, MarkStopped, dhcp_state_active
<1>4. ASSUME NEW t \in ControlThreads, stop_dhcp(t) PROVE MechanismSerialized'
  BY <1>4 DEF stop_dhcp, MarkStopped, dhcp_state_active
<1>5. ASSUME NEW t \in ControlThreads, reconcile_dhcp_process(t) PROVE MechanismSerialized'
  <2>1. CASE ReconcileCheck(t)    BY <2>1 DEF ReconcileCheck
  <2>2. CASE ReconcileAcquire(t)  BY <2>2 DEF ReconcileAcquire, AcquireOperation
  <2>3. CASE ReconcileAlive(t)    BY <2>3 DEF ReconcileAlive
  <2>4. CASE ReconcileDead(t)     BY <2>4 DEF ReconcileDead
  <2>5. CASE ReconcileMark(t)     BY <2>5 DEF ReconcileMark
  <2> QED BY <1>5, <2>1, <2>2, <2>3, <2>4, <2>5 DEF reconcile_dhcp_process
<1>6. ASSUME NEW t \in Threads, StopStep(t) PROVE MechanismSerialized'
  <2>1. CASE StopAcquire(t)  BY <2>1 DEF StopAcquire, AcquireOperation
  <2>2. CASE StopCall(t)     BY <2>2 DEF StopCall
  <2> QED BY <1>6, <2>1, <2>2 DEF StopStep
<1>7. CASE ClientExits
  BY <1>7 DEF ClientExits
<1> QED
  BY <1>1, <1>2, <1>3, <1>4, <1>5, <1>6, <1>7 DEF Next, L2Step, ControlStep

\* A state of Starting keeps an on_l2_connected call in progress: each exit from
\* that call overwrites the state, and only ConnectedReserve writes Starting.
LEMMA StartingStep ==
    TypeOK /\ StartingIsOwned /\ [Next]_vars => StartingIsOwned'
<1> SUFFICES ASSUME TypeOK, StartingIsOwned, [Next]_vars PROVE StartingIsOwned'
  OBVIOUS
<1> USE DEF TypeOK, StartingIsOwned, Pending, Threads, ConnectPc, state_, Goto,
            ReleaseOperation
<1>1. CASE UNCHANGED vars
  BY <1>1 DEF vars
<1>2. ASSUME NEW t \in L2Threads, on_l2_connected(t) PROVE StartingIsOwned'
  <2>1. CASE ConnectedReserve(t)  BY <2>1 DEF ConnectedReserve, dhcp_state_active
  <2>2. CASE ConnectedAcquire(t)  BY <2>2 DEF ConnectedAcquire, AcquireOperation
  <2>3. CASE ConnectedCancel(t)   BY <2>3 DEF ConnectedCancel
  <2>4. CASE ConnectedProceed(t)  BY <2>4 DEF ConnectedProceed
  <2>5. CASE StartSucceeds(t)     BY <2>5 DEF StartSucceeds
  <2>6. CASE StartFails(t)        BY <2>6 DEF StartFails
  <2>7. CASE ConnectedFailed(t)   BY <2>7 DEF ConnectedFailed
  <2>8. CASE ConnectedStarted(t)  BY <2>8 DEF ConnectedStarted
  <2> QED BY <1>2, <2>1, <2>2, <2>3, <2>4, <2>5, <2>6, <2>7, <2>8
          DEF on_l2_connected
<1>3. ASSUME NEW t \in L2Threads, on_l2_disconnected(t) PROVE StartingIsOwned'
  BY <1>3 DEF on_l2_disconnected, MarkStopped, dhcp_state_active
<1>4. ASSUME NEW t \in ControlThreads, stop_dhcp(t) PROVE StartingIsOwned'
  BY <1>4 DEF stop_dhcp, MarkStopped, dhcp_state_active
<1>5. ASSUME NEW t \in ControlThreads, reconcile_dhcp_process(t) PROVE StartingIsOwned'
  <2>1. CASE ReconcileCheck(t)    BY <2>1 DEF ReconcileCheck
  <2>2. CASE ReconcileAcquire(t)  BY <2>2 DEF ReconcileAcquire, AcquireOperation
  <2>3. CASE ReconcileAlive(t)    BY <2>3 DEF ReconcileAlive
  <2>4. CASE ReconcileDead(t)     BY <2>4 DEF ReconcileDead
  <2>5. CASE ReconcileMark(t)     BY <2>5 DEF ReconcileMark
  <2> QED BY <1>5, <2>1, <2>2, <2>3, <2>4, <2>5 DEF reconcile_dhcp_process
<1>6. ASSUME NEW t \in Threads, StopStep(t) PROVE StartingIsOwned'
  <2>1. CASE StopAcquire(t)  BY <2>1 DEF StopAcquire, AcquireOperation
  <2>2. CASE StopCall(t)     BY <2>2 DEF StopCall
  <2> QED BY <1>6, <2>1, <2>2 DEF StopStep
<1>7. CASE ClientExits
  BY <1>7 DEF ClientExits
<1> QED
  BY <1>1, <1>2, <1>3, <1>4, <1>5, <1>6, <1>7 DEF Next, L2Step, ControlStep

\* Only StartSucceeds revives the client, and then its thread holds the lock
\* that a thread at rec_mark would hold.
LEMMA FreshProbeStep ==
    TypeOK /\ MechanismSerialized /\ FreshProbe /\ [Next]_vars => FreshProbe'
<1> SUFFICES ASSUME TypeOK, MechanismSerialized, FreshProbe, [Next]_vars
             PROVE  FreshProbe'
  OBVIOUS
<1> USE ThreadAssumption
    DEF TypeOK, MechanismSerialized, FreshProbe, Threads, Holding, state_, Goto,
        ReleaseOperation
<1>1. CASE UNCHANGED vars
  BY <1>1 DEF vars
<1>2. ASSUME NEW t \in L2Threads, on_l2_connected(t) PROVE FreshProbe'
  <2>1. CASE ConnectedReserve(t)  BY <2>1 DEF ConnectedReserve, dhcp_state_active
  <2>2. CASE ConnectedAcquire(t)  BY <2>2 DEF ConnectedAcquire, AcquireOperation
  <2>3. CASE ConnectedCancel(t)   BY <2>3 DEF ConnectedCancel
  <2>4. CASE ConnectedProceed(t)  BY <2>4 DEF ConnectedProceed
  <2>5. CASE StartSucceeds(t)     BY <2>5 DEF StartSucceeds
  <2>6. CASE StartFails(t)        BY <2>6 DEF StartFails
  <2>7. CASE ConnectedFailed(t)   BY <2>7 DEF ConnectedFailed
  <2>8. CASE ConnectedStarted(t)  BY <2>8 DEF ConnectedStarted
  <2> QED BY <1>2, <2>1, <2>2, <2>3, <2>4, <2>5, <2>6, <2>7, <2>8
          DEF on_l2_connected
<1>3. ASSUME NEW t \in L2Threads, on_l2_disconnected(t) PROVE FreshProbe'
  BY <1>3 DEF on_l2_disconnected, MarkStopped, dhcp_state_active
<1>4. ASSUME NEW t \in ControlThreads, stop_dhcp(t) PROVE FreshProbe'
  BY <1>4 DEF stop_dhcp, MarkStopped, dhcp_state_active
<1>5. ASSUME NEW t \in ControlThreads, reconcile_dhcp_process(t) PROVE FreshProbe'
  <2>1. CASE ReconcileCheck(t)    BY <2>1 DEF ReconcileCheck
  <2>2. CASE ReconcileAcquire(t)  BY <2>2 DEF ReconcileAcquire, AcquireOperation
  <2>3. CASE ReconcileAlive(t)    BY <2>3 DEF ReconcileAlive
  <2>4. CASE ReconcileDead(t)     BY <2>4 DEF ReconcileDead
  <2>5. CASE ReconcileMark(t)     BY <2>5 DEF ReconcileMark
  <2> QED BY <1>5, <2>1, <2>2, <2>3, <2>4, <2>5 DEF reconcile_dhcp_process
<1>6. ASSUME NEW t \in Threads, StopStep(t) PROVE FreshProbe'
  <2>1. CASE StopAcquire(t)  BY <2>1 DEF StopAcquire, AcquireOperation
  <2>2. CASE StopCall(t)     BY <2>2 DEF StopCall
  <2> QED BY <1>6, <2>1, <2>2 DEF StopStep
<1>7. CASE ClientExits
  BY <1>7 DEF ClientExits
<1> QED
  BY <1>1, <1>2, <1>3, <1>4, <1>5, <1>6, <1>7 DEF Next, L2Step, ControlStep

\* The invariant for any threads: types, serialized mechanism, owned Starting
\* and fresh probes hold in every reachable state.
THEOREM AnyThreadsInvariant == Spec => []IndInv
<1>1. Init => IndInv
  BY ThreadAssumption
     DEF Init, adopt_dhcp_running, IndInv, TypeOK, MechanismSerialized,
         StartingIsOwned, FreshProbe, Holding, DhcpClientState, Threads
<1>2. IndInv /\ [Next]_vars => IndInv'
  BY TypeStep, MechanismStep, StartingStep, FreshProbeStep DEF IndInv
<1> QED
  BY <1>1, <1>2, PTL DEF Spec

\* The fields keep their types whatever threads call WifiManager.
THEOREM TypeCorrect == Spec => []TypeOK
<1>1. IndInv => TypeOK  BY DEF IndInv
<1> QED BY <1>1, AnyThreadsInvariant, PTL

\* No two threads are inside the DHCP mechanism at once (operation_lock_).
THEOREM MechanismIsSerialized == Spec => []MechanismSerialized
<1>1. IndInv => MechanismSerialized  BY DEF IndInv
<1> QED BY <1>1, AnyThreadsInvariant, PTL

\* Starting is never left behind by on_l2_connected.
THEOREM StartingAlwaysOwned == Spec => []StartingIsOwned
<1>1. IndInv => StartingIsOwned  BY DEF IndInv
<1> QED BY <1>1, AnyThreadsInvariant, PTL

\* reconcile_dhcp_process publishes a process exit only for a lifecycle that is
\* still Running and whose client is dead at that moment.
THEOREM ExitVerdictsFresh == Spec => ExitVerdict
<1> DEFINE Verdict ==
      failure_reason' = "dhcp_process_exited" /\ failure_reason # "dhcp_process_exited"
        => dhcp_state = "Running" /\ dhcp_state' = "Failed" /\ ~running
<1>1. IndInv /\ [Next]_vars => [Verdict]_vars
  <2> SUFFICES ASSUME IndInv, Next PROVE Verdict
    OBVIOUS
  <2> USE DEF state_, Goto, ReleaseOperation
  <2>1. ASSUME NEW t \in L2Threads, L2Step(t) PROVE Verdict
    BY <2>1 DEF L2Step, on_l2_connected, on_l2_disconnected, ConnectedReserve,
       ConnectedAcquire, AcquireOperation, ConnectedCancel, ConnectedProceed,
       StartSucceeds, StartFails, ConnectedFailed, ConnectedStarted, MarkStopped
  <2>2. ASSUME NEW t \in ControlThreads, ControlStep(t) PROVE Verdict
    <3>1. CASE ReconcileMark(t)
      BY <3>1 DEF ReconcileMark, IndInv, FreshProbe, Threads
    <3> QED
      BY <2>2, <3>1 DEF ControlStep, stop_dhcp, MarkStopped, reconcile_dhcp_process,
         ReconcileCheck, ReconcileAcquire, AcquireOperation, ReconcileAlive,
         ReconcileDead
  <2>3. ASSUME NEW t \in Threads, StopStep(t) PROVE Verdict
    BY <2>3 DEF StopStep, StopAcquire, AcquireOperation, StopCall
  <2>4. CASE ClientExits
    BY <2>4 DEF ClientExits
  <2> QED BY <2>1, <2>2, <2>3, <2>4 DEF Next
<1> QED
  BY <1>1, AnyThreadsInvariant, PTL DEF Spec, ExitVerdict

-----------------------------------------------------------------------------
\* With a single L2 thread the extra conjuncts are preserved: a stop that finds
\* an active lifecycle leaves a thread owing the stop until the client is gone,
\* and no other thread can drop the link under on_l2_connected.
LEMMA SingleStep ==
    ASSUME NEW m, L2Threads = {m}
    PROVE  IndInv /\ SingleInv /\ [Next]_vars => SingleInv'
<1> SUFFICES ASSUME IndInv, SingleInv, [Next]_vars PROVE SingleInv'
  OBVIOUS
<1> USE DEF IndInv, TypeOK, FreshProbe, SingleInv, ConnectorsAreL2,
            LinkHeldWhileConnecting, OldClientOwed, NoOrphanClient, Pending, Threads,
            ConnectPc, StopPc, ReconcilePc, state_, Goto, ReleaseOperation,
            dhcp_state_active
<1>1. CASE UNCHANGED vars
  BY <1>1 DEF vars
<1>2. ASSUME NEW t \in L2Threads, on_l2_connected(t) PROVE SingleInv'
  <2>1. CASE ConnectedReserve(t)  BY <2>1, SMTT(60) DEF ConnectedReserve, dhcp_state_active
  <2>2. CASE ConnectedAcquire(t)  BY <2>2 DEF ConnectedAcquire, AcquireOperation
  <2>3. CASE ConnectedCancel(t)   BY <2>3 DEF ConnectedCancel
  <2>4. CASE ConnectedProceed(t)  BY <2>4 DEF ConnectedProceed
  <2>5. CASE StartSucceeds(t)     BY <2>5 DEF StartSucceeds
  <2>6. CASE StartFails(t)
    <3>1. running' = running \/ running' = FALSE  BY <2>6 DEF StartFails
    <3>2. CASE running' = FALSE    BY <2>6, <3>2 DEF StartFails
    <3>3. CASE running' = running
      <4>1. Pending(StopPc) => Pending(StopPc)'  BY <2>6 DEF StartFails
      <4>2. running => Pending(StopPc)           BY <2>6 DEF StartFails
      <4> QED BY <2>6, <3>3, <4>1, <4>2 DEF StartFails
    <3> QED BY <3>1, <3>2, <3>3
  <2>7. CASE ConnectedFailed(t)   BY <2>7 DEF ConnectedFailed
  <2>8. CASE ConnectedStarted(t)  BY <2>8 DEF ConnectedStarted
  <2> QED BY <1>2, <2>1, <2>2, <2>3, <2>4, <2>5, <2>6, <2>7, <2>8
          DEF on_l2_connected
<1>3. ASSUME NEW t \in L2Threads, on_l2_disconnected(t) PROVE SingleInv'
  BY <1>3, SMTT(60) DEF on_l2_disconnected, MarkStopped, dhcp_state_active
<1>4. ASSUME NEW t \in ControlThreads, stop_dhcp(t) PROVE SingleInv'
  BY <1>4, SMTT(60) DEF stop_dhcp, MarkStopped, dhcp_state_active
<1>5. ASSUME NEW t \in ControlThreads, reconcile_dhcp_process(t) PROVE SingleInv'
  <2>1. CASE ReconcileCheck(t)    BY <2>1 DEF ReconcileCheck
  <2>2. CASE ReconcileAcquire(t)  BY <2>2 DEF ReconcileAcquire, AcquireOperation
  <2>3. CASE ReconcileAlive(t)    BY <2>3 DEF ReconcileAlive
  <2>4. CASE ReconcileDead(t)     BY <2>4 DEF ReconcileDead
  <2>5. CASE ReconcileMark(t)     BY <2>5 DEF ReconcileMark
  <2> QED BY <1>5, <2>1, <2>2, <2>3, <2>4, <2>5 DEF reconcile_dhcp_process
<1>6. ASSUME NEW t \in Threads, StopStep(t) PROVE SingleInv'
  <2>1. CASE StopAcquire(t)  BY <2>1 DEF StopAcquire, AcquireOperation
  <2>2. CASE StopCall(t)     BY <2>2 DEF StopCall
  <2> QED BY <1>6, <2>1, <2>2 DEF StopStep
<1>7. CASE ClientExits
  BY <1>7 DEF ClientExits
<1> QED
  BY <1>1, <1>2, <1>3, <1>4, <1>5, <1>6, <1>7 DEF Next, L2Step, ControlStep

\* In the production thread model no DHCP client is orphaned: one that runs
\* while the lifecycle is Idle or Failed is being started or about to be stopped.
THEOREM NoOrphanInProduction ==
    ASSUME NEW m, L2Threads = {m}
    PROVE  Spec => []NoOrphanClient
<1>1. Init => SingleInv
  BY SMTT(60) DEF Init, adopt_dhcp_running, SingleInv, ConnectorsAreL2, LinkHeldWhileConnecting,
         OldClientOwed, NoOrphanClient, ConnectPc, dhcp_state_active, Threads
<1>2. IndInv /\ SingleInv /\ [Next]_vars => SingleInv'
  BY SingleStep
<1>3. SingleInv => NoOrphanClient
  BY DEF SingleInv
<1> QED
  BY <1>1, <1>2, <1>3, AnyThreadsInvariant, PTL DEF Spec

\* While its single L2 thread is inside on_l2_connected, the lifecycle is the one it
\* reserved or was cancelled: nothing else can start, run or fail.
ReservedWhileConnecting ==
    \A t \in L2Threads : pc[t] \in ConnectPc => dhcp_state \in {"Starting", "Idle"}

ReasonInv == ConnectorsAreL2 /\ ReservedWhileConnecting /\ FailureExplained

LEMMA ReasonStep ==
    ASSUME NEW m, L2Threads = {m}
    PROVE  TypeOK /\ ReasonInv /\ [Next]_vars => ReasonInv'
<1> SUFFICES ASSUME TypeOK, ReasonInv, [Next]_vars PROVE ReasonInv'
  OBVIOUS
<1> USE DEF TypeOK, ReasonInv, ConnectorsAreL2, ReservedWhileConnecting, FailureExplained,
            Threads, ConnectPc, StopPc, ReconcilePc, DhcpClientState, state_, Goto,
            ReleaseOperation, dhcp_state_active
<1>1. CASE UNCHANGED vars
  BY <1>1 DEF vars
<1>2. ASSUME NEW t \in L2Threads, on_l2_connected(t) PROVE ReasonInv'
  <2>1. CASE ConnectedReserve(t)  BY <2>1, SMTT(60) DEF ConnectedReserve
  <2>2. CASE ConnectedAcquire(t)  BY <2>2, SMTT(60) DEF ConnectedAcquire, AcquireOperation
  <2>3. CASE ConnectedCancel(t)   BY <2>3, SMTT(60) DEF ConnectedCancel
  <2>4. CASE ConnectedProceed(t)  BY <2>4, SMTT(60) DEF ConnectedProceed
  <2>5. CASE StartSucceeds(t)     BY <2>5, SMTT(60) DEF StartSucceeds
  <2>6. CASE StartFails(t)        BY <2>6, SMTT(60) DEF StartFails
  <2>7. CASE ConnectedFailed(t)   BY <2>7, SMTT(60) DEF ConnectedFailed
  <2>8. CASE ConnectedStarted(t)  BY <2>8, SMTT(60) DEF ConnectedStarted
  <2> QED BY <1>2, <2>1, <2>2, <2>3, <2>4, <2>5, <2>6, <2>7, <2>8
          DEF on_l2_connected
<1>3. ASSUME NEW t \in L2Threads, on_l2_disconnected(t) PROVE ReasonInv'
  BY <1>3, SMTT(60) DEF on_l2_disconnected, MarkStopped
<1>4. ASSUME NEW t \in ControlThreads, stop_dhcp(t) PROVE ReasonInv'
  BY <1>4, SMTT(60) DEF stop_dhcp, MarkStopped
<1>5. ASSUME NEW t \in ControlThreads, reconcile_dhcp_process(t) PROVE ReasonInv'
  <2>1. CASE ReconcileCheck(t)    BY <2>1, SMTT(60) DEF ReconcileCheck
  <2>2. CASE ReconcileAcquire(t)  BY <2>2, SMTT(60) DEF ReconcileAcquire, AcquireOperation
  <2>3. CASE ReconcileAlive(t)    BY <2>3, SMTT(60) DEF ReconcileAlive
  <2>4. CASE ReconcileDead(t)     BY <2>4, SMTT(60) DEF ReconcileDead
  <2>5. CASE ReconcileMark(t)     BY <2>5, SMTT(60) DEF ReconcileMark
  <2> QED BY <1>5, <2>1, <2>2, <2>3, <2>4, <2>5 DEF reconcile_dhcp_process
<1>6. ASSUME NEW t \in Threads, StopStep(t) PROVE ReasonInv'
  BY <1>6, SMTT(60) DEF StopStep, StopAcquire, StopCall, AcquireOperation
<1>7. CASE ClientExits
  BY <1>7 DEF ClientExits
<1> QED
  BY <1>1, <1>2, <1>3, <1>4, <1>5, <1>6, <1>7 DEF Next, L2Step, ControlStep

\* In the production thread model failure_reason and dhcp_state tell one story: a
\* reason is shown exactly with Failed, whatever stops and probes meet a start.
THEOREM FailuresExplained ==
    ASSUME NEW m, L2Threads = {m}
    PROVE  Spec => []FailureExplained
<1>1. Init => ReasonInv
  BY SMTT(60) DEF Init, adopt_dhcp_running, ReasonInv, ConnectorsAreL2, ReservedWhileConnecting,
                  FailureExplained, ConnectPc, Threads
<1>2. TypeOK /\ ReasonInv /\ [Next]_vars => ReasonInv'
  BY ReasonStep
<1>3. ReasonInv => FailureExplained
  BY DEF ReasonInv
<1> QED
  BY <1>1, <1>2, <1>3, TypeCorrect, PTL DEF Spec

-----------------------------------------------------------------------------
(* WifiCommands *)

News == {"up", "down", "status"}
Nets == [Ids -> Profile \cup {NoProfile}]
SupState == [nets : Nets, saved : Nets, up : BOOLEAN, barred : BOOLEAN,
             link : Ids \cup {NoId}, news : Seq(News), faults : Nat]

\* A request never associates: the link and what the monitor will read stay, or the
\* link is lost and the monitor will read so.
LinkKept(s, t) ==
    \/ t.link = s.link /\ t.news = s.news
    \/ s.link # NoId /\ t.link = NoId /\ t.news = Append(s.news, "down")

\* The fate of every profile but those in ids is unchanged.
FateKept(s, t, ids) == \A i \in Ids \ ids : t.nets[i].fate = s.nets[i].fate

\* What a request leaves that neither adds, removes, activates nor saves.
Same(s, t) == t \in SupState /\ LinkKept(s, t) /\ t.saved = s.saved /\ FateKept(s, t, {})

Clean(nets) == \A i \in Ids : nets[i].fate # "new"

\* A profile that became active is the only one that is enabled.
Isolates(s, t) ==
    \A i \in Ids : t.nets[i].fate = "active" /\ s.nets[i].fate # "active"
                   => \A j \in Ids : t.nets[j].on <=> i = j

\* What a whole command leaves.
Settled(s, t) ==
    /\ t \in SupState /\ LinkKept(s, t) /\ Isolates(s, t)
    /\ Clean(s.nets) /\ Clean(s.saved) => Clean(t.nets) /\ Clean(t.saved)

-----------------------------------------------------------------------------
(* Supplicant states. *)
LEMMA SupFacts ==
    ASSUME NEW s \in SupState
    PROVE  /\ s.nets \in Nets /\ s.saved \in Nets /\ s.up \in BOOLEAN /\ s.barred \in BOOLEAN
           /\ s.link \in Ids \cup {NoId} /\ s.news \in Seq(News) /\ s.faults \in Nat
           /\ \A i \in Ids : /\ s.nets[i] \in Profile \cup {NoProfile}
                             /\ s.nets[i].fate = "none" <=> s.nets[i] = NoProfile
<1>1. /\ s.nets \in Nets /\ s.saved \in Nets /\ s.up \in BOOLEAN /\ s.barred \in BOOLEAN
      /\ s.link \in Ids \cup {NoId} /\ s.news \in Seq(News) /\ s.faults \in Nat
  BY DEF SupState
<1>2. \A i \in Ids : s.nets[i] \in Profile \cup {NoProfile}
  BY <1>1 DEF Nets
<1>3. NoProfile.fate = "none" /\ \A x \in Profile : x.fate # "none"
  BY DEF NoProfile, Profile
<1>4. \A i \in Ids : s.nets[i].fate = "none" <=> s.nets[i] = NoProfile
  BY <1>2, <1>3
<1> QED BY <1>1, <1>2, <1>4

LEMMA Updates ==
    ASSUME NEW s \in SupState
    PROVE  /\ \A x \in Nat : [s EXCEPT !.faults = x] \in SupState
           /\ \A x \in Nets : [s EXCEPT !.nets = x] \in SupState
           /\ \A x \in Nets : [s EXCEPT !.saved = x] \in SupState
           /\ \A x \in BOOLEAN : [s EXCEPT !.up = x] \in SupState
           /\ \A x \in BOOLEAN : [s EXCEPT !.barred = x] \in SupState
           /\ \A x \in Ids \cup {NoId}, y \in Seq(News) :
                 [s EXCEPT !.link = x, !.news = y] \in SupState
           /\ \A y \in Seq(News) : [s EXCEPT !.news = y] \in SupState
BY DEF SupState

LEMMA NoIdFacts == NoId \notin Ids /\ NoId \in Ids \cup {NoId}
BY IdAssumption, SMTT(60) DEF Ids, NoId

LEMMA LinkKeptTrans ==
    ASSUME NEW s, NEW t, NEW u, LinkKept(s, t), LinkKept(t, u)
    PROVE  LinkKept(s, u)
BY DEF LinkKept

LEMMA SameTrans ==
    ASSUME NEW s, NEW t, NEW u, Same(s, t), Same(t, u)
    PROVE  Same(s, u)
BY LinkKeptTrans DEF Same, FateKept

LEMMA SameSelf ==
    ASSUME NEW s \in SupState
    PROVE  Same(s, s)
BY DEF Same, LinkKept, FateKept

\* A request that fails costs a fault and nothing else.
LEMMA FailedFacts ==
    ASSUME NEW s \in SupState, NEW o \in Failed(s)
    PROVE  /\ o.ok = FALSE /\ o.s \in SupState /\ Same(s, o.s)
           /\ o.s.nets = s.nets /\ o.s.saved = s.saved
           /\ o.s.link = s.link /\ o.s.news = s.news
<1>1. s.faults > 0 /\ o = [ok |-> FALSE, s |-> [s EXCEPT !.faults = s.faults - 1]]
  BY DEF Failed
<1>2. s.faults - 1 \in Nat  BY <1>1, SupFacts, SMTT(60)
<1>3. [s EXCEPT !.faults = s.faults - 1] \in SupState  BY <1>2, Updates
<1> QED BY <1>1, <1>3 DEF SupState, Same, LinkKept, FateKept

LEMMA OkFacts ==
    ASSUME NEW s, NEW o \in Ok(s)
    PROVE  o.ok = TRUE /\ o.s = s
BY SMTT(60) DEF Ok

LEMMA DropFacts ==
    ASSUME NEW s \in SupState
    PROVE  /\ Drop(s) \in SupState /\ LinkKept(s, Drop(s)) /\ Drop(s).link = NoId
           /\ Drop(s).nets = s.nets /\ Drop(s).saved = s.saved
<1>1. CASE s.link = NoId
  BY <1>1 DEF Drop, LinkKept
<1>2. CASE s.link # NoId
  <2>1. Append(s.news, "down") \in Seq(News)  BY SupFacts, SMTT(60) DEF News
  <2>2. Drop(s) = [s EXCEPT !.link = NoId, !.news = Append(s.news, "down")]
    BY <1>2 DEF Drop
  <2>3. Drop(s) \in SupState
    <3>1. \A x \in Ids \cup {NoId}, y \in Seq(News) : [s EXCEPT !.link = x, !.news = y] \in SupState
      BY Updates
    <3> QED BY <2>1, <2>2, <3>1, NoIdFacts
  <2> QED BY <1>2, <2>2, <2>3 DEF SupState, LinkKept
<1> QED BY <1>1, <1>2

LEMMA DropUnlessFacts ==
    ASSUME NEW s \in SupState, NEW ids
    PROVE  /\ DropUnless(s, ids) \in SupState /\ LinkKept(s, DropUnless(s, ids))
           /\ DropUnless(s, ids).nets = s.nets /\ DropUnless(s, ids).saved = s.saved
BY DropFacts DEF DropUnless, LinkKept

\* New nets, everything else as it was.
LEMMA NetsUpdated ==
    ASSUME NEW s \in SupState, NEW x \in Nets
    PROVE  LET t == [s EXCEPT !.nets = x]
           IN  /\ t \in SupState /\ t.nets = x /\ t.saved = s.saved /\ LinkKept(s, t)
               /\ t.link = s.link /\ t.news = s.news
BY DEF SupState, LinkKept

-----------------------------------------------------------------------------
(* wpa_supplicant's commands. *)
LEMMA ProfileUpdates ==
    ASSUME NEW x \in Profile
    PROVE  /\ \A y \in Ssids \cup {NoSsid} : [x EXCEPT !.ssid = y] \in Profile
                                             /\ [x EXCEPT !.ssid = y].fate = x.fate
           /\ \A y \in BOOLEAN : /\ [x EXCEPT !.on = y] \in Profile
                                 /\ [x EXCEPT !.on = y].fate = x.fate /\ [x EXCEPT !.on = y].on = y
           /\ \A y \in {"new", "active", "stuck"} :
                 [x EXCEPT !.fate = y] \in Profile /\ [x EXCEPT !.fate = y].fate = y
                 /\ [x EXCEPT !.fate = y].on = x.on
           /\ x.fate \in {"new", "active", "stuck"} /\ x.on \in BOOLEAN
BY DEF Profile

\* One profile replaced.
LEMMA OneNet ==
    ASSUME NEW s \in SupState, NEW id \in Ids, NEW x \in Profile \cup {NoProfile}
    PROVE  LET t == [s EXCEPT !.nets[id] = x]
           IN  /\ t \in SupState /\ t.nets = [s.nets EXCEPT ![id] = x] /\ t.nets[id] = x
               /\ \A i \in Ids \ {id} : t.nets[i] = s.nets[i]
               /\ t.saved = s.saved /\ LinkKept(s, t) /\ t.link = s.link /\ t.news = s.news
<1> DEFINE n == [s.nets EXCEPT ![id] = x]
           t == [s EXCEPT !.nets = n]
<1>1. s.nets \in Nets  BY SupFacts
<1>2. n \in Nets /\ n[id] = x /\ \A i \in Ids \ {id} : n[i] = s.nets[i]
  BY <1>1 DEF Nets
<1> HIDE DEF n
<1>3. /\ t \in SupState /\ t.nets = n /\ t.saved = s.saved /\ LinkKept(s, t)
      /\ t.link = s.link /\ t.news = s.news
  BY <1>2, NetsUpdated
<1>4. t = [s EXCEPT !.nets[id] = x]  BY DEF n
<1> HIDE DEF t
<1>5. /\ t.nets = [s.nets EXCEPT ![id] = x] /\ t.nets[id] = x
      /\ \A i \in Ids \ {id} : t.nets[i] = s.nets[i]
  BY <1>2, <1>3 DEF n
<1> QED BY <1>3, <1>4, <1>5

LEMMA SetNetwork ==
    ASSUME NEW s \in SupState, NEW id \in Ids, s.nets[id].fate # "none", NEW ssid \in Ssids
    PROVE  Same(s, SET_NETWORK(s, id, ssid))
<1> DEFINE x == [s.nets[id] EXCEPT !.ssid = ssid]
<1>1. s.nets[id] \in Profile  BY SupFacts
<1>2. x \in Profile /\ x.fate = s.nets[id].fate  BY <1>1 DEF Profile
<1>3. SET_NETWORK(s, id, ssid) = [s EXCEPT !.nets[id] = x]
  BY DEF SET_NETWORK
<1> HIDE DEF x
<1> QED BY <1>2, <1>3, OneNet, SMTT(60) DEF Same, FateKept

LEMMA EnableNetwork ==
    ASSUME NEW s \in SupState, NEW id \in Ids, s.nets[id].fate # "none"
    PROVE  /\ Same(s, ENABLE_NETWORK(s, id)) /\ ENABLE_NETWORK(s, id).nets[id].on = TRUE
           /\ \A i \in Ids \ {id} : ENABLE_NETWORK(s, id).nets[i] = s.nets[i]
<1> DEFINE x == [s.nets[id] EXCEPT !.on = TRUE]
<1>1. s.nets[id] \in Profile  BY SupFacts
<1>2. x \in Profile /\ x.fate = s.nets[id].fate /\ x.on = TRUE  BY <1>1 DEF Profile
<1>3. ENABLE_NETWORK(s, id) = [s EXCEPT !.nets[id] = x]
  BY DEF ENABLE_NETWORK
<1> HIDE DEF x
<1> QED BY <1>2, <1>3, OneNet, SMTT(60) DEF Same, FateKept

LEMMA DisableNetwork ==
    ASSUME NEW s \in SupState, NEW ids
    PROVE  /\ Same(s, DISABLE_NETWORK(s, ids))
           /\ \A i \in Ids \cap ids : DISABLE_NETWORK(s, ids).nets[i].on = FALSE
<1> DEFINE n == [i \in Ids |-> [s.nets[i] EXCEPT !.on = s.nets[i].on /\ i \notin ids]]
           t == [s EXCEPT !.nets = n]
<1>1. ASSUME NEW i \in Ids
      PROVE  /\ n[i] \in Profile \cup {NoProfile} /\ n[i].fate = s.nets[i].fate
             /\ i \in ids => n[i].on = FALSE
  <2> DEFINE y == s.nets[i].on /\ i \notin ids
  <2>1. s.nets[i] \in Profile \cup {NoProfile}  BY SupFacts
  <2>2. n[i] = [s.nets[i] EXCEPT !.on = y]  OBVIOUS
  <2>3. CASE s.nets[i] = NoProfile
    <3>1. y = FALSE  BY <2>3, SMTT(60) DEF NoProfile
    <3>2. [NoProfile EXCEPT !.on = FALSE] = NoProfile
      <4>1. NoProfile \in [ssid : {NoSsid}, on : {FALSE}, fate : {"none"}]  BY DEF NoProfile
      <4> QED BY <4>1
    <3>3. NoProfile.on = FALSE  BY DEF NoProfile
    <3> HIDE DEF n, y
    <3> QED BY <2>2, <2>3, <3>1, <3>2, <3>3
  <2>4. CASE s.nets[i] \in Profile
    <3>1. y \in BOOLEAN /\ (i \in ids => y = FALSE)  BY <2>4, ProfileUpdates
    <3> HIDE DEF n, y
    <3>2. [s.nets[i] EXCEPT !.on = y] \in Profile  BY <2>4, <3>1 DEF Profile
    <3>3. [s.nets[i] EXCEPT !.on = y].on = y /\ [s.nets[i] EXCEPT !.on = y].fate = s.nets[i].fate
      BY <2>4, <3>1 DEF Profile
    <3> QED BY <2>2, <3>1, <3>2, <3>3
  <2> QED BY <2>1, <2>3, <2>4
<1>2. n \in Nets  BY <1>1 DEF Nets
<1>3. DISABLE_NETWORK(s, ids) = DropUnless(t, Ids \ ids)
  BY DEF DISABLE_NETWORK
<1>4. t \in SupState /\ t.nets = n /\ t.saved = s.saved /\ LinkKept(s, t)
  <2> HIDE DEF n
  <2> QED BY <1>2, NetsUpdated
<1> HIDE DEF n, t
<1>5. /\ DropUnless(t, Ids \ ids) \in SupState /\ LinkKept(t, DropUnless(t, Ids \ ids))
      /\ DropUnless(t, Ids \ ids).nets = t.nets /\ DropUnless(t, Ids \ ids).saved = t.saved
  BY <1>4, DropUnlessFacts
<1>6. LinkKept(s, DropUnless(t, Ids \ ids))  BY <1>4, <1>5, LinkKeptTrans
<1> QED BY <1>1, <1>3, <1>4, <1>5, <1>6 DEF Same, FateKept

LEMMA SelectNetwork ==
    ASSUME NEW s \in SupState, NEW id \in Ids, s.nets[id].fate # "none"
    PROVE  /\ Same(s, SELECT_NETWORK(s, id))
           /\ \A j \in Ids : SELECT_NETWORK(s, id).nets[j].on <=> id = j
<1> DEFINE a == DISABLE_NETWORK(s, Ids \ {id})
           b == ENABLE_NETWORK(a, id)
           t == [b EXCEPT !.barred = FALSE]
<1>1. Same(s, a) /\ \A i \in Ids \ {id} : a.nets[i].on = FALSE
  BY DisableNetwork
<1>2. a \in SupState /\ a.nets[id].fate # "none"  BY <1>1 DEF Same, FateKept
<1> HIDE DEF a
<1>3. Same(a, b) /\ b.nets[id].on = TRUE /\ \A i \in Ids \ {id} : b.nets[i] = a.nets[i]
  BY <1>2, EnableNetwork
<1>4. SELECT_NETWORK(s, id) = t  BY DEF SELECT_NETWORK, a
<1> HIDE DEF b
<1>5. t.nets = b.nets /\ Same(b, t)
  BY <1>3 DEF Same, SupState, FateKept, LinkKept
<1> HIDE DEF t
<1>6. Same(s, t)  BY <1>1, <1>3, <1>5, SameTrans
<1>7. \A j \in Ids : t.nets[j].on <=> id = j  BY <1>1, <1>3, <1>5
<1> QED BY <1>4, <1>6, <1>7

-----------------------------------------------------------------------------
(* wifi_backend.cpp. *)
\* A request that is Same whether it is executed or not.
LEMMA wpa_okFacts ==
    ASSUME NEW s \in SupState, NEW t, Same(s, t), NEW o \in wpa_ok(s, t)
    PROVE  /\ Same(s, o.s) /\ o.s \in SupState /\ o.ok \in BOOLEAN
           /\ o.ok => o.s = t
           /\ o.s.nets \in {s.nets, t.nets}
<1>1. t \in SupState  BY DEF Same
<1>2. CASE o \in Ok(t)  BY <1>1, <1>2, OkFacts
<1>3. CASE o \in Failed(s)  BY <1>3, FailedFacts
<1>4. CASE o \in Failed(t)
  <2>1. /\ o.ok = FALSE /\ o.s \in SupState /\ Same(t, o.s) /\ o.s.nets = t.nets
    BY <1>1, <1>4, FailedFacts
  <2> QED BY <2>1, SameTrans
<1> QED BY <1>2, <1>3, <1>4 DEF wpa_ok

LEMMA InterfaceUp ==
    ASSUME NEW s \in SupState, NEW o \in wifi_ensure_interface_up(s)
    PROVE  Same(s, o.s) /\ o.s \in SupState /\ o.s.nets = s.nets /\ next_id(o.s) = next_id(s)
<1> DEFINE t == [s EXCEPT !.up = TRUE]
<1>1. t \in SupState  BY Updates
<1>2. t.nets = s.nets /\ t.saved = s.saved /\ t.link = s.link /\ t.news = s.news
  BY DEF SupState
<1>3. o \in Ok(t) \cup Failed(s)  BY DEF wifi_ensure_interface_up
<1> HIDE DEF t
<1>4. Same(s, t)  BY <1>1, <1>2 DEF Same, FateKept, LinkKept
<1>5. Same(s, o.s) /\ o.s.nets = s.nets
  BY <1>2, <1>3, <1>4, OkFacts, FailedFacts
<1> QED BY <1>5 DEF Same, next_id, Used

LEMMA Barring ==
    ASSUME NEW s \in SupState
    PROVE  /\ Same(s, DISCONNECT(s)) /\ Same(s, RECONNECT(s))
           /\ Same(s, [Drop(s) EXCEPT !.up = FALSE])
<1>1. ASSUME NEW t \in SupState, NEW b \in BOOLEAN
      PROVE  Same(t, [t EXCEPT !.barred = b]) /\ Same(t, [t EXCEPT !.up = b])
  BY DEF SupState, Same, FateKept, LinkKept
<1>2. Same(s, Drop(s)) /\ Drop(s) \in SupState  BY DropFacts DEF Same, FateKept
<1>3. Same(s, RECONNECT(s))  BY <1>1 DEF RECONNECT
<1> DEFINE d == Drop(s)
<1> HIDE DEF d
<1>4. Same(s, d) /\ d \in SupState  BY <1>2 DEF d
<1>5. Same(d, [d EXCEPT !.barred = TRUE]) /\ Same(d, [d EXCEPT !.up = FALSE])  BY <1>1, <1>4
<1>6. Same(s, [d EXCEPT !.barred = TRUE]) /\ Same(s, [d EXCEPT !.up = FALSE])
  BY <1>4, <1>5, SameTrans
<1> QED BY <1>3, <1>6 DEF d, DISCONNECT

LEMMA DisconnectFacts ==
    ASSUME NEW s \in SupState, NEW o \in wifi_disconnect(s)
    PROVE  Same(s, o.s) /\ o.s \in SupState /\ o.ok \in BOOLEAN
BY Barring, wpa_okFacts DEF wifi_disconnect

\* The profile is there: enabling and disabling it changes no fate.
LEMMA SetProfileEnabled ==
    ASSUME NEW s \in SupState, NEW id \in Ids, s.nets[id].fate # "none", NEW on \in BOOLEAN,
           NEW o \in wifi_set_profile_enabled(s, id, on)
    PROVE  Same(s, o.s) /\ o.s \in SupState
<1>1. CASE on
  <2>1. Same(s, ENABLE_NETWORK(s, id))  BY EnableNetwork
  <2>2. o \in wpa_ok(s, ENABLE_NETWORK(s, id))  BY <1>1 DEF wifi_set_profile_enabled
  <2> QED BY <2>1, <2>2, wpa_okFacts
<1>2. CASE ~on
  <2>1. Same(s, DISABLE_NETWORK(s, {id}))  BY DisableNetwork
  <2>2. o \in wpa_ok(s, DISABLE_NETWORK(s, {id}))  BY <1>2 DEF wifi_set_profile_enabled
  <2> QED BY <2>1, <2>2, wpa_okFacts
<1> QED BY <1>1, <1>2

LEMMA SelectProfile ==
    ASSUME NEW s \in SupState, NEW id \in Ids, s.nets[id].fate # "none",
           NEW o \in wifi_select_profile(s, id)
    PROVE  /\ Same(s, o.s) /\ o.s \in SupState
           /\ o.ok => \A j \in Ids : o.s.nets[j].on <=> id = j
<1>1. o \in wpa_ok(s, SELECT_NETWORK(s, id))  BY DEF wifi_select_profile
<1>2. Same(s, SELECT_NETWORK(s, id))  BY SelectNetwork
<1>3. Same(s, o.s) /\ o.s \in SupState /\ (o.ok => o.s = SELECT_NETWORK(s, id))
  BY <1>1, <1>2, wpa_okFacts
<1>4. \A j \in Ids : SELECT_NETWORK(s, id).nets[j].on <=> id = j  BY SelectNetwork
<1> QED BY <1>3, <1>4

\* Saving changes the saved networks only, to the networks there are.
LEMMA SaveProfiles ==
    ASSUME NEW s \in SupState, NEW o \in wifi_save_profiles(s)
    PROVE  /\ o.s \in SupState /\ o.s.nets = s.nets /\ o.s.link = s.link /\ o.s.news = s.news
           /\ o.s.saved \in {s.saved, s.nets}
<1> DEFINE t == [s EXCEPT !.saved = s.nets]
<1>1. t \in SupState  BY SupFacts, Updates
<1>2. t.nets = s.nets /\ t.saved = s.nets /\ t.link = s.link /\ t.news = s.news
  BY DEF SupState
<1>3. o \in Ok(t) \cup Failed(s) \cup Failed(t)  BY DEF wifi_save_profiles, wpa_ok, SAVE_CONFIG
<1> HIDE DEF t
<1>4. CASE o \in Ok(t)  BY <1>1, <1>2, <1>4, OkFacts
<1>5. CASE o \in Failed(s)  BY <1>5, FailedFacts
<1>6. CASE o \in Failed(t)
  <2>1. /\ o.s \in SupState /\ o.s.nets = t.nets /\ o.s.saved = t.saved
        /\ o.s.link = t.link /\ o.s.news = t.news
    BY <1>1, <1>6, FailedFacts
  <2> QED BY <1>2, <2>1
<1> QED BY <1>3, <1>4, <1>5, <1>6

\* A profile is removed, or stays as one that could not be removed.
LEMMA RemoveProfile ==
    ASSUME NEW s \in SupState, NEW id \in Ids, s.nets[id].fate # "none",
           NEW o \in wifi_remove_profile(s, id)
    PROVE  /\ o.s \in SupState /\ LinkKept(s, o.s) /\ o.s.saved = s.saved
           /\ FateKept(s, o.s, {id}) /\ o.s.nets[id].fate # "new"
           /\ o.s.nets[id].fate = "active" => s.nets[id].fate = "active"
<1> DEFINE f == IF s.nets[id].fate = "new" THEN "stuck" ELSE s.nets[id].fate
           x == [s.nets[id] EXCEPT !.fate = f]
           kept == [s EXCEPT !.nets[id] = x]
           rest == [s EXCEPT !.nets[id] = NoProfile]
           gone == DropUnless(rest, Ids \ {id})
<1>1. s.nets[id] \in Profile  BY SupFacts
<1>2. f \in {"active", "stuck"} /\ (f = "active" => s.nets[id].fate = "active")
  BY <1>1 DEF Profile
<1>3. x \in Profile /\ x.fate = f
  <2> HIDE DEF f
  <2> QED BY <1>1, <1>2 DEF Profile
<1>4. o \in Ok(gone) \cup Failed(kept) \cup Failed(gone)
  BY DEF wifi_remove_profile, REMOVE_NETWORK
<1> HIDE DEF f, x
<1>5. /\ kept \in SupState /\ LinkKept(s, kept) /\ kept.saved = s.saved /\ FateKept(s, kept, {id})
      /\ kept.nets[id].fate = f
  BY <1>3, OneNet, SMTT(60) DEF FateKept
<1>6. /\ rest \in SupState /\ LinkKept(s, rest) /\ rest.saved = s.saved
      /\ FateKept(s, rest, {id}) /\ rest.nets[id].fate = "none"
  <2>1. /\ rest \in SupState /\ LinkKept(s, rest) /\ rest.saved = s.saved
        /\ rest.nets[id] = NoProfile /\ \A i \in Ids \ {id} : rest.nets[i] = s.nets[i]
    BY OneNet, SMTT(60)
  <2>2. NoProfile.fate = "none"  BY DEF NoProfile
  <2> HIDE DEF rest
  <2> QED BY <2>1, <2>2 DEF FateKept
<1> HIDE DEF kept, rest
<1>7. /\ gone \in SupState /\ LinkKept(rest, gone) /\ gone.saved = rest.saved /\ gone.nets = rest.nets
  BY <1>6, DropUnlessFacts
<1>8. LinkKept(s, gone)  BY <1>6, <1>7, LinkKeptTrans
<1> HIDE DEF gone
<1>9. CASE o \in Ok(gone)
  <2>1. o.s = gone  BY <1>9, OkFacts
  <2> QED BY <1>6, <1>7, <1>8, <2>1 DEF FateKept
<1>10. CASE o \in Failed(kept)
  <2>1. /\ o.s \in SupState /\ o.s.nets = kept.nets /\ o.s.saved = kept.saved
        /\ o.s.link = kept.link /\ o.s.news = kept.news
    BY <1>5, <1>10, FailedFacts
  <2> QED BY <1>2, <1>5, <2>1 DEF FateKept, LinkKept
<1>11. CASE o \in Failed(gone)
  <2>1. /\ o.s \in SupState /\ o.s.nets = gone.nets /\ o.s.saved = gone.saved
        /\ o.s.link = gone.link /\ o.s.news = gone.news
    BY <1>7, <1>11, FailedFacts
  <2> QED BY <1>6, <1>7, <1>8, <2>1 DEF FateKept, LinkKept
<1> QED BY <1>4, <1>9, <1>10, <1>11

LEMMA LeastNumber ==
    ASSUME NEW E \in SUBSET Nat, E # {}
    PROVE  \E x \in E : \A y \in E : x <= y
<1>1. PICK x \in E : \A y \in E : ~(<<y, x>> \in OpToRel(<, Nat))
  BY NatLessThanWellFounded, WFMin
<1>2. ASSUME NEW y \in E PROVE x <= y
  <2>1. x \in Nat /\ y \in Nat  OBVIOUS
  <2>2. y < x => <<y, x>> \in OpToRel(<, Nat)  BY <2>1 DEF OpToRel
  <2>3. ~(y < x)  BY <1>1, <2>2
  <2> QED BY <2>1, <2>3, SMTT(60)
<1> QED BY <1>2

\* The id the supplicant gives a new network is one no network has.
LEMMA NextIdFree ==
    ASSUME NEW s \in SupState, next_id(s) \in Ids
    PROVE  s.nets[next_id(s)].fate = "none"
<1> DEFINE U == Used(s)
<1>1. U \subseteq 0..MaxId /\ MaxId \in Nat  BY IdAssumption DEF Used, Ids
<1>2. CASE U = {}
  BY <1>2, SupFacts DEF Used
<1>3. CASE U # {}
  <2> DEFINE V == {MaxId - u : u \in U}
             m == Max(U)
  <2>1. V \in SUBSET Nat /\ V # {}  BY <1>1, <1>3, SMTT(60)
  <2>2. PICK v \in V : \A w \in V : v <= w  BY <2>1, LeastNumber
  <2>3. PICK u \in U : v = MaxId - u  OBVIOUS
  <2>4. ASSUME NEW y \in U PROVE u >= y
    <3>1. MaxId - y \in V /\ MaxId - y \in Nat /\ v \in Nat /\ y \in Nat /\ u \in Nat
      BY <1>1, <2>1, <2>3, SMTT(60)
    <3>2. v <= MaxId - y  BY <2>2, <3>1
    <3> QED BY <1>1, <2>3, <3>1, <3>2, SMTT(60)
  <2>5. m \in U /\ \A y \in U : m >= y  BY <2>4 DEF Max
  <2>6. next_id(s) = m + 1  BY <1>3 DEF next_id
  <2>7. m \in Nat  BY <1>1, <2>5, SMTT(60)
  <2> HIDE DEF m
  <2>8. next_id(s) \notin U  BY <2>5, <2>6, <2>7, SMTT(60)
  <2> QED BY <2>8, SupFacts DEF Used
<1> QED BY <1>2, <1>3

\* The first profile with a given ssid, when there is one.
LEMMA MatchFacts ==
    ASSUME NEW s \in SupState, NEW ssid, Matching(s, ssid) # {}
    PROVE  Min(Matching(s, ssid)) \in Ids /\ s.nets[Min(Matching(s, ssid))].fate # "none"
<1> DEFINE M == Matching(s, ssid)
<1>1. M \in SUBSET Nat /\ M \subseteq Ids  BY IdAssumption, SMTT(60) DEF Matching, Used, Ids
<1>2. PICK m \in M : \A w \in M : m <= w  BY <1>1, LeastNumber
<1>3. Min(M) \in M  BY <1>2 DEF Min
<1> QED BY <1>1, <1>3, SupFacts DEF Matching, Used

LEMMA FindProfile ==
    ASSUME NEW s \in SupState, NEW ssid, NEW o \in wifi_find_profile(s, ssid)
    PROVE  /\ Same(s, o.s) /\ o.s \in SupState
           /\ o.ok => /\ o.s = s
                      /\ Min(Matching(s, ssid)) \in Ids
                      /\ s.nets[Min(Matching(s, ssid))].fate # "none"
<1>1. CASE o \in Failed(s)  BY <1>1, FailedFacts
<1>2. CASE Matching(s, ssid) = {} /\ o = [ok |-> FALSE, s |-> s]
  BY <1>2, SameSelf
<1>3. CASE Matching(s, ssid) # {} /\ o \in Ok(s)
  BY <1>3, OkFacts, SameSelf, MatchFacts
<1> QED BY <1>1, <1>2, <1>3 DEF wifi_find_profile

\* A network is added; without the answer nobody can remove it again.
LEMMA AddNetwork ==
    ASSUME NEW s \in SupState, next_id(s) \in Ids, NEW o \in wpa_add_network(s)
    PROVE  /\ o.s \in SupState /\ LinkKept(s, o.s) /\ o.s.saved = s.saved
           /\ FateKept(s, o.s, {next_id(s)})
           /\ IF o.ok THEN o.s.nets[next_id(s)].fate = "new"
                      ELSE o.s.nets[next_id(s)].fate \in {"none", "stuck"}
<1> DEFINE id == next_id(s)
           new == [ssid |-> NoSsid, on |-> FALSE, fate |-> "new"]
           stuck == [ssid |-> NoSsid, on |-> FALSE, fate |-> "stuck"]
           a == [s EXCEPT !.nets[id] = new]
           b == [s EXCEPT !.nets[id] = stuck]
<1>1. new \in Profile /\ stuck \in Profile /\ new.fate = "new" /\ stuck.fate = "stuck"
  BY DEF Profile
<1>2. o \in Ok(a) \cup Failed(s) \cup Failed(b)
  BY DEF wpa_add_network, ADD_NETWORK
<1>3. s.nets[id].fate = "none"  BY NextIdFree
<1> HIDE DEF id, new, stuck
<1>4. /\ a \in SupState /\ a.nets[id] = new /\ \A i \in Ids \ {id} : a.nets[i] = s.nets[i]
      /\ a.saved = s.saved /\ LinkKept(s, a)
  BY <1>1, OneNet, SMTT(60) DEF id
<1>5. /\ b \in SupState /\ b.nets[id] = stuck /\ \A i \in Ids \ {id} : b.nets[i] = s.nets[i]
      /\ b.saved = s.saved /\ LinkKept(s, b)
  BY <1>1, OneNet, SMTT(60) DEF id
<1> HIDE DEF a, b
<1>6. CASE o \in Ok(a)
  <2>1. o.s = a /\ o.ok  BY <1>6, OkFacts
  <2> QED BY <1>1, <1>4, <2>1 DEF FateKept, id
<1>7. CASE o \in Failed(s)
  <2>1. ~o.ok /\ o.s \in SupState /\ Same(s, o.s)  BY <1>7, FailedFacts
  <2>2. id \in Ids  BY DEF id
  <2> QED BY <1>3, <2>1, <2>2 DEF FateKept, Same, id
<1>8. CASE o \in Failed(b)
  <2>1. /\ ~o.ok /\ o.s \in SupState /\ o.s.nets = b.nets /\ o.s.saved = b.saved
        /\ o.s.link = b.link /\ o.s.news = b.news
    BY <1>5, <1>8, FailedFacts
  <2> QED BY <1>1, <1>5, <2>1 DEF FateKept, LinkKept, id
<1> QED BY <1>2, <1>6, <1>7, <1>8

\* A profile is created for activation, or nothing of it is left that could have
\* been removed.
LEMMA CreateProfile ==
    ASSUME NEW s \in SupState, next_id(s) \in Ids, NEW ssid \in Ssids,
           NEW o \in wifi_create_profile(s, ssid)
    PROVE  /\ o.s \in SupState /\ LinkKept(s, o.s) /\ o.s.saved = s.saved
           /\ FateKept(s, o.s, {next_id(s)})
           /\ IF o.ok THEN o.s.nets[next_id(s)].fate = "new"
                      ELSE o.s.nets[next_id(s)].fate \in {"none", "stuck"}
<1> DEFINE id == next_id(s)
           Set(a) == Then(wpa_ok(a, SET_NETWORK(a, id, ssid)), LAMBDA b : wpa_ok(b, b))
           Tried(a) == Rollback(Set(a), LAMBDA f : wifi_remove_profile(f, id))
<1>1. PICK a \in wpa_add_network(s) : IF a.ok THEN o \in Tried(a.s) ELSE o = a
  BY DEF wifi_create_profile, Then
<1>2. /\ a.s \in SupState /\ LinkKept(s, a.s) /\ a.s.saved = s.saved /\ FateKept(s, a.s, {id})
      /\ IF a.ok THEN a.s.nets[id].fate = "new" ELSE a.s.nets[id].fate \in {"none", "stuck"}
  BY AddNetwork
<1> HIDE DEF id, Tried
<1>3. CASE ~a.ok
  BY <1>1, <1>2, <1>3 DEF id
<1>4. CASE a.ok
  <2>1. id \in Ids  BY DEF id
  <2>2. PICK r \in Set(a.s) :
           IF r.ok THEN o = r ELSE \E u \in wifi_remove_profile(r.s, id) : o = [ok |-> FALSE, s |-> u.s]
    BY <1>1, <1>4 DEF Tried, Rollback
  <2>3. PICK b \in wpa_ok(a.s, SET_NETWORK(a.s, id, ssid)) :
           IF b.ok THEN r \in wpa_ok(b.s, b.s) ELSE r = b
    BY <2>2 DEF Then
  <2>4. Same(a.s, b.s) /\ b.s \in SupState
    <3>1. a.s.nets[id].fate # "none"  BY <1>2, <1>4
    <3>2. Same(a.s, SET_NETWORK(a.s, id, ssid))  BY <1>2, <2>1, <3>1, SetNetwork
    <3> QED BY <1>2, <2>3, <3>2, wpa_okFacts
  <2>5. Same(a.s, r.s)
    <3>1. CASE b.ok
      <4>1. r \in wpa_ok(b.s, b.s)  BY <2>3, <3>1
      <4>2. Same(b.s, b.s)  BY <2>4, SameSelf
      <4>3. Same(b.s, r.s)  BY <2>4, <4>1, <4>2, wpa_okFacts
      <4> QED BY <2>4, <4>3, SameTrans
    <3>2. CASE ~b.ok  BY <2>3, <2>4, <3>2
    <3> QED BY <3>1, <3>2
  <2>6. /\ r.s \in SupState /\ LinkKept(s, r.s) /\ r.s.saved = s.saved /\ FateKept(s, r.s, {id})
        /\ r.s.nets[id].fate = "new"
    <3>1. r.s \in SupState /\ LinkKept(a.s, r.s) /\ r.s.saved = a.s.saved
      BY <2>5 DEF Same
    <3>2. \A i \in Ids : r.s.nets[i].fate = a.s.nets[i].fate
      BY <2>5 DEF Same, FateKept
    <3>3. LinkKept(s, r.s)  BY <1>2, <3>1, LinkKeptTrans
    <3> QED BY <1>2, <1>4, <2>1, <3>1, <3>2, <3>3 DEF FateKept
  <2>7. CASE r.ok  BY <2>2, <2>6, <2>7 DEF id
  <2>8. CASE ~r.ok
    <3>1. PICK u \in wifi_remove_profile(r.s, id) : o = [ok |-> FALSE, s |-> u.s]
      BY <2>2, <2>8
    <3>2. /\ u.s \in SupState /\ LinkKept(r.s, u.s) /\ u.s.saved = r.s.saved
          /\ FateKept(r.s, u.s, {id}) /\ u.s.nets[id].fate # "new"
          /\ u.s.nets[id].fate # "active"
      <4>1. r.s.nets[id].fate \notin {"none", "active"}  BY <2>6
      <4> QED BY <2>1, <2>6, <4>1, RemoveProfile
    <3>3. u.s.nets[id].fate \in {"none", "stuck"}
      <4>1. u.s.nets[id] \in Profile \cup {NoProfile}  BY <2>1, <3>2, SupFacts
      <4> QED BY <3>2, <4>1, SMTT(60) DEF Profile, NoProfile
    <3>4. LinkKept(s, u.s)  BY <2>6, <3>2, LinkKeptTrans
    <3>5. FateKept(s, u.s, {id})  BY <2>6, <3>2 DEF FateKept
    <3>6. ~o.ok /\ o.s = u.s  BY <3>1
    <3> QED BY <2>6, <3>2, <3>3, <3>4, <3>5, <3>6 DEF id
  <2> QED BY <2>7, <2>8
<1> QED BY <1>3, <1>4

-----------------------------------------------------------------------------
(* wifi_profile_policy.cpp. *)
\* A profile is activated and isolated, or the fates are as they were.
LEMMA ActivateProfile ==
    ASSUME NEW s \in SupState, NEW id \in Ids, s.nets[id].fate # "none", NEW persist \in BOOLEAN,
           NEW o \in activate_profile(s, id, persist)
    PROVE  IF o.ok
           THEN /\ o.s \in SupState /\ LinkKept(s, o.s) /\ FateKept(s, o.s, {id})
                /\ o.s.nets[id].fate = "active" /\ o.s.saved \in {s.saved, o.s.nets}
                /\ \A j \in Ids : o.s.nets[j].on <=> id = j
           ELSE Same(s, o.s)
<1> DEFINE Last(c) == IF persist THEN Always(wifi_save_profiles(Activated(c, id)), Ok)
                                 ELSE Ok(Activated(c, id))
           Select(b) == Then(wifi_select_profile(b, id), LAMBDA c : Last(c))
           Enable(a) == Then(wifi_set_profile_enabled(a, id, TRUE), LAMBDA b : Select(b))
<1>1. PICK a \in wifi_disable_all_profiles(s) : o \in Enable(a.s)
  BY DEF activate_profile, Always
<1>2. Same(s, a.s) /\ a.s \in SupState
  BY DisableNetwork, wpa_okFacts DEF wifi_disable_all_profiles
<1>3. a.s.nets[id].fate # "none"  BY <1>2 DEF Same, FateKept
<1> HIDE DEF Select
<1>4. PICK b \in wifi_set_profile_enabled(a.s, id, TRUE) : IF b.ok THEN o \in Select(b.s) ELSE o = b
  BY <1>1 DEF Then
<1>5. Same(a.s, b.s) /\ b.s \in SupState  BY <1>2, <1>3, SetProfileEnabled
<1>6. Same(s, b.s)  BY <1>2, <1>5, SameTrans
<1>7. CASE b.ok
  <2>1. o \in Select(b.s)  BY <1>4, <1>7
  <2>2. b.s.nets[id].fate # "none"  BY <1>6 DEF Same, FateKept
  <2> HIDE DEF Last
  <2>3. PICK c \in wifi_select_profile(b.s, id) : IF c.ok THEN o \in Last(c.s) ELSE o = c
    BY <2>1 DEF Select, Then
  <2>4. /\ Same(b.s, c.s) /\ c.s \in SupState
        /\ c.ok => \A j \in Ids : c.s.nets[j].on <=> id = j
    BY <1>5, <2>2, SelectProfile
  <2>5. Same(s, c.s)  BY <1>6, <2>4, SameTrans
  <2>6. CASE ~c.ok  BY <2>3, <2>5, <2>6
  <2>7. CASE c.ok
    <3> DEFINE x == [c.s.nets[id] EXCEPT !.fate = "active"]
               t == [c.s EXCEPT !.nets[id] = x]
    <3>1. Activated(c.s, id) = t  BY DEF Activated
    <3>2. c.s.nets[id] \in Profile
      <4>1. c.s.nets[id].fate # "none"  BY <2>5 DEF Same, FateKept
      <4> QED BY <2>4, <4>1, SupFacts
    <3>3. x \in Profile /\ x.fate = "active" /\ x.on = c.s.nets[id].on  BY <3>2 DEF Profile
    <3> HIDE DEF x
    <3>4. /\ t \in SupState /\ t.nets[id] = x /\ \A i \in Ids \ {id} : t.nets[i] = c.s.nets[i]
          /\ t.saved = c.s.saved /\ LinkKept(c.s, t)
      BY <2>4, <3>3, OneNet, SMTT(60)
    <3> HIDE DEF t
    <3>5. /\ LinkKept(s, t) /\ t.saved = s.saved /\ FateKept(s, t, {id})
          /\ t.nets[id].fate = "active" /\ \A j \in Ids : t.nets[j].on <=> id = j
      <4>1. LinkKept(s, c.s) /\ c.s.saved = s.saved  BY <2>5 DEF Same
      <4>2. LinkKept(s, t)  BY <3>4, <4>1, LinkKeptTrans
      <4>3. FateKept(s, t, {id})  BY <2>5, <3>4 DEF Same, FateKept
      <4>4. \A j \in Ids : t.nets[j].on <=> id = j  BY <2>4, <2>7, <3>3, <3>4
      <4> QED BY <3>3, <3>4, <4>1, <4>2, <4>3, <4>4
    <3>6. o.ok /\ \/ o.s = t
                  \/ \E u \in wifi_save_profiles(t) : o.s = u.s
      <4>1. o \in Last(c.s)  BY <2>3, <2>7
      <4>2. CASE persist
        <5>1. PICK u \in wifi_save_profiles(t) : o \in Ok(u.s)
          BY <3>1, <4>1, <4>2 DEF Last, Always
        <5> QED BY <5>1, OkFacts
      <4>3. CASE ~persist
        <5>1. o \in Ok(t)  BY <3>1, <4>1, <4>3 DEF Last
        <5> QED BY <5>1, OkFacts
      <4> QED BY <4>2, <4>3
    <3>7. CASE o.s = t  BY <3>4, <3>5, <3>6, <3>7
    <3>8. ASSUME NEW u \in wifi_save_profiles(t), o.s = u.s
          PROVE  /\ o.s \in SupState /\ LinkKept(s, o.s) /\ FateKept(s, o.s, {id})
                 /\ o.s.nets[id].fate = "active" /\ o.s.saved \in {s.saved, o.s.nets}
                 /\ \A j \in Ids : o.s.nets[j].on <=> id = j
      <4>1. /\ u.s \in SupState /\ u.s.nets = t.nets /\ u.s.link = t.link /\ u.s.news = t.news
            /\ u.s.saved \in {t.saved, t.nets}
        BY <3>4, SaveProfiles
      <4>2. LinkKept(s, u.s)  BY <3>5, <4>1 DEF LinkKept
      <4>3. FateKept(s, u.s, {id})  BY <3>5, <4>1 DEF FateKept
      <4> QED BY <3>5, <3>8, <4>1, <4>2, <4>3
    <3> QED BY <3>6, <3>7, <3>8
  <2> QED BY <2>6, <2>7
<1>8. CASE ~b.ok  BY <1>4, <1>6, <1>8
<1> QED BY <1>7, <1>8

LEMMA SameSettled ==
    ASSUME NEW s, NEW t, Same(s, t)
    PROVE  Settled(s, t)
BY DEF Same, Settled, FateKept, Isolates, Clean

\* A settled state may be saved.
LEMMA SavedSettled ==
    ASSUME NEW s, NEW t \in SupState, Settled(s, t), NEW o \in wifi_save_profiles(t)
    PROVE  Settled(s, o.s)
<1>1. /\ o.s \in SupState /\ o.s.nets = t.nets /\ o.s.link = t.link /\ o.s.news = t.news
      /\ o.s.saved \in {t.saved, t.nets}
  BY SaveProfiles
<1> QED BY <1>1 DEF Settled, LinkKept, Isolates, Clean

\* Removing a profile settles, whatever became of it.
LEMMA RemovedSettled ==
    ASSUME NEW s, NEW t \in SupState, LinkKept(s, t), t.saved = s.saved,
           NEW id \in Ids, FateKept(s, t, {id}), t.nets[id].fate # "none",
           t.nets[id].fate = "active" => s.nets[id].fate = "active",
           NEW o \in wifi_remove_profile(t, id)
    PROVE  o.s \in SupState /\ Settled(s, o.s)
<1>1. /\ o.s \in SupState /\ LinkKept(t, o.s) /\ o.s.saved = t.saved
      /\ FateKept(t, o.s, {id}) /\ o.s.nets[id].fate # "new"
      /\ o.s.nets[id].fate = "active" => t.nets[id].fate = "active"
  BY RemoveProfile
<1>2. LinkKept(s, o.s)  BY <1>1, LinkKeptTrans
<1>3. \A i \in Ids \ {id} : o.s.nets[i].fate = s.nets[i].fate  BY <1>1 DEF FateKept
<1>4. Isolates(s, o.s)  BY <1>1, <1>3 DEF Isolates
<1>5. Clean(s.nets) /\ Clean(s.saved) => Clean(o.s.nets) /\ Clean(o.s.saved)
  BY <1>1, <1>3 DEF Clean
<1> QED BY <1>1, <1>2, <1>4, <1>5 DEF Settled

LEMMA ConnectNewSettles ==
    ASSUME NEW s \in SupState, next_id(s) \in Ids, NEW ssid \in Ssids,
           NEW o \in connect_new(s, ssid)
    PROVE  Settled(s, o.s)
<1> DEFINE id == next_id(s)
           Undo(f) == Then(wifi_remove_profile(f, id), wifi_save_profiles)
           Activate(b) == Rollback(activate_profile(b, id, TRUE), LAMBDA f : Undo(f))
           Create(a) == Then(wifi_create_profile(a, ssid), LAMBDA b : Activate(b))
<1>1. PICK a \in wifi_ensure_interface_up(s) : IF a.ok THEN o \in Create(a.s) ELSE o = a
  BY DEF connect_new, Then
<1>2. Same(s, a.s) /\ a.s \in SupState /\ next_id(a.s) = id  BY InterfaceUp
<1>3. CASE ~a.ok  BY <1>1, <1>2, <1>3, SameSettled
<1>4. CASE a.ok
  <2>1. id \in Ids  OBVIOUS
  <2> HIDE DEF id, Activate
  <2>2. PICK b \in wifi_create_profile(a.s, ssid) : IF b.ok THEN o \in Activate(b.s) ELSE o = b
    BY <1>1, <1>4 DEF Then
  <2>3. /\ b.s \in SupState /\ LinkKept(a.s, b.s) /\ b.s.saved = a.s.saved
        /\ FateKept(a.s, b.s, {id})
        /\ IF b.ok THEN b.s.nets[id].fate = "new" ELSE b.s.nets[id].fate \in {"none", "stuck"}
    BY <1>2, <2>1, CreateProfile
  <2>4. LinkKept(s, b.s) /\ b.s.saved = s.saved /\ FateKept(s, b.s, {id})
    <3>1. LinkKept(s, a.s) /\ a.s.saved = s.saved /\ FateKept(s, a.s, {})  BY <1>2 DEF Same
    <3>2. LinkKept(s, b.s)  BY <2>3, <3>1, LinkKeptTrans
    <3> QED BY <2>3, <3>1, <3>2 DEF FateKept
  <2>5. CASE ~b.ok
    <3>1. Isolates(s, b.s)  BY <2>3, <2>4, <2>5 DEF FateKept, Isolates
    <3>2. Clean(s.nets) /\ Clean(s.saved) => Clean(b.s.nets) /\ Clean(b.s.saved)
      BY <2>3, <2>4, <2>5 DEF FateKept, Clean
    <3> QED BY <2>2, <2>3, <2>4, <2>5, <3>1, <3>2 DEF Settled
  <2>6. CASE b.ok
    <3> HIDE DEF Undo
    <3>1. PICK c \in activate_profile(b.s, id, TRUE) :
             IF c.ok THEN o = c ELSE \E u \in Undo(c.s) : o = [ok |-> FALSE, s |-> u.s]
      BY <2>2, <2>6 DEF Activate, Rollback
    <3>2. b.s.nets[id].fate = "new"  BY <2>3, <2>6
    <3>3. IF c.ok
          THEN /\ c.s \in SupState /\ LinkKept(b.s, c.s) /\ FateKept(b.s, c.s, {id})
               /\ c.s.nets[id].fate = "active" /\ c.s.saved \in {b.s.saved, c.s.nets}
               /\ \A j \in Ids : c.s.nets[j].on <=> id = j
          ELSE Same(b.s, c.s)
      <4>1. b.s.nets[id].fate # "none"  BY <3>2
      <4> QED BY <2>1, <2>3, <4>1, ActivateProfile
    <3>4. CASE c.ok
      <4>1. /\ c.s \in SupState /\ LinkKept(b.s, c.s) /\ FateKept(b.s, c.s, {id})
            /\ c.s.nets[id].fate = "active" /\ c.s.saved \in {b.s.saved, c.s.nets}
            /\ \A j \in Ids : c.s.nets[j].on <=> id = j
        BY <3>3, <3>4
      <4>2. LinkKept(s, c.s)  BY <2>4, <4>1, LinkKeptTrans
      <4>3. \A i \in Ids \ {id} : c.s.nets[i].fate = s.nets[i].fate  BY <2>4, <4>1 DEF FateKept
      <4>4. Isolates(s, c.s)  BY <4>1, <4>3 DEF Isolates
      <4>5. Clean(s.nets) /\ Clean(s.saved) => Clean(c.s.nets) /\ Clean(c.s.saved)
        <5>1. Clean(s.nets) => Clean(c.s.nets)  BY <4>1, <4>3 DEF Clean
        <5> QED BY <2>4, <4>1, <5>1
      <4>6. o = c  BY <3>1, <3>4
      <4> QED BY <4>1, <4>2, <4>4, <4>5, <4>6 DEF Settled
    <3>5. CASE ~c.ok
      <4>1. PICK u \in Undo(c.s) : o = [ok |-> FALSE, s |-> u.s]  BY <3>1, <3>5
      <4>2. /\ c.s \in SupState /\ LinkKept(b.s, c.s) /\ c.s.saved = b.s.saved
            /\ FateKept(b.s, c.s, {})
        BY <3>3, <3>5 DEF Same
      <4>3. /\ LinkKept(s, c.s) /\ c.s.saved = s.saved /\ FateKept(s, c.s, {id})
            /\ c.s.nets[id].fate = "new"
        <5>1. LinkKept(s, c.s)  BY <2>4, <4>2, LinkKeptTrans
        <5> QED BY <2>1, <2>4, <3>2, <4>2, <5>1 DEF FateKept
      <4>4. PICK v \in wifi_remove_profile(c.s, id) : IF v.ok THEN u \in wifi_save_profiles(v.s) ELSE u = v
        BY <4>1 DEF Undo, Then
      <4>5. v.s \in SupState /\ Settled(s, v.s)
        <5>1. c.s.nets[id].fate \notin {"none", "active"}  BY <4>3
        <5> QED BY <2>1, <4>2, <4>3, <5>1, RemovedSettled
      <4>6. Settled(s, u.s)
        <5>1. CASE v.ok  BY <4>4, <4>5, <5>1, SavedSettled
        <5>2. CASE ~v.ok  BY <4>4, <4>5, <5>2
        <5> QED BY <5>1, <5>2
      <4>7. o.s = u.s  BY <4>1
      <4> QED BY <4>6, <4>7
    <3> QED BY <3>4, <3>5
  <2> QED BY <2>5, <2>6
<1> QED BY <1>3, <1>4

LEMMA ConnectSavedSettles ==
    ASSUME NEW s \in SupState, NEW ssid \in Ssids, NEW o \in connect_saved(s, ssid)
    PROVE  Settled(s, o.s)
<1> DEFINE Activate(b) == activate_profile(b, Min(Matching(b, ssid)), FALSE)
           Find(a) == Then(wifi_find_profile(a, ssid), LAMBDA b : Activate(b))
<1>1. PICK a \in wifi_ensure_interface_up(s) : IF a.ok THEN o \in Find(a.s) ELSE o = a
  BY DEF connect_saved, Then
<1>2. Same(s, a.s) /\ a.s \in SupState  BY InterfaceUp
<1>3. CASE ~a.ok  BY <1>1, <1>2, <1>3, SameSettled
<1>4. CASE a.ok
  <2> DEFINE id == Min(Matching(a.s, ssid))
  <2> HIDE DEF Activate
  <2>1. PICK b \in wifi_find_profile(a.s, ssid) : IF b.ok THEN o \in Activate(b.s) ELSE o = b
    BY <1>1, <1>4 DEF Then
  <2>2. /\ Same(a.s, b.s) /\ b.s \in SupState
        /\ b.ok => b.s = a.s /\ id \in Ids /\ a.s.nets[id].fate # "none"
    BY <1>2, FindProfile
  <2>3. CASE ~b.ok
    <3>1. Same(s, b.s)  BY <1>2, <2>2, SameTrans
    <3> QED BY <2>1, <2>3, <3>1, SameSettled
  <2>4. CASE b.ok
    <3>1. o \in activate_profile(a.s, id, FALSE)  BY <2>1, <2>2, <2>4 DEF Activate
    <3> HIDE DEF id
    <3>2. IF o.ok
          THEN /\ o.s \in SupState /\ LinkKept(a.s, o.s) /\ FateKept(a.s, o.s, {id})
               /\ o.s.nets[id].fate = "active" /\ o.s.saved \in {a.s.saved, o.s.nets}
               /\ \A j \in Ids : o.s.nets[j].on <=> id = j
          ELSE Same(a.s, o.s)
      BY <1>2, <2>2, <2>4, <3>1, ActivateProfile
    <3>3. CASE ~o.ok
      <4>1. Same(s, o.s)  BY <1>2, <3>2, <3>3, SameTrans
      <4> QED BY <4>1, SameSettled
    <3>4. CASE o.ok
      <4>1. /\ o.s \in SupState /\ LinkKept(a.s, o.s) /\ FateKept(a.s, o.s, {id})
            /\ o.s.nets[id].fate = "active" /\ o.s.saved \in {a.s.saved, o.s.nets}
            /\ \A j \in Ids : o.s.nets[j].on <=> id = j
        BY <3>2, <3>4
      <4>2. LinkKept(s, a.s) /\ a.s.saved = s.saved /\ FateKept(s, a.s, {})  BY <1>2 DEF Same
      <4>3. LinkKept(s, o.s)  BY <4>1, <4>2, LinkKeptTrans
      <4>4. \A i \in Ids \ {id} : o.s.nets[i].fate = s.nets[i].fate  BY <4>1, <4>2 DEF FateKept
      <4>5. Isolates(s, o.s)  BY <4>1, <4>4 DEF Isolates
      <4>6. Clean(s.nets) => Clean(o.s.nets)  BY <4>1, <4>4 DEF Clean
      <4> QED BY <4>1, <4>2, <4>3, <4>5, <4>6 DEF Settled
    <3> QED BY <3>3, <3>4
  <2> QED BY <2>3, <2>4
<1> QED BY <1>3, <1>4

LEMMA ForgetSettles ==
    ASSUME NEW s \in SupState, NEW ssid \in Ssids, NEW o \in forget(s, ssid)
    PROVE  Settled(s, o.s)
<1> DEFINE id == Min(Matching(s, ssid))
           Remove(a) == Then(wifi_remove_profile(a, Min(Matching(a, ssid))), wifi_save_profiles)
<1>1. PICK a \in wifi_find_profile(s, ssid) : IF a.ok THEN o \in Remove(a.s) ELSE o = a
  BY DEF forget, Then
<1>2. /\ Same(s, a.s) /\ a.s \in SupState
      /\ a.ok => a.s = s /\ id \in Ids /\ s.nets[id].fate # "none"
  BY FindProfile
<1>3. CASE ~a.ok  BY <1>1, <1>2, <1>3, SameSettled
<1>4. CASE a.ok
  <2>1. PICK v \in wifi_remove_profile(s, id) : IF v.ok THEN o \in wifi_save_profiles(v.s) ELSE o = v
    BY <1>1, <1>2, <1>4 DEF Then
  <2> HIDE DEF id
  <2>2. LinkKept(s, s) /\ FateKept(s, s, {id})  BY DEF LinkKept, FateKept
  <2>3. v.s \in SupState /\ Settled(s, v.s)  BY <1>2, <1>4, <2>2, RemovedSettled
  <2>4. CASE v.ok  BY <2>1, <2>3, <2>4, SavedSettled
  <2>5. CASE ~v.ok  BY <2>1, <2>3, <2>5
  <2> QED BY <2>4, <2>5
<1> QED BY <1>3, <1>4

LEMMA AutoconnectSettles ==
    ASSUME NEW s \in SupState, NEW ssid \in Ssids, NEW on \in BOOLEAN,
           NEW o \in set_autoconnect(s, ssid, on)
    PROVE  Settled(s, o.s)
<1> DEFINE id == Min(Matching(s, ssid))
           Set(a) == Then(wifi_set_profile_enabled(a, Min(Matching(a, ssid)), on), wifi_save_profiles)
<1>1. PICK a \in wifi_find_profile(s, ssid) : IF a.ok THEN o \in Set(a.s) ELSE o = a
  BY DEF set_autoconnect, Then
<1>2. /\ Same(s, a.s) /\ a.s \in SupState
      /\ a.ok => a.s = s /\ id \in Ids /\ s.nets[id].fate # "none"
  BY FindProfile
<1>3. CASE ~a.ok  BY <1>1, <1>2, <1>3, SameSettled
<1>4. CASE a.ok
  <2>1. PICK v \in wifi_set_profile_enabled(s, id, on) :
           IF v.ok THEN o \in wifi_save_profiles(v.s) ELSE o = v
    BY <1>1, <1>2, <1>4 DEF Then
  <2> HIDE DEF id
  <2>2. Same(s, v.s) /\ v.s \in SupState  BY <1>2, <1>4, SetProfileEnabled
  <2>3. Settled(s, v.s)  BY <2>2, SameSettled
  <2>4. CASE v.ok  BY <2>1, <2>2, <2>3, <2>4, SavedSettled
  <2>5. CASE ~v.ok  BY <2>1, <2>3, <2>5
  <2> QED BY <2>4, <2>5
<1> QED BY <1>3, <1>4

LEMMA SetEnabledSettles ==
    ASSUME NEW s \in SupState, NEW enabled \in BOOLEAN, NEW o \in wifi_set_enabled(s, enabled)
    PROVE  Settled(s, o.s) /\ Same(s, o.s) /\ o.ok \in BOOLEAN
<1>1. CASE enabled
  <2> DEFINE Reconnect(a) == Always(wpa_ok(a, RECONNECT(a)), Ok)
  <2>1. PICK a \in wifi_ensure_interface_up(s) : IF a.ok THEN o \in Reconnect(a.s) ELSE o = a
    BY <1>1 DEF wifi_set_enabled, Then
  <2>2. Same(s, a.s) /\ a.s \in SupState /\ a.ok \in BOOLEAN
    <3>1. a \in Ok([s EXCEPT !.up = TRUE]) \/ a \in Failed(s)  BY DEF wifi_ensure_interface_up
    <3>2. a.ok \in BOOLEAN  BY <3>1, OkFacts, FailedFacts
    <3> QED BY <3>2, InterfaceUp
  <2>3. CASE ~a.ok  BY <2>1, <2>2, <2>3, SameSettled
  <2>4. CASE a.ok
    <3>1. PICK b \in wpa_ok(a.s, RECONNECT(a.s)) : o \in Ok(b.s)
      BY <2>1, <2>4 DEF Always
    <3>2. Same(a.s, RECONNECT(a.s))  BY <2>2, Barring
    <3>3. Same(a.s, b.s)  BY <2>2, <3>1, <3>2, wpa_okFacts
    <3>4. Same(s, b.s)  BY <2>2, <3>3, SameTrans
    <3>5. o.s = b.s /\ o.ok = TRUE  BY <3>1, OkFacts
    <3> QED BY <3>4, <3>5, SameSettled
  <2> QED BY <2>3, <2>4
<1>2. CASE ~enabled
  <2>1. PICK a \in wifi_disconnect(s) : o \in Ok([Drop(a.s) EXCEPT !.up = FALSE]) \cup Failed(a.s)
    BY <1>2 DEF wifi_set_enabled, Always
  <2>2. Same(s, a.s) /\ a.s \in SupState  BY DisconnectFacts
  <2>3. Same(a.s, o.s) /\ o.ok \in BOOLEAN
    <3> DEFINE t == [Drop(a.s) EXCEPT !.up = FALSE]
    <3>1. Same(a.s, t)  BY <2>2, Barring
    <3> HIDE DEF t
    <3>2. CASE o \in Ok(t)  BY <3>1, <3>2, OkFacts
    <3>3. CASE o \in Failed(a.s)  BY <2>2, <3>3, FailedFacts
    <3> QED BY <2>1, <3>2, <3>3 DEF t
  <2>4. Same(s, o.s)  BY <2>2, <2>3, SameTrans
  <2> QED BY <2>3, <2>4, SameSettled
<1> QED BY <1>1, <1>2

-----------------------------------------------------------------------------
(* The inductive invariant: types, and only the monitor is in a connect. *)
CmdInv ==
    /\ TypeOK /\ ConnectorsAreL2
    /\ sup \in SupState /\ Clean(sup.nets) /\ Clean(sup.saved)
    /\ command \in {"none", "disconnect", "disable"} /\ excused \in BOOLEAN /\ changes \in Nat

LEMMA ConnectorsStep == TypeOK /\ ConnectorsAreL2 /\ [Next]_vars => ConnectorsAreL2'
<1> SUFFICES ASSUME TypeOK, ConnectorsAreL2, [Next]_vars PROVE ConnectorsAreL2'
  OBVIOUS
<1> USE DEF TypeOK, ConnectorsAreL2, Threads, ConnectPc, state_, Goto, ReleaseOperation
<1>1. CASE UNCHANGED vars
  BY <1>1 DEF vars
<1>2. ASSUME NEW t \in L2Threads, on_l2_connected(t) PROVE ConnectorsAreL2'
  BY <1>2 DEF on_l2_connected, ConnectedReserve, ConnectedAcquire, ConnectedCancel,
              ConnectedProceed, StartSucceeds, StartFails, ConnectedFailed, ConnectedStarted,
              AcquireOperation
<1>3. ASSUME NEW t \in Threads, MarkStopped(t) PROVE ConnectorsAreL2'
  BY <1>3 DEF MarkStopped
<1>4. ASSUME NEW t \in ControlThreads, reconcile_dhcp_process(t) PROVE ConnectorsAreL2'
  BY <1>4 DEF reconcile_dhcp_process, ReconcileCheck, ReconcileAcquire, ReconcileAlive,
              ReconcileDead, ReconcileMark, AcquireOperation
<1>5. ASSUME NEW t \in Threads, StopStep(t) PROVE ConnectorsAreL2'
  BY <1>5 DEF StopStep, StopAcquire, StopCall, AcquireOperation
<1>6. CASE ClientExits
  BY <1>6 DEF ClientExits
<1> QED
  BY <1>1, <1>2, <1>3, <1>4, <1>5, <1>6
     DEF Next, L2Step, ControlStep, on_l2_disconnected, stop_dhcp

\* Every step of the commands, the supplicant and the monitor is a step of
\* WifiManager or none of its business.
LEMMA ManagerStep == TypeOK /\ ConnectorsAreL2 /\ [CmdNext]_allvars => [Next]_vars
<1> SUFFICES ASSUME TypeOK, ConnectorsAreL2, CmdNext PROVE [Next]_vars
  BY DEF allvars
<1>1. CASE Commands
  <2>1. ASSUME NEW ssid \in Ssids, \/ wifi_connect(ssid) \/ wifi_connect_saved(ssid)
                                   \/ wifi_forget(ssid)
                                   \/ \E on \in BOOLEAN : wifi_set_autoconnect(ssid, on)
        PROVE  UNCHANGED vars
    BY <2>1 DEF wifi_connect, wifi_connect_saved, wifi_forget, wifi_set_autoconnect, Request
  <2>2. ASSUME wifi_enable PROVE UNCHANGED vars  BY <2>2 DEF wifi_enable, Request
  <2>3. ASSUME NEW t \in ControlThreads, StopFirst(t) \/ StopThen(t) \/ Tick(t) PROVE [Next]_vars
    BY <2>3 DEF StopFirst, StopThen, Tick, Next, ControlStep
  <2> QED BY <1>1, <2>1, <2>2, <2>3 DEF Commands
<1>2. ASSUME NEW t \in L2Threads, Deliver(t) \/ StatusFails(t) PROVE [Next]_vars
  BY <1>2 DEF Deliver, StatusFails, Next, L2Step, on_l2_connected
<1>3. ASSUME NEW t \in Threads, Continue(t) PROVE [Next]_vars
  <2>1. CASE StopStep(t)  BY <2>1 DEF Next
  <2>2. ASSUME \/ ConnectedAcquire(t) \/ ConnectedProceed(t) \/ StartSucceeds(t)
               \/ StartFails(t) \/ ConnectedFailed(t) \/ ConnectedStarted(t)
        PROVE  Next
    <3>1. pc[t] \in ConnectPc
      BY <2>2 DEF ConnectedAcquire, ConnectedProceed, StartSucceeds, StartFails,
                  ConnectedFailed, ConnectedStarted, AcquireOperation, Goto, ConnectPc
    <3>2. t \in L2Threads  BY <3>1 DEF ConnectorsAreL2
    <3>3. on_l2_connected(t)  BY <2>2 DEF on_l2_connected
    <3> QED BY <3>2, <3>3 DEF Next, L2Step
  <2> QED BY <1>3, <2>1, <2>2 DEF Continue
<1>4. ASSUME NEW i \in Ids, Associate(i) PROVE UNCHANGED vars
  BY <1>4 DEF Associate
<1>5. CASE LinkLost  BY <1>5 DEF LinkLost
<1>6. CASE SupplicantRestart  BY <1>6 DEF SupplicantRestart
<1>7. CASE ClientDies  BY <1>7 DEF ClientDies, Next
<1> QED BY <1>1, <1>2, <1>3, <1>4, <1>5, <1>6, <1>7 DEF CmdNext

LEMMA CmdInitially == CmdInit => CmdInv
<1> SUFFICES ASSUME CmdInit PROVE CmdInv  OBVIOUS
<1> DEFINE home == [ssid |-> Home, on |-> TRUE, fate |-> "active"]
           nets == [i \in Ids |-> IF i = 0 THEN home ELSE NoProfile]
<1>1. TypeOK /\ ConnectorsAreL2
  BY DEF CmdInit, Init, adopt_dhcp_running, TypeOK, ConnectorsAreL2, DhcpClientState, ConnectPc
<1>2. home \in Profile /\ home.fate # "new" /\ NoProfile.fate # "new"
  BY HomeAssumption DEF Profile, NoProfile
<1>3. PICK linked \in {NoId, 0} :
         sup = [nets |-> nets, saved |-> nets, up |-> TRUE, barred |-> FALSE,
                link |-> linked, news |-> <<"status">>, faults |-> MaxFaults]
  BY DEF CmdInit
<1> HIDE DEF home
<1>4. nets \in Nets /\ Clean(nets)  BY <1>2 DEF Nets, Clean
<1> HIDE DEF nets
<1>5. <<"status">> \in Seq(News)  BY SMTT(60) DEF News
<1>6. linked \in Ids \cup {NoId}  BY IdAssumption, SMTT(60) DEF Ids
<1>7. sup \in SupState /\ sup.nets = nets /\ sup.saved = nets
  BY <1>3, <1>4, <1>5, <1>6, BoundAssumption DEF SupState
<1> QED BY <1>1, <1>4, <1>7 DEF CmdInv, CmdInit

\* What a command leaves of the supplicant and the history.
LEMMA CommandStep ==
    ASSUME CmdInv, Commands
    PROVE  /\ Settled(sup, sup') /\ changes' = changes
           /\ excused' \in BOOLEAN /\ (excused => excused')
           /\ command' \in {"none", "disconnect", "disable"}
<1>0. sup \in SupState /\ excused \in BOOLEAN /\ command \in {"none", "disconnect", "disable"}
  BY DEF CmdInv
<1>1. Settled(sup, sup)  BY <1>0, SameSelf, SameSettled
<1>2. ASSUME NEW outs, Request(outs), \A o \in outs : Settled(sup, o.s)
      PROVE  Settled(sup, sup') /\ UNCHANGED <<command, excused, changes>>
  BY <1>2 DEF Request
<1>3. ASSUME NEW ssid \in Ssids, wifi_connect(ssid)
      PROVE  Settled(sup, sup') /\ UNCHANGED <<command, excused, changes>>
  <2>1. \A o \in connect_new(sup, ssid) : Settled(sup, o.s)
    BY <1>0, <1>3, ConnectNewSettles DEF wifi_connect
  <2> QED BY <1>2, <1>3, <2>1 DEF wifi_connect
<1>4. ASSUME NEW ssid \in Ssids, wifi_connect_saved(ssid)
      PROVE  Settled(sup, sup') /\ UNCHANGED <<command, excused, changes>>
  <2>1. \A o \in connect_saved(sup, ssid) : Settled(sup, o.s)  BY <1>0, ConnectSavedSettles
  <2> QED BY <1>2, <1>4, <2>1 DEF wifi_connect_saved
<1>5. ASSUME NEW ssid \in Ssids, wifi_forget(ssid)
      PROVE  Settled(sup, sup') /\ UNCHANGED <<command, excused, changes>>
  <2>1. \A o \in forget(sup, ssid) : Settled(sup, o.s)  BY <1>0, ForgetSettles
  <2> QED BY <1>2, <1>5, <2>1 DEF wifi_forget
<1>6. ASSUME NEW ssid \in Ssids, NEW on \in BOOLEAN, wifi_set_autoconnect(ssid, on)
      PROVE  Settled(sup, sup') /\ UNCHANGED <<command, excused, changes>>
  <2>1. \A o \in set_autoconnect(sup, ssid, on) : Settled(sup, o.s)  BY <1>0, AutoconnectSettles
  <2> QED BY <1>2, <1>6, <2>1 DEF wifi_set_autoconnect
<1>7. ASSUME wifi_enable
      PROVE  Settled(sup, sup') /\ UNCHANGED <<command, excused, changes>>
  <2>1. \A o \in wifi_set_enabled(sup, TRUE) : Settled(sup, o.s)  BY <1>0, SetEnabledSettles
  <2> QED BY <1>2, <1>7, <2>1 DEF wifi_enable
<1>8. ASSUME NEW t \in ControlThreads, StopFirst(t)
      PROVE  /\ UNCHANGED <<sup, excused, changes>> /\ command' \in {"none", "disconnect", "disable"}
  BY <1>8 DEF StopFirst
<1>9. ASSUME NEW t \in ControlThreads, StopThen(t)
      PROVE  /\ Settled(sup, sup') /\ changes' = changes /\ command' = "none"
             /\ excused' \in BOOLEAN /\ (excused => excused')
  <2>1. PICK o \in StopRequest : sup' = o.s /\ excused' = (excused \/ ~o.ok)
    BY <1>9 DEF StopThen
  <2>2. Settled(sup, o.s) /\ o.ok \in BOOLEAN
    <3>1. CASE command = "disconnect"
      <4>1. o \in wifi_disconnect(sup)  BY <2>1, <3>1 DEF StopRequest
      <4> QED BY <1>0, <4>1, DisconnectFacts, SameSettled
    <3>2. CASE command = "disable"
      <4>1. o \in wifi_set_enabled(sup, FALSE)  BY <2>1, <3>2 DEF StopRequest
      <4> QED BY <1>0, <4>1, SetEnabledSettles
    <3>3. command # "none"  BY <1>9 DEF StopThen
    <3> QED BY <1>0, <3>1, <3>2, <3>3
  <2> QED BY <1>0, <1>9, <2>1, <2>2 DEF StopThen
<1>10. ASSUME NEW t \in ControlThreads, Tick(t) PROVE UNCHANGED cvars
  BY <1>10 DEF Tick
<1> QED
  BY <1>0, <1>1, <1>3, <1>4, <1>5, <1>6, <1>7, <1>8, <1>9, <1>10 DEF Commands, cvars

\* What the monitor and the supplicant itself do to the supplicant's state.
LEMMA DeliverStep ==
    ASSUME CmdInv, NEW t \in L2Threads, Deliver(t) \/ StatusFails(t)
    PROVE  /\ sup.news # <<>> /\ sup' \in SupState /\ sup'.news = Tail(sup.news)
           /\ sup'.link = sup.link /\ sup'.nets = sup.nets /\ sup'.saved = sup.saved
           /\ UNCHANGED <<command, changes>> /\ excused' \in BOOLEAN
<1> DEFINE u == [sup EXCEPT !.news = Tail(sup.news)]
<1>1. sup \in SupState /\ excused \in BOOLEAN  BY DEF CmdInv
<1>2. sup.news # <<>>  BY DEF Deliver, StatusFails
<1>3. Tail(sup.news) \in Seq(News)  BY <1>1, <1>2, SupFacts, SMTT(60)
<1>4. u \in SupState  BY <1>1, <1>3, Updates
<1>5. /\ u.news = Tail(sup.news) /\ u.link = sup.link /\ u.nets = sup.nets /\ u.saved = sup.saved
  BY <1>1 DEF SupState
<1>6. CASE Deliver(t)
  <2>1. sup' = u /\ UNCHANGED <<command, changes>>  BY <1>6 DEF Deliver
  <2>2. excused' \in BOOLEAN  BY <1>1, <1>6 DEF Deliver
  <2> HIDE DEF u
  <2> QED BY <1>2, <1>4, <1>5, <2>1, <2>2
<1>7. CASE StatusFails(t)
  <2>1. PICK o \in Failed(u) : sup' = o.s  BY <1>7 DEF StatusFails
  <2>2. UNCHANGED <<command, changes>> /\ excused' = TRUE  BY <1>7 DEF StatusFails
  <2> HIDE DEF u
  <2>3. /\ o.s \in SupState /\ o.s.nets = u.nets /\ o.s.saved = u.saved
        /\ o.s.link = u.link /\ o.s.news = u.news
    BY <1>4, FailedFacts
  <2> QED BY <1>2, <1>5, <2>1, <2>2, <2>3
<1> QED BY <1>6, <1>7

LEMMA AssociateStep ==
    ASSUME CmdInv, NEW i \in Ids, Associate(i)
    PROVE  /\ sup' \in SupState /\ sup'.news = Append(sup.news, "up") /\ sup'.link = i
           /\ sup'.nets = sup.nets /\ sup'.saved = sup.saved
           /\ UNCHANGED <<command, excused>> /\ changes' = changes + 1
<1>1. sup \in SupState  BY DEF CmdInv
<1> DEFINE x == Append(sup.news, "up")
<1>2. x \in Seq(News)  BY <1>1, SupFacts, SMTT(60) DEF News
<1>3. sup' = [sup EXCEPT !.link = i, !.news = x]  BY DEF Associate
<1>4. UNCHANGED <<command, excused>> /\ changes' = changes + 1  BY DEF Associate
<1> HIDE DEF x
<1>5. [sup EXCEPT !.link = i, !.news = x] \in SupState
  <2>1. \A l \in Ids \cup {NoId}, y \in Seq(News) : [sup EXCEPT !.link = l, !.news = y] \in SupState
    BY <1>1, Updates
  <2> QED BY <1>2, <2>1
<1>6. sup'.news = x /\ sup'.link = i /\ sup'.nets = sup.nets /\ sup'.saved = sup.saved
  BY <1>1, <1>3 DEF SupState
<1> QED BY <1>3, <1>4, <1>5, <1>6 DEF x

LEMMA RestartStep ==
    ASSUME CmdInv, SupplicantRestart
    PROVE  /\ sup' \in SupState /\ sup'.news = <<"status">> /\ sup'.link = NoId
           /\ sup'.nets = sup.saved /\ sup'.saved = sup.saved
           /\ UNCHANGED <<command, excused>> /\ changes' = changes + 1
<1>1. sup \in SupState  BY DEF CmdInv
<1>2. <<"status">> \in Seq(News)  BY SMTT(60) DEF News
<1>3. sup' = [sup EXCEPT !.nets = sup.saved, !.link = NoId, !.barred = FALSE, !.news = <<"status">>]
  BY DEF SupplicantRestart
<1>4. \A x \in Nets, l \in Ids \cup {NoId}, b \in BOOLEAN, y \in Seq(News) :
         [sup EXCEPT !.nets = x, !.link = l, !.barred = b, !.news = y] \in SupState
  BY <1>1 DEF SupState
<1>5. sup' \in SupState  BY <1>1, <1>2, <1>3, <1>4, SupFacts, NoIdFacts
<1>6. /\ sup'.news = <<"status">> /\ sup'.link = NoId /\ sup'.nets = sup.saved
      /\ sup'.saved = sup.saved
  BY <1>1, <1>3 DEF SupState
<1> QED BY <1>5, <1>6 DEF SupplicantRestart

\* The four ways the supplicant's state may change.
Settles ==
    /\ Settled(sup, sup') /\ changes' = changes
    /\ excused' \in BOOLEAN /\ (excused => excused')
    /\ command' \in {"none", "disconnect", "disable"}
Monitors == \E t \in L2Threads : Deliver(t) \/ StatusFails(t)
Associates == \E i \in Ids : Associate(i)

LEMMA FourWays ==
    ASSUME CmdInv, [CmdNext]_allvars
    PROVE  Settles \/ Monitors \/ Associates \/ SupplicantRestart
<1>0. /\ sup \in SupState /\ excused \in BOOLEAN
      /\ command \in {"none", "disconnect", "disable"}
  BY DEF CmdInv
<1>1. UNCHANGED cvars => Settles
  BY <1>0, SameSelf, SameSettled, SMTT(60) DEF cvars, Settles
<1>2. CASE UNCHANGED allvars  BY <1>1, <1>2 DEF allvars, cvars
<1>3. CASE Commands  BY <1>3, CommandStep DEF Settles
<1>4. ASSUME NEW t \in Threads, Continue(t) PROVE Settles  BY <1>1, <1>4 DEF Continue
<1>5. CASE LinkLost
  <2>1. sup' = Drop(sup) /\ UNCHANGED <<command, excused, changes>>  BY <1>5 DEF LinkLost
  <2>2. Same(sup, sup')  BY <1>0, <2>1, DropFacts DEF Same, FateKept
  <2> QED BY <1>0, <2>1, <2>2, SameSettled DEF Settles
<1>6. CASE ClientDies  BY <1>1, <1>6 DEF ClientDies
<1> QED BY <1>2, <1>3, <1>4, <1>5, <1>6 DEF CmdNext, Monitors, Associates

LEMMA CmdStep == CmdInv /\ [CmdNext]_allvars => CmdInv'
<1> SUFFICES ASSUME CmdInv, [CmdNext]_allvars PROVE CmdInv'  OBVIOUS
<1>1. /\ TypeOK /\ ConnectorsAreL2 /\ sup \in SupState /\ Clean(sup.nets) /\ Clean(sup.saved)
      /\ changes \in Nat /\ excused \in BOOLEAN /\ command \in {"none", "disconnect", "disable"}
  BY DEF CmdInv
<1>2. TypeOK' /\ ConnectorsAreL2'  BY <1>1, ManagerStep, TypeStep, ConnectorsStep
<1>3. CASE Settles
  <2>1. sup' \in SupState /\ Clean(sup'.nets) /\ Clean(sup'.saved)
    BY <1>1, <1>3 DEF Settles, Settled
  <2> QED BY <1>1, <1>2, <1>3, <2>1 DEF CmdInv, Settles, Clean
<1>4. CASE Monitors
  <2>1. /\ sup' \in SupState /\ sup'.nets = sup.nets /\ sup'.saved = sup.saved
        /\ UNCHANGED <<command, changes>> /\ excused' \in BOOLEAN
    BY <1>4, DeliverStep DEF Monitors
  <2> QED BY <1>1, <1>2, <2>1 DEF CmdInv, Clean
<1>5. CASE Associates
  <2>1. /\ sup' \in SupState /\ sup'.nets = sup.nets /\ sup'.saved = sup.saved
        /\ UNCHANGED <<command, excused>> /\ changes' = changes + 1
    BY <1>5, AssociateStep DEF Associates
  <2> QED BY <1>1, <1>2, <2>1, SMTT(60) DEF CmdInv, Clean
<1>6. CASE SupplicantRestart
  <2>1. /\ sup' \in SupState /\ sup'.nets = sup.saved /\ sup'.saved = sup.saved
        /\ UNCHANGED <<command, excused>> /\ changes' = changes + 1
    BY <1>6, RestartStep
  <2> QED BY <1>1, <1>2, <2>1, SMTT(60) DEF CmdInv, Clean
<1> QED BY <1>3, <1>4, <1>5, <1>6, FourWays

-----------------------------------------------------------------------------
(* The theorems. *)
LEMMA CmdInvariance == CmdSpec => []CmdInv
BY CmdInitially, CmdStep, PTL DEF CmdSpec

\* The whole Wi-Fi side uses WifiManager as its own specification allows: the
\* reactor's commands and tick, the monitor's events and the client's exits are, in
\* any interleaving, a behaviour of WifiManager.  So whatever is proved of
\* wifi_manager.cpp for arbitrary callers holds inside network_daemon.cpp.
THEOREM DaemonUsesManager == CmdSpec => Spec
<1>1. CmdInit => Init  BY DEF CmdInit
<1>2. CmdInv /\ [CmdNext]_allvars => [Next]_vars  BY ManagerStep DEF CmdInv
<1> QED BY <1>1, <1>2, CmdInvariance, PTL DEF CmdSpec, Spec

\* The supplicant's networks and saved networks, the link and the command in
\* progress keep their types, whatever requests of wifi_backend.cpp fail.
THEOREM CommandTypes == CmdSpec => []CmdTypeOK
<1>1. CmdInv => CmdTypeOK
  <2> SUFFICES ASSUME CmdInv PROVE CmdTypeOK  OBVIOUS
  <2>1. sup \in SupState  BY DEF CmdInv
  <2>2. /\ sup.nets \in Nets /\ sup.saved \in Nets /\ sup.link \in Ids \cup {NoId}
        /\ sup.up \in BOOLEAN /\ sup.barred \in BOOLEAN /\ sup.faults \in Nat
    BY <2>1, SupFacts
  <2> QED BY <2>2 DEF CmdInv, CmdTypeOK, Nets
<1> QED BY <1>1, CmdInvariance, PTL

\* No profile of connect_new or create_profile is left neither activated nor
\* removed, at runtime or in the saved configuration, whichever of their requests
\* fail or time out and however the supplicant restarts in between.
THEOREM NoProfileLeaks == CmdSpec => []NoTransientProfile
<1>1. CmdInv => NoTransientProfile  BY DEF CmdInv, NoTransientProfile, Clean
<1> QED BY <1>1, CmdInvariance, PTL

\* A profile that activate_profile activated is enabled and the only one, although
\* disabling the others first is best effort and its result ignored.
THEOREM ActivationIsolates == CmdSpec => ConnectIsolates
<1> DEFINE Isolating ==
      \A i \in Ids : sup'.nets[i].fate = "active" /\ sup.nets[i].fate # "active"
                     /\ changes' = changes
         => \A j \in Ids : sup'.nets[j].on <=> i = j
<1>1. CmdInv /\ [CmdNext]_allvars => [Isolating]_allvars
  <2> SUFFICES ASSUME CmdInv, [CmdNext]_allvars PROVE Isolating  OBVIOUS
  <2>1. CASE Settles  BY <2>1 DEF Settles, Settled, Isolates
  <2>2. CASE Monitors
    <3>1. sup'.nets = sup.nets  BY <2>2, DeliverStep DEF Monitors
    <3> QED BY <3>1
  <2>3. CASE Associates
    <3>1. sup'.nets = sup.nets  BY <2>3, AssociateStep DEF Associates
    <3> QED BY <3>1
  <2>4. CASE SupplicantRestart
    <3>1. changes \in Nat /\ changes' = changes + 1  BY <2>4, RestartStep DEF CmdInv
    <3> QED BY <3>1, SMTT(60)
  <2> QED BY <2>1, <2>2, <2>3, <2>4, FourWays
<1>2. CmdSpec => [][Isolating]_allvars  BY <1>1, CmdInvariance, PTL DEF CmdSpec
<1> QED BY <1>2 DEF ConnectIsolates

-----------------------------------------------------------------------------
(* No client without a link. *)
\* The monitor knows of the link what it has read; the rest is still to be read.
LinkInv ==
    /\ dhcp_state_active(dhcp_state)
          => l2_connected \/ excused \/ (sup.news # <<>> /\ sup.news[1] = "status")
    /\ sup.link = NoId /\ l2_connected /\ ~excused => sup.news # <<>>
    /\ sup.link = NoId /\ sup.news # <<>> => sup.news[Len(sup.news)] # "up"

LEMMA ManagerKeeps ==
    ASSUME CmdNext \/ UNCHANGED allvars
    PROVE  \/ Monitors
           \/ /\ l2_connected' = l2_connected
              /\ dhcp_state_active(dhcp_state') => dhcp_state_active(dhcp_state) \/ l2_connected
<1> USE DEF dhcp_state_active, state_, Goto, ReleaseOperation
<1>1. UNCHANGED vars => l2_connected' = l2_connected /\ dhcp_state' = dhcp_state
  BY DEF vars
<1>2. CASE UNCHANGED allvars  BY <1>1, <1>2 DEF allvars
<1>3. ASSUME NEW ssid \in Ssids, \/ wifi_connect(ssid) \/ wifi_connect_saved(ssid)
                                 \/ wifi_forget(ssid)
                                 \/ \E on \in BOOLEAN : wifi_set_autoconnect(ssid, on)
      PROVE  UNCHANGED vars
  BY <1>3 DEF wifi_connect, wifi_connect_saved, wifi_forget, wifi_set_autoconnect, Request
<1>4. ASSUME wifi_enable PROVE UNCHANGED vars  BY <1>4 DEF wifi_enable, Request
<1>5. ASSUME NEW t \in ControlThreads, StopFirst(t)
      PROVE  l2_connected' = l2_connected /\ dhcp_state' = "Idle"
  BY <1>5 DEF StopFirst, stop_dhcp, MarkStopped
<1>6. ASSUME NEW t \in ControlThreads, StopThen(t) PROVE UNCHANGED vars
  BY <1>6 DEF StopThen
<1>7. ASSUME NEW t \in ControlThreads, Tick(t)
      PROVE  l2_connected' = l2_connected /\ dhcp_state' \in {dhcp_state, "Failed"}
  BY <1>7 DEF Tick, reconcile_dhcp_process, ReconcileCheck, ReconcileAcquire, ReconcileAlive,
              ReconcileDead, ReconcileMark, AcquireOperation
<1>8. ASSUME NEW t \in Threads, Continue(t)
      PROVE  /\ l2_connected' = l2_connected
             /\ dhcp_state' \in {dhcp_state, "Failed", "Idle"} \/ l2_connected
  <2>1. CASE ConnectedAcquire(t)  BY <2>1 DEF ConnectedAcquire, AcquireOperation
  <2>2. CASE ConnectedProceed(t)  BY <2>2 DEF ConnectedProceed
  <2>3. CASE StartSucceeds(t)  BY <2>3 DEF StartSucceeds
  <2>4. CASE StartFails(t)  BY <2>4 DEF StartFails
  <2>5. CASE ConnectedFailed(t)  BY <2>5 DEF ConnectedFailed
  <2>6. CASE ConnectedStarted(t)  BY <2>6 DEF ConnectedStarted
  <2>7. CASE StopStep(t)  BY <2>7 DEF StopStep, StopAcquire, StopCall, AcquireOperation
  <2> QED BY <1>8, <2>1, <2>2, <2>3, <2>4, <2>5, <2>6, <2>7 DEF Continue
<1>9. ASSUME NEW i \in Ids, Associate(i) PROVE UNCHANGED vars
  BY <1>9 DEF Associate
<1>10. LinkLost \/ SupplicantRestart => UNCHANGED vars  BY DEF LinkLost, SupplicantRestart
<1>11. ClientDies => l2_connected' = l2_connected /\ dhcp_state' = dhcp_state
  BY DEF ClientDies, ClientExits
<1> QED
  BY <1>1, <1>2, <1>3, <1>4, <1>5, <1>6, <1>7, <1>8, <1>9, <1>10, <1>11
     DEF CmdNext, Commands, Monitors

LEMMA QueueFacts ==
    ASSUME NEW n \in Seq(News)
    PROVE  /\ \A e \in News : /\ Append(n, e) # <<>> /\ Append(n, e)[Len(Append(n, e))] = e
                              /\ n # <<>> => Append(n, e)[1] = n[1]
           /\ n # <<>> => /\ Tail(n) # <<>> => Tail(n)[Len(Tail(n))] = n[Len(n)]
                          /\ Tail(n) = <<>> => n[Len(n)] = Head(n)
<1>1. ASSUME NEW e \in News
      PROVE  /\ Append(n, e) # <<>> /\ Append(n, e)[Len(Append(n, e))] = e
             /\ n # <<>> => Append(n, e)[1] = n[1]
  <2>1. /\ Len(Append(n, e)) = Len(n) + 1 /\ Append(n, e)[Len(n) + 1] = e
        /\ n # <<>> => Len(n) >= 1
        /\ \A i \in 1..Len(n) : Append(n, e)[i] = n[i]
    BY SMTT(60)
  <2>2. Len(n) \in Nat /\ Len(<<>>) = 0  BY SMTT(60)
  <2> DEFINE a == Append(n, e)
             z == <<>>
  <2>3. Len(a) = Len(n) + 1 /\ Len(z) = 0  BY <2>1, <2>2
  <2> HIDE DEF a, z
  <2>4. a # z  BY <2>2, <2>3, SMTT(60)
  <2>5. a # <<>>  BY <2>4 DEF z
  <2>6. n # <<>> => a[1] = n[1]  BY <2>1, <2>2, SMTT(60) DEF a
  <2> QED BY <2>1, <2>5, <2>6 DEF a
<1>2. ASSUME n # <<>> PROVE /\ Tail(n) # <<>> => Tail(n)[Len(Tail(n))] = n[Len(n)]
                           /\ Tail(n) = <<>> => n[Len(n)] = Head(n)
  <2>1. /\ Len(n) \in Nat /\ Len(n) >= 1 /\ Len(Tail(n)) = Len(n) - 1 /\ Head(n) = n[1]
        /\ \A i \in 1..(Len(n) - 1) : Tail(n)[i] = n[i + 1]
        /\ Tail(n) \in Seq(News)
    BY <1>2, SMTT(60)
  <2>2. Tail(n) # <<>> => Len(Tail(n)) >= 1  BY <2>1, SMTT(60)
  <2>3. Tail(n) = <<>> => Len(Tail(n)) = 0
    <3> DEFINE b == Tail(n)
    <3>1. Len(<<>>) = 0  OBVIOUS
    <3> HIDE DEF b
    <3>2. b = <<>> => Len(b) = 0  BY <3>1
    <3> QED BY <3>2 DEF b
  <2> QED BY <2>1, <2>2, <2>3, SMTT(60)
<1> QED BY <1>1, <1>2, SMTT(60)

LEMMA LinkStep == CmdInv /\ LinkInv /\ [CmdNext]_allvars => LinkInv'
<1> SUFFICES ASSUME CmdInv, LinkInv, [CmdNext]_allvars PROVE LinkInv'  OBVIOUS
<1> DEFINE n == sup.news
<1>1. n \in Seq(News) /\ sup \in SupState  BY SupFacts DEF CmdInv
<1>2. CASE Monitors
  <2>1. PICK t \in L2Threads : Deliver(t) \/ StatusFails(t)  BY <1>2 DEF Monitors
  <2>2. n # <<>> /\ sup'.news = Tail(n) /\ sup'.link = sup.link  BY <2>1, DeliverStep
  <2>3. Tail(n) # <<>> => Tail(n)[Len(Tail(n))] = n[Len(n)]  BY <1>1, <2>2, QueueFacts
  <2>4. Tail(n) = <<>> => n[Len(n)] = Head(n)  BY <1>1, <2>2, QueueFacts
  <2>5. sup'.link = NoId /\ sup'.news # <<>> => sup'.news[Len(sup'.news)] # "up"
    BY <2>2, <2>3 DEF LinkInv
  <2>6. CASE Deliver(t) /\ (Says(TRUE) \/ StatusSays(TRUE)) /\ ConnectedReserve(t)
    <3>1. l2_connected'  BY <2>6 DEF ConnectedReserve
    <3>2. sup.link = NoId => Head(n) = "up"  BY <2>6 DEF Says, StatusSays
    <3>3. sup'.link = NoId => sup'.news # <<>>  BY <2>2, <2>4, <3>2 DEF LinkInv
    <3> QED BY <2>5, <3>1, <3>3 DEF LinkInv
  <2>7. CASE Deliver(t) /\ (Says(FALSE) \/ StatusSays(FALSE)) /\ on_l2_disconnected(t)
    <3>1. ~l2_connected' /\ dhcp_state' = "Idle"  BY <2>7 DEF on_l2_disconnected, MarkStopped
    <3> QED BY <2>5, <3>1 DEF LinkInv, dhcp_state_active
  <2>8. CASE StatusFails(t)
    <3>1. excused'  BY <2>8 DEF StatusFails
    <3> QED BY <2>5, <3>1 DEF LinkInv
  <2> QED BY <2>1, <2>6, <2>7, <2>8 DEF Deliver
<1>3. CASE ~Monitors
  <2>1. /\ l2_connected' = l2_connected
        /\ dhcp_state_active(dhcp_state') => dhcp_state_active(dhcp_state) \/ l2_connected
    BY <1>3, ManagerKeeps
  <2>2. CASE Settles
    <3>1. LinkKept(sup, sup') /\ (excused => excused') /\ excused' \in BOOLEAN
      BY <2>2 DEF Settles, Settled
    <3>2. CASE sup'.link = sup.link /\ sup'.news = sup.news
      BY <2>1, <3>1, <3>2 DEF LinkInv
    <3>3. CASE sup'.link = NoId /\ sup'.news = Append(n, "down")
      <4>1. /\ Append(n, "down") # <<>> /\ Append(n, "down")[Len(Append(n, "down"))] = "down"
            /\ n # <<>> => Append(n, "down")[1] = n[1]
        <5>1. "down" \in News  BY DEF News
        <5> QED BY <1>1, <5>1, QueueFacts
      <4> QED BY <2>1, <3>1, <3>3, <4>1 DEF LinkInv
    <3> QED BY <3>1, <3>2, <3>3 DEF LinkKept
  <2>3. CASE Associates
    <3>1. PICK i \in Ids : Associate(i)  BY <2>3 DEF Associates
    <3>2. sup'.news = Append(n, "up") /\ sup'.link = i /\ excused' = excused
      BY <3>1, AssociateStep
    <3>3. Append(n, "up") # <<>> /\ (n # <<>> => Append(n, "up")[1] = n[1])
      <4>1. "up" \in News  BY DEF News
      <4> QED BY <1>1, <4>1, QueueFacts
    <3> QED BY <2>1, <3>2, <3>3, NoIdFacts DEF LinkInv
  <2>4. CASE SupplicantRestart
    <3>1. sup'.news = <<"status">>  BY <2>4, RestartStep
    <3>2. <<"status">> # <<>> /\ <<"status">>[1] = "status" /\ Len(<<"status">>) = 1  OBVIOUS
    <3> QED BY <3>1, <3>2 DEF LinkInv
  <2> QED BY <1>3, <2>2, <2>3, <2>4, FourWays
<1> QED BY <1>2, <1>3

\* No DHCP client outlives the link: in the daemon's thread model, one WPA monitor,
\* when all calls have returned and all events are read and the link is down, no
\* client of the service runs, unless a stop command told its caller it failed or
\* STATUS was not readable.  Adopted clients are included, and a stop command that
\* races a start in progress.
THEOREM NoClientOutlivesLink ==
    ASSUME NEW m, L2Threads = {m}
    PROVE  CmdSpec => []NoClientWithoutLink
<1>1. CmdInit => LinkInv
  <2> SUFFICES ASSUME CmdInit PROVE LinkInv  OBVIOUS
  <2>1. sup.news = <<"status">> /\ ~l2_connected  BY SMTT(60) DEF CmdInit, Init
  <2>2. <<"status">> # <<>> /\ <<"status">>[1] = "status" /\ Len(<<"status">>) = 1  OBVIOUS
  <2> QED BY <2>1, <2>2 DEF LinkInv
<1>2. CmdSpec => []LinkInv  BY <1>1, LinkStep, CmdInvariance, PTL DEF CmdSpec
<1>3. Spec => []NoOrphanClient  BY NoOrphanInProduction
<1>4. LinkInv /\ NoOrphanClient => NoClientWithoutLink
  <2> SUFFICES ASSUME LinkInv, NoOrphanClient, Quiet, sup.link = NoId, running, ~excused
               PROVE  FALSE
    BY DEF NoClientWithoutLink
  <2>1. \A t \in Threads : pc[t] \notin StopPc \cup {"conn_ok"}  BY DEF Quiet, StopPc
  <2>2. dhcp_state_active(dhcp_state)  BY <2>1 DEF NoOrphanClient, Pending
  <2> QED BY <2>2 DEF LinkInv, Quiet
<1> QED BY <1>2, <1>3, <1>4, DaemonUsesManager, PTL
=============================================================================
