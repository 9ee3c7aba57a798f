----------------------------- MODULE WifiManager -----------------------------
(***************************************************************************)
(* WifiManager (src/src/service/wifi_manager.cpp): the Wi-Fi L2-to-DHCP    *)
(* lifecycle.  Several threads call it.  lock_ protects the state fields   *)
(* and is never held across another acquisition or a callback, so a        *)
(* lock_-guarded block is one step.  operation_lock_ is held across the    *)
(* DHCP mechanism calls, so its acquisition and each call are steps.       *)
(*                                                                         *)
(* In production L2Threads is the one WPA monitor thread and               *)
(* ControlThreads the one reactor thread.                                  *)
(***************************************************************************)
EXTENDS Naturals

CONSTANTS
    L2Threads,       \* callers of on_l2_connected / on_l2_disconnected
    ControlThreads,  \* callers of stop_dhcp / reconcile_dhcp_process
    NoThread         \* operation_lock_ is free

Threads == L2Threads \cup ControlThreads

ASSUME ThreadAssumption == NoThread \notin Threads

VARIABLES
    l2_connected,    \* state_.l2_connected
    dhcp_state,      \* state_.dhcp_state
    failure_reason,  \* state_.failure_reason: which text is stored
    operation_lock,  \* holder of operation_lock_
    running,         \* UdhcpcProcess::is_running: the owned client is alive
    pc,              \* where each thread is inside a WifiManager call
    intent           \* history: the last lifecycle request any caller made

state_ == <<l2_connected, dhcp_state, failure_reason>>
vars == <<l2_connected, dhcp_state, failure_reason, operation_lock, running,
          pc, intent>>

DhcpClientState == {"Idle", "Starting", "Running", "Failed"}
ConnectPc == {"conn_wait", "conn_check", "conn_start", "conn_ok", "conn_failed"}
StopPc    == {"stop_wait", "stop_call"}
ReconcilePc == {"rec_wait", "rec_probe", "rec_mark"}
\* The places where a thread holds operation_lock_.
Holding == {"conn_check", "conn_start", "conn_ok", "conn_failed",
            "stop_call", "rec_probe", "rec_mark"}

\* Types of the fields (one type invariant for the module).
TypeOK ==
    /\ l2_connected \in BOOLEAN
    /\ dhcp_state \in DhcpClientState
    /\ failure_reason \in {"none", "dhcp_start_failed", "dhcp_process_exited"}
    /\ operation_lock \in Threads \cup {NoThread}
    /\ running \in BOOLEAN
    /\ pc \in [Threads -> {"idle"} \cup ConnectPc \cup StopPc \cup ReconcilePc]
    /\ intent \in {"none", "start", "stop"}

dhcp_state_active(s) == s \in {"Starting", "Running"}

(***************************************************************************)
(* Construction: a fresh manager, or one that imported a live client with  *)
(* adopt_dhcp_running before the monitor thread exists.                    *)
(***************************************************************************)
adopt_dhcp_running(adopted) ==
    /\ dhcp_state = IF adopted THEN "Running" ELSE "Idle"
    /\ running = adopted

Init ==
    /\ l2_connected = FALSE
    /\ failure_reason = "none"
    /\ \E adopted \in BOOLEAN : adopt_dhcp_running(adopted)
    /\ operation_lock = NoThread
    /\ pc = [t \in Threads |-> "idle"]
    /\ intent = "none"

-----------------------------------------------------------------------------
Goto(t, from, to) == pc[t] = from /\ pc' = [pc EXCEPT ![t] = to]

AcquireOperation(t, from, to) ==
    /\ operation_lock = NoThread
    /\ Goto(t, from, to)
    /\ operation_lock' = t
    /\ UNCHANGED <<state_, running, intent>>

ReleaseOperation == operation_lock' = NoThread

(***************************************************************************)
(* on_l2_connected.                                                        *)
(***************************************************************************)
\* Mutant: a new start does not clear the reason of the last failure.
ConnectedReserve_KeepReason(t) ==
    /\ pc[t] = "idle"
    /\ l2_connected' = TRUE
    /\ intent' = "start"
    /\ IF dhcp_state_active(dhcp_state)
       THEN UNCHANGED <<dhcp_state, pc>>
       ELSE /\ dhcp_state' = "Starting"
            /\ Goto(t, "idle", "conn_wait")
    /\ UNCHANGED <<failure_reason, operation_lock, running>>

ConnectedReserve(t) ==
    /\ pc[t] = "idle"
    /\ l2_connected' = TRUE
    /\ failure_reason' = "none"
    /\ intent' = "start"
    /\ IF dhcp_state_active(dhcp_state)
       THEN UNCHANGED <<dhcp_state, pc>>
       ELSE /\ dhcp_state' = "Starting"
            /\ Goto(t, "idle", "conn_wait")
    /\ UNCHANGED <<operation_lock, running>>

ConnectedAcquire(t) == AcquireOperation(t, "conn_wait", "conn_check")

\* The link may have disconnected while the operation waited.
ConnectedCancel(t) ==
    /\ ~l2_connected
    /\ Goto(t, "conn_check", "idle")
    /\ dhcp_state' = "Idle"
    /\ ReleaseOperation
    /\ UNCHANGED <<l2_connected, failure_reason, running, intent>>

ConnectedProceed(t) ==
    /\ l2_connected
    /\ Goto(t, "conn_check", "conn_start")
    /\ UNCHANGED <<state_, operation_lock, running, intent>>

\* dhcp_start_ succeeded: NetworkControlPlane::start_dhcp returned true, which
\* UdhcpcProcess::start does only after it saw the owned client run.
StartSucceeds(t) ==
    /\ Goto(t, "conn_start", "conn_ok")
    /\ running' = TRUE
    /\ UNCHANGED <<state_, operation_lock, intent>>

\* dhcp_start_ failed: before the old client was stopped (the owned route could
\* not be removed), or after.
StartFails(t) ==
    /\ Goto(t, "conn_start", "conn_failed")
    /\ running' \in {running, FALSE}
    /\ UNCHANGED <<state_, operation_lock, intent>>

ConnectedFailed(t) ==
    /\ Goto(t, "conn_failed", "idle")
    /\ dhcp_state' = "Failed"
    /\ failure_reason' = "dhcp_start_failed"
    /\ ReleaseOperation
    /\ UNCHANGED <<l2_connected, running, intent>>

ConnectedStarted(t) ==
    /\ Goto(t, "conn_ok", "idle")
    /\ dhcp_state' = IF l2_connected THEN "Running" ELSE "Idle"
    /\ ReleaseOperation
    /\ UNCHANGED <<l2_connected, failure_reason, running, intent>>

on_l2_connected(t) ==
    \/ ConnectedReserve(t) \/ ConnectedAcquire(t)
    \/ ConnectedCancel(t)  \/ ConnectedProceed(t)
    \/ StartSucceeds(t)    \/ StartFails(t)
    \/ ConnectedFailed(t)  \/ ConnectedStarted(t)

(***************************************************************************)
(* on_l2_disconnected and stop_dhcp: the state block decides whether a     *)
(* stop is owed, the stop itself runs later under operation_lock_.         *)
(***************************************************************************)
\* Mutant: should_stop is computed after dhcp_state was overwritten.
MarkStopped_Late(t) ==
    /\ pc[t] = "idle"
    /\ dhcp_state' = "Idle"
    /\ failure_reason' = "none"
    /\ intent' = "stop"
    /\ pc' = IF dhcp_state_active(dhcp_state') THEN [pc EXCEPT ![t] = "stop_wait"] ELSE pc
    /\ UNCHANGED <<operation_lock, running>>

MarkStopped(t) ==
    /\ pc[t] = "idle"
    /\ dhcp_state' = "Idle"
    /\ failure_reason' = "none"
    /\ intent' = "stop"
    /\ pc' = IF dhcp_state_active(dhcp_state) THEN [pc EXCEPT ![t] = "stop_wait"] ELSE pc
    /\ UNCHANGED <<operation_lock, running>>

on_l2_disconnected(t) == MarkStopped(t) /\ l2_connected' = FALSE

stop_dhcp(t) == MarkStopped(t) /\ UNCHANGED l2_connected

StopAcquire(t) == AcquireOperation(t, "stop_wait", "stop_call")

\* Mutant: the serialized stop returns without calling dhcp_stop_.
StopCall_Skipped(t) ==
    /\ Goto(t, "stop_call", "idle")
    /\ ReleaseOperation
    /\ UNCHANGED <<running, state_, intent>>

\* dhcp_stop_: NetworkControlPlane::stop_dhcp stops the client and clears its
\* generation, after which no client is owned.
StopCall(t) ==
    /\ Goto(t, "stop_call", "idle")
    /\ running' = FALSE
    /\ ReleaseOperation
    /\ UNCHANGED <<state_, intent>>

(***************************************************************************)
(* reconcile_dhcp_process, called by the reactor on every 250 ms tick.     *)
(***************************************************************************)
ReconcileCheck(t) ==
    /\ dhcp_state = "Running"
    /\ Goto(t, "idle", "rec_wait")
    /\ UNCHANGED <<state_, operation_lock, running, intent>>

ReconcileAcquire(t) == AcquireOperation(t, "rec_wait", "rec_probe")

ReconcileAlive(t) ==
    /\ running
    /\ Goto(t, "rec_probe", "idle")
    /\ ReleaseOperation
    /\ UNCHANGED <<state_, running, intent>>

ReconcileDead(t) ==
    /\ ~running
    /\ Goto(t, "rec_probe", "rec_mark")
    /\ UNCHANGED <<state_, operation_lock, running, intent>>

\* Mutant: the cancelled lifecycle is not rechecked before Failed is published.
ReconcileMark_NoRecheck(t) ==
    /\ Goto(t, "rec_mark", "idle")
    /\ dhcp_state' = "Failed" /\ failure_reason' = "dhcp_process_exited"
    /\ ReleaseOperation
    /\ UNCHANGED <<l2_connected, running, intent>>

\* Mutant: the exit is recorded as a reason but the state stays Running.
ReconcileMark_ReasonOnly(t) ==
    /\ Goto(t, "rec_mark", "idle")
    /\ failure_reason' = IF dhcp_state = "Running" THEN "dhcp_process_exited"
                                                   ELSE failure_reason
    /\ ReleaseOperation
    /\ UNCHANGED <<dhcp_state, l2_connected, running, intent>>

ReconcileMark(t) ==
    /\ Goto(t, "rec_mark", "idle")
    /\ IF dhcp_state = "Running"
       THEN dhcp_state' = "Failed" /\ failure_reason' = "dhcp_process_exited"
       ELSE UNCHANGED <<dhcp_state, failure_reason>>
    /\ ReleaseOperation
    /\ UNCHANGED <<l2_connected, running, intent>>

reconcile_dhcp_process(t) ==
    \/ ReconcileCheck(t) \/ ReconcileAcquire(t)
    \/ ReconcileAlive(t) \/ ReconcileDead(t) \/ ReconcileMark(t)

\* The environment: udhcpc exits by itself (no lease after its retries, a crash).
ClientExits ==
    /\ running
    /\ running' = FALSE
    /\ UNCHANGED <<state_, operation_lock, pc, intent>>

L2Step(t) == on_l2_connected(t) \/ on_l2_disconnected(t)
ControlStep(t) == stop_dhcp(t) \/ reconcile_dhcp_process(t)
StopStep(t) == StopAcquire(t) \/ StopCall(t)

Next ==
    \/ \E t \in L2Threads : L2Step(t)
    \/ \E t \in ControlThreads : ControlStep(t)
    \/ \E t \in Threads : StopStep(t)
    \/ ClientExits

Spec == Init /\ [][Next]_vars

-----------------------------------------------------------------------------
(* Properties *)

Pending(places) == \E t \in Threads : pc[t] \in places

\* The DHCP mechanism calls are serialized: the threads inside a mechanism
\* section are exactly the holder of operation_lock_, so no two start, stop or
\* inspect the client at once (wifi_manager.h, comment on operation_lock_).
MechanismSerialized ==
    \A t \in Threads : pc[t] \in Holding <=> operation_lock = t

\* Starting is never left behind: while the state says Starting, some thread is
\* still inside the on_l2_connected call that will replace it.  Otherwise every
\* later CONNECTED would return early and DHCP would never start again.
StartingIsOwned == dhcp_state = "Starting" => Pending(ConnectPc)

\* No orphan client: a DHCP client that runs while the lifecycle is Idle or
\* Failed has a thread that is about to stop it or is starting it just now.
NoOrphanClient ==
    running /\ ~dhcp_state_active(dhcp_state)
        => Pending(StopPc \cup {"conn_ok"})

\* The reason shown belongs to the state shown with it: a lifecycle carries a
\* failure_reason exactly when it is Failed, although a start, a stop and a probe
\* that overtake each other each write the two fields in critical sections of
\* their own, and a start that succeeds (:57-65) does not touch the reason.
FailureExplained == dhcp_state = "Failed" <=> failure_reason # "none"

\* Process-exit verdicts are never stale: reconcile_dhcp_process publishes
\* dhcp_process_exited only for a lifecycle that is still Running and whose
\* client is dead at that moment, although probe and publication are two steps.
ExitVerdict ==
    [][failure_reason' = "dhcp_process_exited" /\ failure_reason # "dhcp_process_exited"
         => dhcp_state = "Running" /\ dhcp_state' = "Failed" /\ ~running]_vars

\* A client that died under a Running lifecycle is noticed (the lifecycle leaves
\* Running) unless a client runs again first: no dead client is believed forever.
DeadClientNoticed ==
    (dhcp_state = "Running" /\ ~running) ~> (dhcp_state # "Running" \/ running)

\* What wifi_manager.cpp:58-60 and wifi_manager_test.cpp:61 say of an explicit
\* stop: once every call has returned and the last request was a stop, the
\* lifecycle is Idle, unless the start it met failed by itself, and no client runs.
ExplicitStopLeavesIdle ==
    (\A t \in Threads : pc[t] = "idle") /\ intent = "stop"
        => (dhcp_state = "Idle" \/ failure_reason = "dhcp_start_failed") /\ ~running
=============================================================================
