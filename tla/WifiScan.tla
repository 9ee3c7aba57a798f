------------------------------ MODULE WifiScan ------------------------------
(***************************************************************************)
(* WifiScanLifecycle (src/src/service/wifi_scan_lifecycle.cpp), called by  *)
(* the reactor for wifi.scan.start and wifi.scan.status, over the markers  *)
(* the monitor thread keeps in its snapshot.  The lifecycle reads the      *)
(* markers once per call; the monitor runs in between, also between the    *)
(* baseline of start and its SCAN command.                                 *)
(***************************************************************************)
EXTENDS WpaMonitor

CONSTANTS
    MaxScans,      \* bound: scans requested
    PromptStart    \* assumed: a scan that the lifecycle gives up on has reported its start

ASSUME ScanAssumption == MaxScans \in Nat /\ PromptStart \in BOOLEAN

VARIABLES
    scan,          \* scan_id_, state_, baseline_.sequence; busy inside start()
    timed_out,     \* history: the scans given up by the deadline
    ready_by       \* history: the scan whose completion made the lifecycle Ready

svars == <<scan, timed_out, ready_by>>
vars  == <<mvars, svars>>

Init ==
    /\ MonInit
    /\ scan = [id |-> 0, state |-> "Idle", baseline |-> 0, busy |-> FALSE]
    /\ timed_out = {} /\ ready_by = NoScan

\* Mutant: the fence of the previous scan stays in force.
start_OldBaseline ==
    /\ ~scan.busy /\ scan.state # "Scanning" /\ scan.id < MaxScans
    /\ scan' = [scan EXCEPT !.id = @ + 1, !.state = "Scanning", !.busy = TRUE]
    /\ UNCHANGED <<timed_out, ready_by, mvars>>

\* start() up to the baseline; a scan in progress is returned as it is.
start ==
    /\ ~scan.busy /\ scan.state # "Scanning" /\ scan.id < MaxScans
    /\ scan' = [id |-> scan.id + 1, state |-> "Scanning",
                baseline |-> snapshot.event_sequence, busy |-> TRUE]
    /\ UNCHANGED <<timed_out, ready_by, mvars>>

\* start_fn_: interface up and SCAN.  The supplicant may refuse, or it may
\* accept with its reply coming too late.
start_fn ==
    /\ scan.busy
    /\ \E accepted, answered \in BOOLEAN :
         /\ radio' = IF accepted THEN [radio EXCEPT !.pending = scan.id] ELSE radio
         /\ scan' = [scan EXCEPT !.busy = FALSE,
                                 !.state = IF accepted /\ answered THEN @ ELSE "Failed"]
         /\ IF accepted /\ answered THEN UNCHANGED budget ELSE Fault
    /\ UNCHANGED <<timed_out, ready_by, phase, channel, queue, mon, snapshot, told, recent,
                   credit>>

current_scan_started == snapshot.started > scan.baseline

StartReported ==
    /\ radio.pending # scan.id
    /\ \A i \in DOMAIN queue : queue[i] # [type |-> "SCAN-STARTED", scan |-> scan.id]

failed_event == snapshot.failed > snapshot.started /\ snapshot.failed > snapshot.completed
completed_event == snapshot.completed > snapshot.started

\* poll(), called by wifi.scan.status: the failure marker first, then the
\* completion marker with the SCAN_RESULTS request, then the clock.
poll ==
    /\ ~scan.busy /\ scan.state = "Scanning"
    /\ \/ /\ current_scan_started /\ failed_event
          /\ scan' = [scan EXCEPT !.state = "Failed"]
          /\ UNCHANGED <<timed_out, ready_by, budget>>
       \/ /\ current_scan_started /\ ~failed_event /\ completed_event
          /\ \E read \in BOOLEAN :
               /\ scan' = [scan EXCEPT !.state = IF read THEN "Ready" ELSE "Failed"]
               /\ ready_by' = IF read THEN credit ELSE ready_by
               /\ IF read THEN UNCHANGED budget ELSE Fault
          /\ UNCHANGED timed_out
       \/ /\ ~(current_scan_started /\ (failed_event \/ completed_event))
          /\ PromptStart => StartReported
          /\ scan' = [scan EXCEPT !.state = "Failed"]
          /\ timed_out' = timed_out \cup {scan.id}
          /\ UNCHANGED <<ready_by, budget>>
    /\ UNCHANGED <<phase, radio, channel, queue, mon, snapshot, told, recent, credit>>

Lifecycle == start \/ start_fn \/ poll

Next ==
    \/ (Supplicant \/ Monitor) /\ UNCHANGED svars
    \/ Lifecycle

\* The monitor thread runs; its retries recur.
Spec == Init /\ [][Next]_vars /\ WF_vars(Monitor /\ UNCHANGED svars)

-----------------------------------------------------------------------------
(* Properties *)
\* Types of the fields.  event_sequence only counts up, over a lost channel and a
\* new ATTACH too: no marker, and no baseline a start() took from it, is ahead.
TypeOK ==
    /\ phase \in Phases
    /\ radio \in [pending : NoScan .. MaxScans, running : NoScan .. MaxScans]
    /\ channel \in {"closed", "attached", "broken"}
    /\ queue \in Seq([type : LinkEvents \cup ScanEvents, scan : NoScan .. MaxScans])
    /\ mon \in [pc : {"open", "status", "apply", "poll"}, reply : Phases \cup {"none"}]
    /\ snapshot \in [attached : BOOLEAN, l2_state : L2States,
                     failure_reason : {"none", "reject"}, scan_active : BOOLEAN,
                     event_sequence : Nat, started : Nat, completed : Nat, failed : Nat]
    /\ {snapshot.started, snapshot.completed, snapshot.failed, scan.baseline}
          \subseteq 0 .. snapshot.event_sequence
    /\ told \in {"nothing", "up", "down"}
    /\ scan \in [id : 0 .. MaxScans, state : {"Idle", "Scanning", "Ready", "Failed"},
                 baseline : Nat, busy : BOOLEAN]
    /\ timed_out \subseteq 1 .. MaxScans /\ ready_by \in NoScan .. MaxScans

\* The generation fence (WIFI_SCAN_LIFECYCLE_V1.md:56): the lifecycle is never
\* made Ready by the late result of a scan that an earlier start asked for and
\* that timed out.
GenerationFence == scan.state = "Ready" => ready_by \notin timed_out
=============================================================================
