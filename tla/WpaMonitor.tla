----------------------------- MODULE WpaMonitor -----------------------------
(***************************************************************************)
(* WpaEventMonitor (src/src/platform/wpa_event_monitor.cpp) with its       *)
(* control client: a thread that attaches to wpa_supplicant, asks for the  *)
(* current STATUS on a second socket, and then applies the queued events   *)
(* to a snapshot and reports link changes to WifiManager.                  *)
(*                                                                         *)
(* wpa_supplicant, outside the repository, is a link phase and a radio     *)
(* that scans; each change emits an event, queued while the monitor is     *)
(* attached and lost otherwise.  ASSOCIATING stands for every phase in     *)
(* which a connection is being made, REJECT for every failure event.  A    *)
(* scan is numbered by the request it serves, 0 for one of the             *)
(* supplicant's own.                                                       *)
(***************************************************************************)
EXTENDS Integers, Sequences

CONSTANTS
    MaxLinkEvents,  \* bound: link changes of the supplicant
    MaxOwnScans,    \* bound: scans the supplicant starts on its own
    MaxFaults,      \* bound: lost channels, failed requests and failed scans
    MaxQueue        \* bound: events waiting on the attached socket

ASSUME BoundAssumption ==
    /\ MaxLinkEvents \in Nat /\ MaxOwnScans \in Nat /\ MaxFaults \in Nat
    /\ MaxQueue \in Nat

NoScan == -1
Phases == {"DISCONNECTED", "ASSOCIATING", "COMPLETED"}
LinkEvents == {"DISCONNECTED", "TRYING", "CONNECTED", "REJECT"}
ScanEvents == {"SCAN-STARTED", "SCAN-RESULTS", "SCAN-FAILED"}
L2States == {"Disconnected", "Associating", "Connected", "Failed", "Unknown"}

\* wpa_state of a STATUS reply; Unknown when the reply has none.
l2_state_for_status(word) ==
    CASE word = "COMPLETED" -> "Connected"
      [] word = "ASSOCIATING" -> "Associating"
      [] word = "DISCONNECTED" -> "Disconnected"
      [] OTHER -> "Unknown"

\* Scan events leave the link state as it is.
l2_state_for_event(type, old) ==
    CASE type = "TRYING" -> "Associating"
      [] type = "CONNECTED" -> "Connected"
      [] type = "DISCONNECTED" -> "Disconnected"
      [] type = "REJECT" -> "Failed"
      [] OTHER -> old

failure_reason_for_event(type) == IF type = "REJECT" THEN "reject" ELSE "none"

VARIABLES
    phase,     \* the supplicant's link phase
    radio,     \* the supplicant's scans: pending and running
    channel,   \* the attached socket: "closed", "attached" or "broken"
    queue,     \* events waiting on it
    mon,       \* the monitor thread: program counter and STATUS reply
    snapshot,  \* snapshot_
    told,      \* history: the last link_state_handler_ call
    recent,    \* history: link states the supplicant had since the last ATTACH
    credit,    \* history: the scan behind last_scan_result_sequence
    budget     \* bounds left

mvars == <<phase, radio, channel, queue, mon, snapshot, told, recent, credit, budget>>

NoSnapshot == [event_sequence |-> 0, started |-> 0, failed |-> 0, completed |-> 0,
               attached |-> FALSE, l2_state |-> "Unknown", failure_reason |-> "none",
               scan_active |-> FALSE]

MonInit ==
    /\ phase \in Phases
    /\ radio = [pending |-> NoScan, running |-> NoScan]
    /\ channel = "closed" /\ queue = <<>>
    /\ mon = [pc |-> "open", reply |-> "none"]
    /\ snapshot = NoSnapshot
    /\ told = "nothing"
    /\ recent = {} /\ credit = NoScan
    /\ budget = [link |-> MaxLinkEvents, scan |-> MaxOwnScans, fault |-> MaxFaults]

-----------------------------------------------------------------------------
(* wpa_supplicant. *)
Fault == budget.fault > 0 /\ budget' = [budget EXCEPT !.fault = @ - 1]

Emit(type, scan) ==
    /\ Len(queue) < MaxQueue
    /\ queue' = IF channel = "attached" THEN Append(queue, [type |-> type, scan |-> scan])
                                        ELSE queue

\* A failed attempt leaves the link disconnected.
Announces(p) ==
    CASE p = "ASSOCIATING" -> {"TRYING"}
      [] p = "COMPLETED" -> {"CONNECTED"}
      [] OTHER -> IF phase = "ASSOCIATING" THEN {"DISCONNECTED", "REJECT"} ELSE {"DISCONNECTED"}

LinkChange ==
    /\ budget.link > 0
    /\ budget' = [budget EXCEPT !.link = @ - 1]
    /\ \E p \in Phases \ {phase} : \E e \in Announces(p) :
         /\ p = "COMPLETED" => phase = "ASSOCIATING"
         /\ phase' = p
         /\ recent' = recent \cup {l2_state_for_status(p), l2_state_for_event(e, "Unknown")}
         /\ Emit(e, NoScan)
    /\ UNCHANGED <<radio, channel, mon, snapshot, told, credit>>

ScanStart ==
    /\ radio.running = NoScan
    /\ \/ /\ radio.pending # NoScan
          /\ radio' = [pending |-> NoScan, running |-> radio.pending]
          /\ UNCHANGED budget
       \/ /\ radio.pending = NoScan /\ budget.scan > 0
          /\ radio' = [radio EXCEPT !.running = 0]
          /\ budget' = [budget EXCEPT !.scan = @ - 1]
    /\ Emit("SCAN-STARTED", radio'.running)
    /\ UNCHANGED <<phase, channel, mon, snapshot, told, recent, credit>>

ScanEnd ==
    /\ radio.running # NoScan
    /\ radio' = [radio EXCEPT !.running = NoScan]
    /\ \/ Emit("SCAN-RESULTS", radio.running) /\ UNCHANGED budget
       \/ Emit("SCAN-FAILED", radio.running) /\ Fault
    /\ UNCHANGED <<phase, channel, mon, snapshot, told, recent, credit>>

ChannelLost ==
    /\ channel = "attached"
    /\ channel' = "broken" /\ queue' = <<>>
    /\ Fault
    /\ UNCHANGED <<phase, radio, mon, snapshot, told, recent, credit>>

-----------------------------------------------------------------------------
(* The monitor thread. *)
bump_sequence(snap) == [snap EXCEPT !.event_sequence = @ + 1]

\* Mutant: the last observed link state survives the channel.
mark_channel_unavailable_Keep(snap) == [snap EXCEPT !.attached = FALSE, !.scan_active = FALSE]

\* Mutant: a lost channel starts over with an empty snapshot.
mark_channel_unavailable_Reset(snap) == NoSnapshot

mark_channel_unavailable(snap) ==
    LET down == [snap EXCEPT !.attached = FALSE, !.l2_state = "Unknown",
                             !.scan_active = FALSE, !.failure_reason = "none"]
    IN  IF down = snap THEN snap ELSE bump_sequence(down)

\* open and attach: events queue from here on.
OpenAttach ==
    /\ mon.pc = "open"
    /\ \/ /\ channel' = "attached" /\ queue' = <<>>
          /\ mon' = [mon EXCEPT !.pc = "status"]
          /\ recent' = {l2_state_for_status(phase)}
          /\ UNCHANGED <<snapshot, budget>>
       \/ /\ Fault
          /\ snapshot' = mark_channel_unavailable(snapshot)
          /\ UNCHANGED <<channel, queue, mon, recent>>
    /\ UNCHANGED <<phase, radio, told, credit>>

\* The STATUS reply, read on a socket of its own; none if the request fails.
RequestStatus ==
    /\ mon.pc = "status"
    /\ \/ mon' = [pc |-> "apply", reply |-> phase] /\ UNCHANGED budget
       \/ mon' = [pc |-> "apply", reply |-> "none"] /\ Fault
    /\ UNCHANGED <<phase, radio, channel, queue, snapshot, told, recent, credit>>

\* Also the branch of run() without a reply, which shows Unknown.
apply_status(snap, word) ==
    bump_sequence([snap EXCEPT !.attached = TRUE, !.failure_reason = "none",
                               !.l2_state = l2_state_for_status(word)])

\* Mutant: events queued before the status is applied are thrown away as older.
ApplyStatus_Flush ==
    /\ mon.pc = "apply"
    /\ snapshot' = apply_status(snapshot, mon.reply)
    /\ told' = CASE snapshot'.l2_state = "Unknown" -> told
                 [] snapshot'.l2_state = "Connected" -> "up"
                 [] OTHER -> "down"
    /\ mon' = [pc |-> "poll", reply |-> "none"]
    /\ queue' = <<>>
    /\ UNCHANGED <<phase, radio, channel, recent, credit, budget>>

ApplyStatus ==
    /\ mon.pc = "apply"
    /\ snapshot' = apply_status(snapshot, mon.reply)
    /\ told' = CASE snapshot'.l2_state = "Unknown" -> told
                 [] snapshot'.l2_state = "Connected" -> "up"
                 [] OTHER -> "down"
    /\ mon' = [pc |-> "poll", reply |-> "none"]
    /\ UNCHANGED <<phase, radio, channel, queue, recent, credit, budget>>

\* While the link is Failed every other event, a scan's included, replaces the
\* reason by its own, which is empty ("none") unless the event is a failure.
update_event(snap, e) ==
    LET a == bump_sequence([snap EXCEPT !.l2_state = l2_state_for_event(e.type, @)])
        n == a.event_sequence
        b == CASE e.type = "SCAN-STARTED" -> [a EXCEPT !.scan_active = TRUE, !.started = n]
               [] e.type = "SCAN-RESULTS" -> [a EXCEPT !.scan_active = FALSE, !.completed = n]
               [] e.type = "SCAN-FAILED"  -> [a EXCEPT !.scan_active = FALSE, !.failed = n]
               [] OTHER -> a
    IN  CASE e.type = "CONNECTED" -> [b EXCEPT !.failure_reason = "none"]
          [] e.type # "CONNECTED" /\ b.l2_state = "Failed" ->
                [b EXCEPT !.failure_reason = failure_reason_for_event(e.type)]
          [] OTHER -> b

Receive ==
    /\ mon.pc = "poll" /\ channel = "attached" /\ queue # <<>>
    /\ LET e == Head(queue)
       IN  /\ snapshot' = update_event(snapshot, e)
           /\ told' = CASE e.type = "CONNECTED" -> "up"
                        [] e.type = "DISCONNECTED" -> "down"
                        [] OTHER -> told
           /\ credit' = IF e.type = "SCAN-RESULTS" THEN e.scan ELSE credit
    /\ queue' = Tail(queue)
    /\ UNCHANGED <<phase, radio, channel, mon, recent, budget>>

\* Mutant: the broken channel is closed and polled again.
LeavePoll_Stay ==
    /\ mon.pc = "poll" /\ channel = "broken"
    /\ snapshot' = mark_channel_unavailable(snapshot)
    /\ channel' = "closed"
    /\ UNCHANGED <<phase, radio, mon, queue, told, recent, credit, budget>>

LeavePoll ==
    /\ mon.pc = "poll" /\ channel = "broken"
    /\ snapshot' = mark_channel_unavailable(snapshot)
    /\ channel' = "closed"
    /\ mon' = [mon EXCEPT !.pc = "open"]
    /\ UNCHANGED <<phase, radio, queue, told, recent, credit, budget>>

Monitor == OpenAttach \/ RequestStatus \/ ApplyStatus \/ Receive \/ LeavePoll
Supplicant == LinkChange \/ ScanStart \/ ScanEnd \/ ChannelLost

-----------------------------------------------------------------------------
(* Properties *)
\* The snapshot's link state is a view of the supplicant's phase.
Agrees ==
    \/ snapshot.l2_state = l2_state_for_status(phase)
    \/ phase = "DISCONNECTED" /\ snapshot.l2_state = "Failed"

\* No lost transition: an attached monitor that has read all its events shows the
\* supplicant's present phase, unless STATUS gave none; and where it shows Connected
\* or Disconnected, the two states it reports, WifiManager was last told the same.
\* ATTACH before STATUS, and events after it, make this so.
InSync ==
    mon.pc = "poll" /\ channel = "attached" /\ queue = <<>> /\ snapshot.l2_state # "Unknown" =>
        /\ Agrees
        /\ snapshot.l2_state = "Connected" => told = "up"
        /\ snapshot.l2_state = "Disconnected" => told = "down"

\* No stale truth (comment at wpa_event_monitor.cpp:162-164): once the channel's
\* loss is noticed, the snapshot shows no link state of before the last ATTACH.
ShownIsRecent ==
    snapshot.l2_state # "Unknown" => snapshot.attached /\ snapshot.l2_state \in recent

\* The monitor recovers: again and again it is attached and shows the phase the
\* link is in, or nothing if STATUS failed.
MonitorRecovers ==
    []<>(snapshot.attached /\ (Agrees \/ snapshot.l2_state = "Unknown"))
=============================================================================
