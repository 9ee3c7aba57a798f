--------------------------- MODULE WifiScanProofs ---------------------------
(***************************************************************************)
(* Proofs about WpaMonitor and WifiScan for every bound: the snapshot      *)
(* agrees with the supplicant once the queue is read, it shows no link     *)
(* state of before the last ATTACH, and, when scans report their start in  *)
(* time (PromptStart), a scan that timed out never completes a later one.  *)
(***************************************************************************)
EXTENDS WifiScan, SequenceTheorems, TLAPS

\* Time limits of the leaves that name no prover.
USE SMTT(60), ZenonT(60)

Event == [type : LinkEvents \cup ScanEvents, scan : NoScan .. MaxScans]
Snapshot == [attached : BOOLEAN, l2_state : L2States,
             failure_reason : {"none", "reject"}, scan_active : BOOLEAN,
             event_sequence : Nat, started : Nat, completed : Nat, failed : Nat]

IsNews(e) == e.type \in LinkEvents
NoNews == \A i \in DOMAIN queue : ~IsNews(queue[i])
LastNews(i) == IsNews(queue[i]) /\ \A j \in DOMAIN queue : j > i => ~IsNews(queue[j])

\* The link event of type was caused by the change to the present phase.
Tells(type) ==
    \/ type = "TRYING" /\ phase = "ASSOCIATING"
    \/ type = "CONNECTED" /\ phase = "COMPLETED"
    \/ type \in {"DISCONNECTED", "REJECT"} /\ phase = "DISCONNECTED"

\* TypeOK with the history variables and the order of the markers.
Typed ==
    /\ phase \in Phases
    /\ radio \in [pending : NoScan .. MaxScans, running : NoScan .. MaxScans]
    /\ channel \in {"closed", "attached", "broken"}
    /\ queue \in Seq(Event)
    /\ mon \in [pc : {"open", "status", "apply", "poll"}, reply : Phases \cup {"none"}]
    /\ snapshot \in Snapshot /\ snapshot.started <= snapshot.event_sequence
    /\ snapshot.completed <= snapshot.event_sequence
    /\ snapshot.failed <= snapshot.event_sequence /\ scan.baseline <= snapshot.event_sequence
    /\ told \in {"nothing", "up", "down"} /\ credit \in NoScan .. MaxScans
    /\ budget \in [link : Nat, scan : Nat, fault : Nat]
    /\ scan \in [id : 0 .. MaxScans, state : {"Idle", "Scanning", "Ready", "Failed"},
                 baseline : Nat, busy : BOOLEAN]
    /\ scan.state = "Scanning" => scan.id > 0
    /\ timed_out \subseteq 1 .. MaxScans /\ ready_by \in NoScan .. MaxScans

\* Where the thread is decides what the socket and the snapshot can hold.
Placed ==
    /\ mon.pc = "open" => channel = "closed"
    /\ mon.pc # "open" => channel # "closed"
    /\ channel # "attached" => queue = <<>>
    /\ mon.pc = "poll" => snapshot.attached
    /\ mon.pc # "poll" => snapshot.l2_state = "Unknown"

\* Nothing older than the last ATTACH is waiting, read or shown.
Recent ==
    /\ mon.pc # "open" => l2_state_for_status(phase) \in recent
    /\ \A i \in DOMAIN queue :
          IsNews(queue[i]) => l2_state_for_event(queue[i].type, "Unknown") \in recent
    /\ mon.pc = "apply" /\ mon.reply # "none" => l2_state_for_status(mon.reply) \in recent
    /\ mon.pc = "poll" /\ snapshot.l2_state # "Unknown" => snapshot.l2_state \in recent

\* The last link event that waits tells the phase; when none waits, the reply or
\* the snapshot already does.
Synced ==
    channel = "attached" =>
        /\ \A i \in DOMAIN queue : LastNews(i) => Tells(queue[i].type)
        /\ NoNews /\ mon.pc = "apply" => mon.reply \in {phase, "none"}
        /\ NoNews /\ mon.pc = "poll" /\ snapshot.l2_state # "Unknown" =>
              /\ Agrees
              /\ snapshot.l2_state = "Connected" => told = "up"
              /\ snapshot.l2_state = "Disconnected" => told = "down"

MonInv == Typed /\ Placed /\ Recent /\ Synced

Started(s) == [type |-> "SCAN-STARTED", scan |-> s]
IsStart(e) == e.type = "SCAN-STARTED"
IsEnd(e) == e.type \in {"SCAN-RESULTS", "SCAN-FAILED"}

\* The radio serves one scan at a time: in the queue, the last start before the
\* end of a scan, and the last start of all while a scan runs, is its own.
Ordered ==
    /\ \A i, j \in DOMAIN queue : j < i /\ IsStart(queue[j]) /\ IsEnd(queue[i]) =>
          \E k \in DOMAIN queue : j <= k /\ k < i /\ queue[k] = Started(queue[i].scan)
    /\ radio.running # NoScan => \A j \in DOMAIN queue : IsStart(queue[j]) =>
          \E k \in DOMAIN queue : j <= k /\ queue[k] = Started(radio.running)

\* Scans that timed out are old: they are not pending, and their start is not
\* waiting to be read.
Aged ==
    /\ timed_out \subseteq 1 .. scan.id
    /\ scan.state = "Scanning" => scan.id \notin timed_out
    /\ scan.busy => scan.state = "Scanning"
    /\ radio.pending \notin timed_out
    /\ \A i \in DOMAIN queue : IsStart(queue[i]) => queue[i].scan \notin timed_out

\* Once a start is read after the baseline, no old scan can end any more.
Fenced ==
    scan.state = "Scanning" /\ current_scan_started =>
        /\ radio.running \notin timed_out
        /\ \A i \in DOMAIN queue : IsEnd(queue[i]) => queue[i].scan \notin timed_out
        /\ completed_event => credit \notin timed_out

ScanInv == Typed /\ Placed /\ Ordered /\ Aged /\ Fenced /\ GenerationFence

-----------------------------------------------------------------------------
(* The operators on snapshots. *)
LEMMA Bumped ==
    ASSUME NEW s \in Snapshot
    PROVE  /\ bump_sequence(s) \in Snapshot
           /\ bump_sequence(s) = [s EXCEPT !.event_sequence = s.event_sequence + 1]
<1>1. s.event_sequence + 1 \in Nat  BY DEF Snapshot
<1> QED BY <1>1 DEF Snapshot, bump_sequence

\* A lost channel takes the link state with it and leaves the scan markers.
LEMMA Unavailable ==
    ASSUME NEW s \in Snapshot
    PROVE  LET t == mark_channel_unavailable(s)
           IN  /\ t \in Snapshot
               /\ ~t.attached /\ t.l2_state = "Unknown"
               /\ t.started = s.started /\ t.completed = s.completed
               /\ t.failed = s.failed
               /\ t.event_sequence >= s.event_sequence
<1> DEFINE down == [s EXCEPT !.attached = FALSE, !.l2_state = "Unknown",
                             !.scan_active = FALSE, !.failure_reason = "none"]
<1>1. down \in Snapshot
  BY ZenonT(60) DEF Snapshot, L2States
<1>2. /\ ~down.attached /\ down.l2_state = "Unknown"
      /\ down.started = s.started /\ down.completed = s.completed
      /\ down.failed = s.failed
      /\ down.event_sequence = s.event_sequence
  BY DEF Snapshot
<1>3. mark_channel_unavailable(s) \in {down, bump_sequence(down)}
  BY DEF mark_channel_unavailable
<1> HIDE DEF down
<1>4. /\ bump_sequence(down) \in Snapshot
      /\ bump_sequence(down) = [down EXCEPT !.event_sequence = down.event_sequence + 1]
  BY <1>1, Bumped
<1>5. down.event_sequence \in Nat /\ s.event_sequence \in Nat
  BY <1>1 DEF Snapshot
<1> QED BY <1>1, <1>2, <1>3, <1>4, <1>5 DEF Snapshot

\* STATUS shows the phase of its reply, or Unknown without one.
LEMMA StatusShown ==
    ASSUME NEW s \in Snapshot, NEW word \in Phases \cup {"none"}
    PROVE  LET t == apply_status(s, word)
           IN  /\ t \in Snapshot
               /\ t.attached /\ t.l2_state = l2_state_for_status(word)
               /\ t.started = s.started /\ t.completed = s.completed
               /\ t.failed = s.failed
               /\ t.event_sequence = s.event_sequence + 1
<1> DEFINE l == l2_state_for_status(word)
           a == [s EXCEPT !.attached = TRUE, !.failure_reason = "none", !.l2_state = l]
<1>1. l \in L2States
  BY DEF l2_state_for_status, Phases, L2States
<1> HIDE DEF l
<1>2. /\ a \in Snapshot /\ a.attached /\ a.l2_state = l
      /\ a.started = s.started /\ a.completed = s.completed
      /\ a.failed = s.failed
      /\ a.event_sequence = s.event_sequence
  BY <1>1, ZenonT(60) DEF Snapshot
<1>3. apply_status(s, word) = bump_sequence(a)
  BY DEF apply_status, l
<1> HIDE DEF a
<1>4. /\ bump_sequence(a) \in Snapshot
      /\ bump_sequence(a) = [a EXCEPT !.event_sequence = a.event_sequence + 1]
  BY <1>2, Bumped
<1> QED BY <1>2, <1>3, <1>4 DEF Snapshot, l

\* An event moves the link state and at most the one marker of its type.
LEMMA EventShown ==
    ASSUME NEW s \in Snapshot, NEW e \in Event
    PROVE  LET t == update_event(s, e)
               n == s.event_sequence + 1
           IN  /\ t \in Snapshot
               /\ t.attached = s.attached
               /\ t.l2_state = l2_state_for_event(e.type, s.l2_state)
               /\ t.event_sequence = n
               /\ t.started = IF e.type = "SCAN-STARTED" THEN n ELSE s.started
               /\ t.completed = IF e.type = "SCAN-RESULTS" THEN n ELSE s.completed
               /\ t.failed = IF e.type = "SCAN-FAILED" THEN n ELSE s.failed
<1> DEFINE l == l2_state_for_event(e.type, s.l2_state)
           z == [s EXCEPT !.l2_state = l]
           a == bump_sequence(z)
           n == a.event_sequence
           b == CASE e.type = "SCAN-STARTED" -> [a EXCEPT !.scan_active = TRUE, !.started = n]
                  [] e.type = "SCAN-RESULTS" -> [a EXCEPT !.scan_active = FALSE, !.completed = n]
                  [] e.type = "SCAN-FAILED"  -> [a EXCEPT !.scan_active = FALSE, !.failed = n]
                  [] OTHER -> a
           t == CASE e.type = "CONNECTED" -> [b EXCEPT !.failure_reason = "none"]
                  [] e.type # "CONNECTED" /\ b.l2_state = "Failed" ->
                        [b EXCEPT !.failure_reason = failure_reason_for_event(e.type)]
                  [] OTHER -> b
<1>1. update_event(s, e) = t
  BY ZenonT(60) DEF update_event
<1>2. l \in L2States
  BY DEF l2_state_for_event, Snapshot, L2States
<1> HIDE DEF l
<1>3. /\ z \in Snapshot /\ z.l2_state = l
      /\ z.started = s.started /\ z.completed = s.completed
      /\ z.failed = s.failed
      /\ z.event_sequence = s.event_sequence /\ z.attached = s.attached
  BY <1>2 DEF Snapshot
<1> HIDE DEF z
<1>4. a \in Snapshot /\ a = [z EXCEPT !.event_sequence = z.event_sequence + 1]
  BY <1>3, Bumped
<1> HIDE DEF a
<1>5. /\ a \in Snapshot /\ a.l2_state = l
      /\ a.started = s.started /\ a.completed = s.completed
      /\ a.failed = s.failed
      /\ n = s.event_sequence + 1 /\ n \in Nat /\ a.attached = s.attached
  BY <1>3, <1>4 DEF Snapshot
<1>6. /\ b \in Snapshot /\ b.attached = a.attached /\ b.l2_state = a.l2_state
      /\ b.event_sequence = n
      /\ b.started = IF e.type = "SCAN-STARTED" THEN n ELSE a.started
      /\ b.completed = IF e.type = "SCAN-RESULTS" THEN n ELSE a.completed
      /\ b.failed = IF e.type = "SCAN-FAILED" THEN n ELSE a.failed
  BY <1>5, ZenonT(60) DEF Snapshot
<1> HIDE DEF b, n
<1>7. /\ t \in Snapshot /\ t.attached = b.attached /\ t.l2_state = b.l2_state
      /\ t.event_sequence = b.event_sequence
      /\ t.started = b.started /\ t.completed = b.completed
      /\ t.failed = b.failed
  BY <1>6 DEF Snapshot, failure_reason_for_event
<1> HIDE DEF t
<1> QED BY <1>1, <1>5, <1>6, <1>7 DEF l

LEMMA AppendFacts ==
    ASSUME NEW q \in Seq(Event), NEW e \in Event
    PROVE  LET r == Append(q, e)
               n == Len(q)
           IN  /\ n \in Nat /\ DOMAIN q = 1 .. n /\ DOMAIN r = 1 .. (n + 1)
               /\ \A i \in 1 .. n : r[i] = q[i]
               /\ r[n + 1] = e
<1>1. Append(q, e) \in Seq(Event) /\ Len(Append(q, e)) = Len(q) + 1
  BY AppendProperties
<1> QED BY <1>1, AppendProperties, LenProperties

\* What Emit does to the queue.
LEMMA Emitted ==
    ASSUME queue \in Seq(Event), channel # "attached" => queue = <<>>,
           NEW type \in LinkEvents \cup ScanEvents, NEW s \in NoScan .. MaxScans, Emit(type, s)
    PROVE  /\ queue' \in Seq(Event)
           /\ channel # "attached" => queue' = <<>>
           /\ channel = "attached" => queue' = Append(queue, [type |-> type, scan |-> s])
<1>1. [type |-> type, scan |-> s] \in Event
  BY DEF Event
<1> QED BY <1>1 DEF Emit

-----------------------------------------------------------------------------
(* Types and places. *)
LEMMA TypedInit == Init => Typed /\ Placed
BY BoundAssumption, ScanAssumption
DEF Init, MonInit, Typed, Placed, Event, Snapshot, NoSnapshot, NoScan, Phases, L2States

LEMMA TypedStep == Typed /\ Placed /\ [Next]_vars => Typed' /\ Placed'
<1> SUFFICES ASSUME Typed, Placed, [Next]_vars PROVE Typed' /\ Placed'
  OBVIOUS
<1> USE ScanAssumption
<1>b. ASSUME Fault PROVE budget' \in [link : Nat, scan : Nat, fault : Nat]
  BY <1>b DEF Fault, Typed
<1>1. CASE LinkChange /\ UNCHANGED svars
  <2>1. PICK p \in Phases, e \in LinkEvents : phase' = p /\ Emit(e, NoScan)
    BY <1>1 DEF LinkChange, Announces, LinkEvents
  <2>2. queue' \in Seq(Event) /\ (channel # "attached" => queue' = <<>>)
    <3>1. NoScan \in NoScan .. MaxScans  BY DEF NoScan
    <3> QED BY <2>1, <3>1, Emitted, ZenonT(60) DEF Typed, Placed
  <2>3. budget' \in [link : Nat, scan : Nat, fault : Nat]
    <3>1. budget.link - 1 \in Nat  BY <1>1 DEF LinkChange, Typed
    <3> QED BY <1>1, <3>1 DEF LinkChange, Typed
  <2> QED BY <1>1, <2>1, <2>2, <2>3 DEF LinkChange, Typed, Placed, svars
<1>2. CASE ScanStart /\ UNCHANGED svars
  <2>1. /\ radio' \in [pending : NoScan .. MaxScans, running : NoScan .. MaxScans]
        /\ budget' \in [link : Nat, scan : Nat, fault : Nat]
    BY <1>2 DEF ScanStart, Typed, NoScan
  <2>2. queue' \in Seq(Event) /\ (channel # "attached" => queue' = <<>>)
    BY <1>2, <2>1, Emitted, ZenonT(60) DEF ScanStart, Typed, Placed, ScanEvents
  <2> QED BY <1>2, <2>1, <2>2 DEF ScanStart, Typed, Placed, svars
<1>3. CASE ScanEnd /\ UNCHANGED svars
  <2>1. /\ radio' \in [pending : NoScan .. MaxScans, running : NoScan .. MaxScans]
    BY <1>3 DEF ScanEnd, Typed, NoScan
  <2>3. budget' \in [link : Nat, scan : Nat, fault : Nat]
    BY <1>3, <1>b DEF ScanEnd, Typed
  <2>2. queue' \in Seq(Event) /\ (channel # "attached" => queue' = <<>>)
    BY <1>3, Emitted, ZenonT(60) DEF ScanEnd, Typed, Placed, ScanEvents
  <2> QED BY <1>3, <2>1, <2>2, <2>3 DEF ScanEnd, Typed, Placed, svars
<1>4. CASE ChannelLost /\ UNCHANGED svars
  BY <1>4, <1>b DEF ChannelLost, Typed, Placed, svars
<1>5. CASE OpenAttach /\ UNCHANGED svars
  <2> DEFINE t == mark_channel_unavailable(snapshot)
  <2>1. /\ t \in Snapshot /\ t.l2_state = "Unknown"
        /\ t.started <= t.event_sequence /\ t.completed <= t.event_sequence
        /\ t.failed <= t.event_sequence /\ scan.baseline <= t.event_sequence
    BY Unavailable DEF Typed, Snapshot
  <2>2. budget' \in [link : Nat, scan : Nat, fault : Nat] /\ snapshot' \in {snapshot, t}
    BY <1>5, <1>b DEF OpenAttach, Typed
  <2> HIDE DEF t
  <2> QED BY <1>5, <2>1, <2>2, ZenonT(60) DEF OpenAttach, Typed, Placed, svars
<1>6. CASE RequestStatus /\ UNCHANGED svars
  BY <1>6, <1>b DEF RequestStatus, Typed, Placed, svars
<1>7. CASE ApplyStatus /\ UNCHANGED svars
  <2> DEFINE t == apply_status(snapshot, mon.reply)
  <2>1. /\ t \in Snapshot /\ t.attached
        /\ t.started <= t.event_sequence /\ t.completed <= t.event_sequence
        /\ t.failed <= t.event_sequence /\ scan.baseline <= t.event_sequence
    <3>1. mon.reply \in Phases \cup {"none"} /\ snapshot \in Snapshot
      BY DEF Typed
    <3>2. /\ t \in Snapshot /\ t.attached /\ t.started = snapshot.started
          /\ t.completed = snapshot.completed /\ t.failed = snapshot.failed
          /\ t.event_sequence = snapshot.event_sequence + 1
      BY <3>1, StatusShown
    <3> HIDE DEF t
    <3> QED BY <3>1, <3>2 DEF Typed, Snapshot
  <2>2. snapshot' = t
    BY <1>7 DEF ApplyStatus
  <2> HIDE DEF t
  <2> QED BY <1>7, <2>1, <2>2 DEF ApplyStatus, Typed, Placed, svars
<1>8. CASE Receive /\ UNCHANGED svars
  <2> DEFINE e == Head(queue)
  <2>1. e \in Event /\ queue' \in Seq(Event)
    BY <1>8 DEF Receive, Typed
  <2>2. snapshot' = update_event(snapshot, e) /\ credit' \in NoScan .. MaxScans
    BY <1>8, <2>1 DEF Receive, Typed, Event
  <2> HIDE DEF e
  <2>3. /\ snapshot' \in Snapshot /\ snapshot'.attached = snapshot.attached
        /\ snapshot'.started <= snapshot'.event_sequence
        /\ snapshot'.completed <= snapshot'.event_sequence
        /\ snapshot'.failed <= snapshot'.event_sequence
        /\ scan.baseline <= snapshot'.event_sequence
    <3> DEFINE t == update_event(snapshot, e)
    <3>1. /\ t \in Snapshot /\ t.attached = snapshot.attached
          /\ t.event_sequence = snapshot.event_sequence + 1
          /\ t.started \in {t.event_sequence, snapshot.started}
          /\ t.completed \in {t.event_sequence, snapshot.completed}
          /\ t.failed \in {t.event_sequence, snapshot.failed}
      BY <2>1, EventShown DEF Typed
    <3>2. snapshot' = t
      BY <2>2
    <3> HIDE DEF t
    <3>3. /\ t.started <= t.event_sequence /\ t.completed <= t.event_sequence
          /\ t.failed <= t.event_sequence /\ scan.baseline <= t.event_sequence
      <4>1. /\ snapshot.started \in Nat /\ snapshot.completed \in Nat
            /\ snapshot.failed \in Nat /\ scan.baseline \in Nat
            /\ snapshot.event_sequence \in Nat
        BY DEF Typed, Snapshot
      <4>2. /\ snapshot.started <= snapshot.event_sequence
            /\ snapshot.completed <= snapshot.event_sequence
            /\ snapshot.failed <= snapshot.event_sequence
            /\ scan.baseline <= snapshot.event_sequence
        BY DEF Typed
      <4> QED BY <3>1, <4>1, <4>2
    <3> QED BY <3>1, <3>2, <3>3
  <2> QED BY <1>8, <2>1, <2>2, <2>3 DEF Receive, Typed, Placed, svars
<1>9. CASE LeavePoll /\ UNCHANGED svars
  <2> DEFINE t == mark_channel_unavailable(snapshot)
  <2>1. /\ t \in Snapshot /\ t.l2_state = "Unknown"
        /\ t.started <= t.event_sequence /\ t.completed <= t.event_sequence
        /\ t.failed <= t.event_sequence /\ scan.baseline <= t.event_sequence
    BY Unavailable DEF Typed, Snapshot
  <2>2. snapshot' = t
    BY <1>9 DEF LeavePoll
  <2> HIDE DEF t
  <2> QED BY <1>9, <2>1, <2>2 DEF LeavePoll, Typed, Placed, svars
<1>10. CASE start
  BY <1>10 DEF start, Typed, Placed, mvars, Snapshot
<1>11. CASE start_fn
  <2>1. budget' \in [link : Nat, scan : Nat, fault : Nat]
    BY <1>11, <1>b DEF start_fn, Typed
  <2>2. radio' \in [pending : NoScan .. MaxScans, running : NoScan .. MaxScans]
    BY <1>11 DEF start_fn, Typed, NoScan
  <2>3. scan' \in [id : 0 .. MaxScans, state : {"Idle", "Scanning", "Ready", "Failed"},
                   baseline : Nat, busy : BOOLEAN]
    BY <1>11, ZenonT(60) DEF start_fn, Typed
  <2> QED BY <1>11, <2>1, <2>2, <2>3 DEF start_fn, Typed, Placed
<1>12. CASE poll
  <2>1. budget' \in [link : Nat, scan : Nat, fault : Nat]
    BY <1>12, <1>b DEF poll, Typed
  <2>2. /\ scan' \in [id : 0 .. MaxScans, state : {"Idle", "Scanning", "Ready", "Failed"},
                      baseline : Nat, busy : BOOLEAN]
        /\ ready_by' \in NoScan .. MaxScans
    BY <1>12 DEF poll, Typed
  <2>3. timed_out' \subseteq 1 .. MaxScans
    <3>1. timed_out' \subseteq timed_out \cup {scan.id}
      BY <1>12 DEF poll
    <3> QED BY <1>12, <3>1 DEF poll, Typed
  <2> QED BY <1>12, <2>1, <2>2, <2>3 DEF poll, Typed, Placed
<1>13. CASE UNCHANGED vars
  BY <1>13 DEF vars, mvars, svars, Typed, Placed
<1> QED BY <1>1, <1>2, <1>3, <1>4, <1>5, <1>6, <1>7, <1>8, <1>9, <1>10, <1>11, <1>12, <1>13
       DEF Next, Supplicant, Monitor, Lifecycle

-----------------------------------------------------------------------------
(* The snapshot follows the supplicant. *)
LEMMA MonInit0 == Init => MonInv
BY TypedInit DEF Init, MonInit, MonInv, Recent, Synced, NoSnapshot

\* A link event that is queued tells the new phase.
LEMMA NewsQueued ==
    ASSUME Typed, Placed, LinkChange
    PROVE  /\ phase' \in Phases
           /\ \E e \in LinkEvents :
                /\ Emit(e, NoScan)
                /\ Tells(e)'
                /\ l2_state_for_event(e, "Unknown") \in recent'
                /\ l2_state_for_status(phase') \in recent'
           /\ recent \subseteq recent'
<1>1. PICK p \in Phases \ {phase} : \E e \in Announces(p) :
         /\ phase' = p
         /\ recent' = recent \cup {l2_state_for_status(p), l2_state_for_event(e, "Unknown")}
         /\ Emit(e, NoScan)
  BY DEF LinkChange
<1>2. PICK e \in Announces(p) :
         /\ phase' = p
         /\ recent' = recent \cup {l2_state_for_status(p), l2_state_for_event(e, "Unknown")}
         /\ Emit(e, NoScan)
  BY <1>1
<1>3. e \in LinkEvents /\ Tells(e)'
  BY <1>2 DEF Announces, LinkEvents, Tells, Phases
<1> QED BY <1>2, <1>3

\* The variables MonInv's last two conjuncts are about.
seen == <<phase, channel, queue, mon, snapshot, told, recent>>

\* A scan event at the end of the queue is no news.
LEMMA ScanEventQueued ==
    ASSUME MonInv, NEW type \in ScanEvents, NEW s \in NoScan .. MaxScans, Emit(type, s),
           UNCHANGED <<phase, channel, mon, snapshot, told, recent>>
    PROVE  Recent' /\ Synced'
<1>1. /\ queue' \in Seq(Event)
      /\ channel # "attached" => queue' = <<>>
      /\ channel = "attached" => queue' = Append(queue, [type |-> type, scan |-> s])
  BY Emitted DEF MonInv, Typed, Placed
<1>2. CASE channel # "attached"
  BY <1>1, <1>2 DEF MonInv, Recent, Synced
<1>3. CASE channel = "attached"
  <2> DEFINE n == Len(queue)
  <2>1. /\ n \in Nat /\ DOMAIN queue = 1 .. n /\ DOMAIN queue' = 1 .. (n + 1)
        /\ \A i \in 1 .. n : queue'[i] = queue[i]
        /\ queue'[n + 1].type = type
    <3>1. [type |-> type, scan |-> s] \in Event  BY DEF Event
    <3> QED BY <1>1, <1>3, <3>1, AppendFacts DEF MonInv, Typed
  <2>2. ~IsNews(queue'[n + 1])
    BY <2>1 DEF IsNews, ScanEvents, LinkEvents
  <2> HIDE DEF n
  <2>3. Recent'
    BY <2>1, <2>2 DEF MonInv, Recent, IsNews
  <2>4. NoNews' => NoNews
    BY <2>1 DEF NoNews, IsNews
  <2>5. ASSUME NEW i \in DOMAIN queue', LastNews(i)' PROVE i \in 1 .. n /\ LastNews(i)
    BY <2>1, <2>2, <2>5 DEF LastNews, IsNews
  <2> QED BY <1>3, <2>1, <2>3, <2>4, <2>5 DEF MonInv, Synced, Tells, Agrees
<1> QED BY <1>2, <1>3

LEMMA NewsArrives ==
    ASSUME MonInv, LinkChange PROVE Recent' /\ Synced'
<1>1. PICK e \in LinkEvents :
         /\ Emit(e, NoScan)
         /\ Tells(e)'
         /\ l2_state_for_event(e, "Unknown") \in recent'
         /\ l2_state_for_status(phase') \in recent'
         /\ recent \subseteq recent'
  BY NewsQueued DEF MonInv
<1>0. UNCHANGED <<channel, mon, snapshot, told>>
  BY DEF LinkChange
<1>2. /\ queue' \in Seq(Event)
      /\ channel # "attached" => queue' = <<>>
      /\ channel = "attached" => queue' = Append(queue, [type |-> e, scan |-> NoScan])
  <2>1. NoScan \in NoScan .. MaxScans  BY ScanAssumption DEF NoScan
  <2> QED BY <1>1, <2>1, Emitted DEF MonInv, Typed, Placed
<1>3. CASE channel # "attached"
  BY <1>0, <1>1, <1>2, <1>3 DEF MonInv, Recent, Synced
<1>4. CASE channel = "attached"
  <2> DEFINE n == Len(queue)
  <2>1. /\ n \in Nat /\ DOMAIN queue = 1 .. n /\ DOMAIN queue' = 1 .. (n + 1)
        /\ \A i \in 1 .. n : queue'[i] = queue[i]
        /\ queue'[n + 1].type = e
    <3> DEFINE f == [type |-> e, scan |-> NoScan]
    <3>1. f \in Event /\ f.type = e /\ queue' = Append(queue, f)
      BY <1>2, <1>4, ScanAssumption DEF Event, NoScan
    <3> HIDE DEF f
    <3> QED BY <3>1, AppendFacts DEF MonInv, Typed
  <2>2. IsNews(queue'[n + 1])
    BY <2>1 DEF IsNews
  <2> HIDE DEF n
  <2>3. Recent'
    BY <1>0, <1>1, <2>1, <2>2 DEF MonInv, Recent, IsNews
  <2>4. ~NoNews'
    BY <2>1, <2>2 DEF NoNews
  <2>5. ASSUME NEW i \in DOMAIN queue', LastNews(i)' PROVE i = n + 1
    BY <2>1, <2>2, <2>5 DEF LastNews
  <2> QED BY <1>0, <1>1, <1>4, <2>1, <2>3, <2>4, <2>5 DEF Synced
<1> QED BY <1>3, <1>4

\* The head of the queue is taken over: what it told is now shown.
LEMMA NewsRead ==
    ASSUME MonInv, Receive PROVE Recent' /\ Synced'
<1> DEFINE e == Head(queue)
           n == Len(queue)
<1>1. /\ n \in Nat \ {0} /\ DOMAIN queue = 1 .. n /\ DOMAIN queue' = 1 .. (n - 1)
      /\ \A i \in 1 .. (n - 1) : queue'[i] = queue[i + 1]
      /\ queue[1] = e /\ e \in Event
  BY DEF Receive, MonInv, Typed
<1>2. /\ mon.pc = "poll" /\ channel = "attached"
      /\ UNCHANGED <<phase, channel, mon, recent>>
      /\ snapshot' = update_event(snapshot, e)
      /\ told' = CASE e.type = "CONNECTED" -> "up"
                   [] e.type = "DISCONNECTED" -> "down"
                   [] OTHER -> told
  BY DEF Receive
<1> HIDE DEF n, e
<1>3. snapshot'.l2_state = l2_state_for_event(e.type, snapshot.l2_state)
  BY <1>1, <1>2, EventShown DEF MonInv, Typed
<1>4. ASSUME NEW i \in DOMAIN queue', LastNews(i)'
      PROVE  i + 1 \in DOMAIN queue /\ LastNews(i + 1) /\ queue'[i] = queue[i + 1]
  <2>1. i + 1 \in DOMAIN queue /\ queue'[i] = queue[i + 1] /\ IsNews(queue[i + 1])
    BY <1>1, <1>4 DEF LastNews
  <2>2. ASSUME NEW j \in DOMAIN queue, j > i + 1 PROVE ~IsNews(queue[j])
    <3>1. j - 1 \in DOMAIN queue' /\ j - 1 > i /\ queue'[j - 1] = queue[j]
      BY <1>1, <2>2
    <3> QED BY <3>1, <1>4 DEF LastNews
  <2> QED BY <2>1, <2>2 DEF LastNews
<1>5. CASE IsNews(e)
  <2>1. /\ snapshot'.l2_state = l2_state_for_event(e.type, "Unknown")
        /\ snapshot'.l2_state = "Connected" => told' = "up"
        /\ snapshot'.l2_state = "Disconnected" => told' = "down"
    BY <1>2, <1>3, <1>5 DEF IsNews, LinkEvents, l2_state_for_event
  <2>2. snapshot'.l2_state \in recent
    BY <1>1, <1>5, <2>1 DEF MonInv, Recent
  <2>3. Recent'
    BY <1>1, <1>2, <2>2 DEF MonInv, Recent, IsNews
  <2>4. NoNews' => LastNews(1)
    <3> SUFFICES ASSUME NoNews', NEW j \in DOMAIN queue, j > 1 PROVE ~IsNews(queue[j])
      BY <1>1, <1>5 DEF LastNews
    <3>1. j - 1 \in DOMAIN queue' /\ queue'[j - 1] = queue[j]  BY <1>1
    <3> QED BY <3>1 DEF NoNews
  <2>5. NoNews' => Agrees'
    BY <1>1, <1>2, <1>5, <2>1, <2>4
    DEF MonInv, Synced, Agrees, Tells, IsNews, LinkEvents, l2_state_for_event, l2_state_for_status
  <2> QED BY <1>1, <1>2, <1>4, <2>1, <2>3, <2>5 DEF MonInv, Synced, Tells
<1>6. CASE ~IsNews(e)
  <2>1. snapshot'.l2_state = snapshot.l2_state /\ told' = told
    BY <1>1, <1>2, <1>3, <1>6 DEF IsNews, Event, LinkEvents, l2_state_for_event
  <2>2. Recent'
    BY <1>1, <1>2, <2>1 DEF MonInv, Recent, IsNews
  <2>3. NoNews' => NoNews
    <3> SUFFICES ASSUME NoNews', NEW j \in DOMAIN queue PROVE ~IsNews(queue[j])
      BY DEF NoNews
    <3>1. CASE j = 1  BY <1>1, <1>6, <3>1
    <3>2. CASE j # 1
      <4>1. j - 1 \in DOMAIN queue' /\ queue'[j - 1] = queue[j]  BY <1>1, <3>2
      <4> QED BY <4>1 DEF NoNews
    <3> QED BY <3>1, <3>2
  <2> QED BY <1>1, <1>2, <1>4, <2>1, <2>2, <2>3 DEF MonInv, Synced, Agrees, Tells
<1> QED BY <1>5, <1>6

LEMMA MonStep == MonInv /\ [Next]_vars => MonInv'
<1> SUFFICES ASSUME MonInv, [Next]_vars PROVE Recent' /\ Synced'
  BY TypedStep DEF MonInv
<1>1. CASE LinkChange
  BY <1>1, NewsArrives
<1>2. CASE ScanStart
  <2>1. radio'.running \in NoScan .. MaxScans
    BY <1>2, ScanAssumption DEF ScanStart, MonInv, Typed, NoScan
  <2> QED BY <1>2, <2>1, ScanEventQueued DEF ScanStart, ScanEvents
<1>3. CASE ScanEnd
  BY <1>3, ScanEventQueued DEF ScanEnd, ScanEvents, MonInv, Typed
<1>4. CASE ChannelLost
  BY <1>4 DEF ChannelLost, MonInv, Recent, Synced
<1>5. CASE OpenAttach
  <2>1. snapshot'.l2_state = "Unknown" /\ UNCHANGED phase
    BY <1>5, Unavailable DEF OpenAttach, MonInv, Typed, Placed
  <2>2. \/ queue' = <<>> /\ channel' = "attached" /\ recent' = {l2_state_for_status(phase)}
           /\ mon'.pc = "status"
        \/ UNCHANGED <<channel, queue, mon, recent>>
    BY <1>5 DEF OpenAttach, MonInv, Typed
  <2> QED BY <1>5, <2>1, <2>2 DEF OpenAttach, MonInv, Typed, Placed, Recent, Synced
<1>6. CASE RequestStatus
  <2>1. /\ mon.pc = "status" /\ mon'.pc = "apply" /\ mon'.reply \in {phase, "none"}
        /\ UNCHANGED <<phase, channel, queue, snapshot, told, recent>>
    BY <1>6 DEF RequestStatus
  <2> QED BY <2>1 DEF MonInv, Recent, Synced, LastNews, Tells, NoNews
<1>7. CASE ApplyStatus
  <2>1. /\ mon.pc = "apply" /\ mon'.pc = "poll" /\ mon.reply \in Phases \cup {"none"}
        /\ snapshot' = apply_status(snapshot, mon.reply)
        /\ UNCHANGED <<phase, channel, queue, recent>>
        /\ told' = CASE snapshot'.l2_state = "Unknown" -> told
                     [] snapshot'.l2_state = "Connected" -> "up"
                     [] OTHER -> "down"
    BY <1>7 DEF ApplyStatus, MonInv, Typed
  <2>2. snapshot'.l2_state = l2_state_for_status(mon.reply)
    BY <2>1, StatusShown DEF MonInv, Typed
  <2>3. snapshot'.l2_state # "Unknown" => mon.reply # "none"
    BY <2>2 DEF l2_state_for_status
  <2>4. Recent'
    BY <2>1, <2>2, <2>3 DEF MonInv, Recent
  <2>5. Synced'
    BY <2>1, <2>2, <2>3 DEF MonInv, Synced, Agrees, LastNews, Tells, NoNews
  <2> QED BY <2>4, <2>5
<1>8. CASE Receive
  BY <1>8, NewsRead
<1>9. CASE LeavePoll
  <2>1. snapshot'.l2_state = "Unknown" /\ channel' = "closed" /\ mon'.pc = "open"
        /\ UNCHANGED <<phase, queue, recent>>
    BY <1>9, Unavailable DEF LeavePoll, MonInv, Typed
  <2> QED BY <2>1 DEF MonInv, Recent, Synced
<1>10. CASE UNCHANGED seen
  BY <1>10 DEF seen, MonInv, Recent, Synced, LastNews, Tells, NoNews, Agrees
<1> QED BY <1>1, <1>2, <1>3, <1>4, <1>5, <1>6, <1>7, <1>8, <1>9, <1>10, ZenonT(60)
       DEF Next, Supplicant, Monitor, Lifecycle, start, start_fn, poll, vars, mvars, svars, seen

-----------------------------------------------------------------------------
(* The generation fence. *)
LEMMA ScanInit == Init => ScanInv
BY TypedInit DEF Init, MonInit, ScanInv, Ordered, Aged, Fenced, GenerationFence, NoScan

\* An event at the end of the queue that is neither a start nor the end of a scan.
LEMMA OtherQueued ==
    ASSUME ScanInv, NEW type \in LinkEvents, Emit(type, NoScan),
           UNCHANGED <<radio, snapshot, credit, svars>>
    PROVE  Ordered' /\ Aged' /\ Fenced' /\ GenerationFence'
<1> DEFINE f == [type |-> type, scan |-> NoScan]
           n == Len(queue)
<1>1. f \in Event /\ ~IsStart(f) /\ ~IsEnd(f) /\ NoScan \in NoScan .. MaxScans
  BY ScanAssumption DEF Event, NoScan, LinkEvents, IsStart, IsEnd
<1>2. queue' = <<>> \/ queue' = queue \/ queue' = Append(queue, f)
  BY DEF Emit
<1>3. queue \in Seq(Event)
  BY DEF ScanInv, Typed
<1> HIDE DEF f
<1>4. CASE queue' = <<>> \/ queue' = queue
  BY <1>4 DEF ScanInv, Ordered, Aged, Fenced, GenerationFence, svars, current_scan_started,
              completed_event
<1>5. CASE queue' = Append(queue, f)
  <2>1. /\ n \in Nat /\ DOMAIN queue = 1 .. n /\ DOMAIN queue' = 1 .. (n + 1)
        /\ \A i \in 1 .. n : queue'[i] = queue[i]
        /\ queue'[n + 1] = f
    BY <1>1, <1>3, <1>5, AppendFacts
  <2>2. ASSUME NEW i \in DOMAIN queue', IsStart(queue'[i]) \/ IsEnd(queue'[i])
        PROVE  i \in DOMAIN queue /\ queue'[i] = queue[i]
    BY <1>1, <2>1, <2>2
  <2>3. DOMAIN queue \subseteq DOMAIN queue' /\ \A i \in DOMAIN queue : queue'[i] = queue[i]
    BY <2>1
  <2> HIDE DEF n
  <2>4. Ordered'
    BY <2>2, <2>3 DEF ScanInv, Ordered
  <2>5. Aged'
    BY <2>2 DEF ScanInv, Aged, svars
  <2>6. Fenced'
    BY <2>2 DEF ScanInv, Fenced, svars, current_scan_started, completed_event
  <2> QED BY <2>4, <2>5, <2>6 DEF ScanInv, GenerationFence, svars
<1> QED BY <1>2, <1>4, <1>5

\* A scan that starts is not an old one.
LEMMA StartQueued ==
    ASSUME ScanInv, ScanStart, UNCHANGED svars
    PROVE  Ordered' /\ Aged' /\ Fenced' /\ GenerationFence'
<1> DEFINE r == radio'.running
           f == Started(r)
           n == Len(queue)
<1>1. /\ r \in {radio.pending, 0} /\ r \in NoScan .. MaxScans /\ r \notin timed_out
      /\ radio'.pending \in {radio.pending, NoScan} /\ NoScan \notin timed_out
      /\ UNCHANGED <<snapshot, credit>> /\ Emit("SCAN-STARTED", r)
      /\ radio.running = NoScan
  BY ScanAssumption DEF ScanStart, ScanInv, Typed, Aged, NoScan
<1>2. f \in Event /\ IsStart(f) /\ ~IsEnd(f) /\ f.scan = r
  BY <1>1 DEF Event, ScanEvents, IsStart, IsEnd, Started
<1>3. queue' = queue \/ queue' = Append(queue, f)
  BY <1>1 DEF Emit, Started
<1>4. queue \in Seq(Event) /\ (queue' = queue => queue = <<>>)
  <2>1. channel # "attached" => queue = <<>>  BY DEF ScanInv, Placed
  <2>2. queue \in Seq(Event)  BY DEF ScanInv, Typed
  <2>3. Append(queue, f) # queue
    BY <1>2, <2>2, AppendProperties, LenProperties
  <2> QED BY <1>1, <2>1, <2>2, <2>3 DEF Emit, Started
<1> HIDE DEF f, r
<1>5. CASE queue' = queue
  BY <1>1, <1>4, <1>5 DEF ScanInv, Ordered, Aged, Fenced, GenerationFence, svars,
              current_scan_started, completed_event, r
<1>6. CASE queue' = Append(queue, f)
  <2>1. /\ n \in Nat /\ DOMAIN queue = 1 .. n /\ DOMAIN queue' = 1 .. (n + 1)
        /\ \A i \in 1 .. n : queue'[i] = queue[i]
        /\ queue'[n + 1] = f
    BY <1>2, <1>4, <1>6, AppendFacts
  <2>2. ASSUME NEW i \in DOMAIN queue', IsEnd(queue'[i])
        PROVE  i \in DOMAIN queue /\ queue'[i] = queue[i]
    BY <1>2, <2>1, <2>2
  <2>3. /\ n + 1 \in DOMAIN queue' /\ \A i \in DOMAIN queue' : i <= n + 1
        /\ \A i \in DOMAIN queue : i \in DOMAIN queue' /\ queue'[i] = queue[i]
        /\ \A i \in DOMAIN queue : \A j \in DOMAIN queue' : j < i => j \in DOMAIN queue
        /\ \A i \in DOMAIN queue' : i \in DOMAIN queue \/ i = n + 1
    BY <2>1
  <2> HIDE DEF n
  <2>4. Ordered'
    <3>1. ASSUME NEW i \in DOMAIN queue', NEW j \in DOMAIN queue',
                 j < i, IsStart(queue'[j]), IsEnd(queue'[i])
          PROVE  \E k \in DOMAIN queue' : j <= k /\ k < i /\ queue'[k] = Started(queue'[i].scan)
      BY <2>2, <2>3, <3>1 DEF ScanInv, Ordered
    <3>2. ASSUME NEW j \in DOMAIN queue'
          PROVE  \E k \in DOMAIN queue' : j <= k /\ queue'[k] = Started(radio'.running)
      BY <2>1, <2>3 DEF f, r
    <3> QED BY <3>1, <3>2 DEF Ordered
  <2>5. Aged'
    BY <1>1, <1>2, <2>1, <2>3 DEF ScanInv, Aged, svars
  <2>6. Fenced'
    BY <1>1, <2>2 DEF ScanInv, Fenced, svars, current_scan_started, completed_event, r
  <2> QED BY <2>4, <2>5, <2>6 DEF ScanInv, GenerationFence, svars
<1> QED BY <1>3, <1>5, <1>6

\* The scan that ends is the one whose start was queued last, if any was.
LEMMA EndQueued ==
    ASSUME ScanInv, ScanEnd, UNCHANGED svars
    PROVE  Ordered' /\ Aged' /\ Fenced' /\ GenerationFence'
<1> DEFINE r == radio.running
           n == Len(queue)
<1>1. PICK type \in {"SCAN-RESULTS", "SCAN-FAILED"} : Emit(type, r)
  BY DEF ScanEnd
<1> DEFINE f == [type |-> type, scan |-> r]
<1>2. /\ radio'.running = NoScan /\ radio'.pending = radio.pending
      /\ UNCHANGED <<snapshot, credit>> /\ r # NoScan /\ r \in NoScan .. MaxScans
      /\ NoScan \notin timed_out
  BY DEF ScanEnd, ScanInv, Typed, NoScan
<1>3. f \in Event /\ ~IsStart(f) /\ f.scan = r
  BY <1>1, <1>2 DEF Event, ScanEvents, IsStart
<1>4. queue' = queue \/ queue' = Append(queue, f)
  BY <1>1 DEF Emit
<1>5. queue \in Seq(Event)
  BY DEF ScanInv, Typed
<1> HIDE DEF f, r
<1>6. CASE queue' = queue
  BY <1>2, <1>6 DEF ScanInv, Ordered, Aged, Fenced, GenerationFence, svars,
              current_scan_started, completed_event
<1>7. CASE queue' = Append(queue, f)
  <2>1. /\ n \in Nat /\ DOMAIN queue = 1 .. n /\ DOMAIN queue' = 1 .. (n + 1)
        /\ \A i \in 1 .. n : queue'[i] = queue[i]
        /\ queue'[n + 1] = f
    BY <1>3, <1>5, <1>7, AppendFacts
  <2>2. ASSUME NEW i \in DOMAIN queue', IsStart(queue'[i])
        PROVE  i \in DOMAIN queue /\ queue'[i] = queue[i]
    BY <1>3, <2>1, <2>2
  <2>3. /\ \A i \in DOMAIN queue : i \in DOMAIN queue' /\ queue'[i] = queue[i] /\ i < n + 1
        /\ \A i \in DOMAIN queue' : i \in DOMAIN queue \/ i = n + 1
    BY <2>1
  <2> HIDE DEF n
  <2>4. Ordered'
    <3>1. ASSUME NEW i \in DOMAIN queue', NEW j \in DOMAIN queue',
                 j < i, IsStart(queue'[j]), IsEnd(queue'[i])
          PROVE  \E k \in DOMAIN queue' : j <= k /\ k < i /\ queue'[k] = Started(queue'[i].scan)
      <4>1. j \in DOMAIN queue /\ IsStart(queue[j])
        BY <2>2, <3>1
      <4>2. CASE i \in DOMAIN queue
        BY <2>3, <3>1, <4>1, <4>2 DEF ScanInv, Ordered
      <4>3. CASE i = n + 1
        <5>1. PICK k \in DOMAIN queue : j <= k /\ queue[k] = Started(r)
          BY <1>2, <4>1 DEF ScanInv, Ordered, r
        <5> QED BY <1>3, <2>1, <2>3, <4>3, <5>1
      <4> QED BY <2>3, <4>2, <4>3
    <3> QED BY <1>2, <3>1 DEF Ordered
  <2>5. Aged'
    BY <1>2, <2>2 DEF ScanInv, Aged, svars
  <2>6. Fenced'
    BY <1>2, <1>3, <2>1, <2>3 DEF ScanInv, Fenced, svars, current_scan_started,
              completed_event, r
  <2> QED BY <2>4, <2>5, <2>6 DEF ScanInv, GenerationFence, svars
<1> QED BY <1>4, <1>6, <1>7

\* Reading a start raises the fence, if that has not happened yet: behind it in the
\* queue there is no old scan's end.
LEMMA EventRead ==
    ASSUME ScanInv, Receive, UNCHANGED svars
    PROVE  Ordered' /\ Aged' /\ Fenced' /\ GenerationFence'
<1> DEFINE e == Head(queue)
           n == Len(queue)
           s == snapshot
           t == snapshot'
<1>1. /\ n \in Nat \ {0} /\ DOMAIN queue = 1 .. n /\ DOMAIN queue' = 1 .. (n - 1)
      /\ \A i \in 1 .. (n - 1) : queue'[i] = queue[i + 1]
      /\ queue[1] = e /\ e \in Event
  BY DEF Receive, ScanInv, Typed
<1>2. /\ UNCHANGED radio /\ t = update_event(s, e)
      /\ credit' = IF e.type = "SCAN-RESULTS" THEN e.scan ELSE credit
  BY DEF Receive
<1> HIDE DEF n, e
<1>3. /\ t.event_sequence = s.event_sequence + 1
      /\ t.started = IF e.type = "SCAN-STARTED" THEN s.event_sequence + 1 ELSE s.started
      /\ t.completed = IF e.type = "SCAN-RESULTS" THEN s.event_sequence + 1 ELSE s.completed
  BY <1>1, <1>2, EventShown DEF ScanInv, Typed
<1>4. /\ \A i \in DOMAIN queue' : i + 1 \in DOMAIN queue /\ queue'[i] = queue[i + 1] /\ i > 0
      /\ \A i \in DOMAIN queue : i = 1 \/ (i > 1 /\ i - 1 \in DOMAIN queue'
                                          /\ queue'[i - 1] = queue[i])
      /\ 1 \in DOMAIN queue /\ DOMAIN queue \subseteq Nat /\ DOMAIN queue' \subseteq Nat
  BY <1>1
<1>5. Ordered'
  <2>1. ASSUME NEW i \in DOMAIN queue', NEW j \in DOMAIN queue',
               j < i, IsStart(queue'[j]), IsEnd(queue'[i])
        PROVE  \E k \in DOMAIN queue' : j <= k /\ k < i /\ queue'[k] = Started(queue'[i].scan)
    <3>1. PICK k \in DOMAIN queue : j + 1 <= k /\ k < i + 1 /\ queue[k] = Started(queue[i + 1].scan)
      BY <1>4, <2>1 DEF ScanInv, Ordered
    <3>2. k - 1 \in DOMAIN queue' /\ j <= k - 1 /\ k - 1 < i /\ queue'[k - 1] = queue[k]
      BY <1>4, <3>1
    <3> QED BY <1>4, <3>1, <3>2
  <2>2. ASSUME radio.running # NoScan, NEW j \in DOMAIN queue', IsStart(queue'[j])
        PROVE  \E k \in DOMAIN queue' : j <= k /\ queue'[k] = Started(radio.running)
    <3>1. PICK k \in DOMAIN queue : j + 1 <= k /\ queue[k] = Started(radio.running)
      BY <1>4, <2>2 DEF ScanInv, Ordered
    <3>2. k - 1 \in DOMAIN queue' /\ j <= k - 1 /\ queue'[k - 1] = queue[k]
      BY <1>4, <3>1
    <3> QED BY <3>1, <3>2
  <2> QED BY <1>2, <2>1, <2>2 DEF Ordered
<1>6. Aged'
  BY <1>2, <1>4 DEF ScanInv, Aged, svars
<1>7. ASSUME NEW i \in DOMAIN queue, IsEnd(queue[i]), IsStart(e)
      PROVE  queue[i].scan \notin timed_out
  <2>1. i # 1  BY <1>1, <1>7 DEF IsEnd, IsStart
  <2>2. PICK k \in DOMAIN queue : queue[k] = Started(queue[i].scan)
    BY <1>1, <1>4, <1>7, <2>1 DEF ScanInv, Ordered
  <2> QED BY <2>2 DEF ScanInv, Aged, IsStart, Started
<1>8. IsStart(e) => radio.running \notin timed_out
  <2>1. CASE radio.running = NoScan
    BY <2>1 DEF ScanInv, Typed, NoScan
  <2>2. CASE radio.running # NoScan
    <3> SUFFICES ASSUME IsStart(e) PROVE radio.running \notin timed_out
      OBVIOUS
    <3>1. PICK k \in DOMAIN queue : queue[k] = Started(radio.running)
      BY <1>1, <1>4, <2>2 DEF ScanInv, Ordered
    <3> QED BY <3>1 DEF ScanInv, Aged, IsStart, Started
  <2> QED BY <2>1, <2>2
<1>9. s.event_sequence \in Nat /\ s.started \in Nat /\ s.completed \in Nat
      /\ scan.baseline \in Nat
  BY DEF ScanInv, Typed, Snapshot
<1>10. Fenced'
  <2> SUFFICES ASSUME scan.state = "Scanning", t.started > scan.baseline
               PROVE  /\ radio.running \notin timed_out
                      /\ \A i \in DOMAIN queue' : IsEnd(queue'[i]) => queue'[i].scan \notin timed_out
                      /\ t.completed > t.started => credit' \notin timed_out
    BY <1>2 DEF Fenced, svars, current_scan_started, completed_event
  <2>1. CASE e.type = "SCAN-STARTED"
    <3>1. ~(t.completed > t.started)
      <4>1. s.completed <= s.event_sequence  BY DEF ScanInv, Typed
      <4> QED BY <1>3, <1>9, <2>1, <4>1
    <3> QED BY <1>4, <1>7, <1>8, <2>1, <3>1 DEF IsStart
  <2>2. CASE e.type # "SCAN-STARTED"
    <3>1. s.started > scan.baseline  BY <1>3, <2>2
    <3>2. /\ radio.running \notin timed_out
          /\ \A i \in DOMAIN queue : IsEnd(queue[i]) => queue[i].scan \notin timed_out
          /\ s.completed > s.started => credit \notin timed_out
      BY <3>1 DEF ScanInv, Fenced, current_scan_started, completed_event
    <3>3. t.completed > t.started => credit' \notin timed_out
      BY <1>1, <1>2, <1>3, <1>4, <2>2, <3>2 DEF IsEnd
    <3> QED BY <1>4, <3>2, <3>3
  <2> QED BY <2>1, <2>2
<1> QED BY <1>5, <1>6, <1>10 DEF ScanInv, GenerationFence, svars

LEMMA ScanStep == PromptStart /\ ScanInv /\ [Next]_vars => ScanInv'
<1> SUFFICES ASSUME PromptStart, ScanInv, [Next]_vars
             PROVE  Ordered' /\ Aged' /\ Fenced' /\ GenerationFence'
  BY TypedStep DEF ScanInv
<1> DEFINE Kept == UNCHANGED <<radio, credit, svars>>
                   /\ snapshot'.started = snapshot.started
                   /\ snapshot'.completed = snapshot.completed
<1>0. ASSUME Kept, queue' \in {queue, <<>>}
      PROVE  Ordered' /\ Aged' /\ Fenced' /\ GenerationFence'
  BY <1>0 DEF ScanInv, Ordered, Aged, Fenced, GenerationFence, svars, current_scan_started,
              completed_event
<1>1. CASE LinkChange /\ UNCHANGED svars
  BY <1>1, OtherQueued, NewsQueued DEF LinkChange, ScanInv
<1>2. CASE ScanStart /\ UNCHANGED svars
  BY <1>2, StartQueued
<1>3. CASE ScanEnd /\ UNCHANGED svars
  BY <1>3, EndQueued
<1>4. CASE ChannelLost /\ UNCHANGED svars
  BY <1>0, <1>4 DEF ChannelLost
<1>5. CASE OpenAttach /\ UNCHANGED svars
  BY <1>0, <1>5, Unavailable DEF OpenAttach, ScanInv, Typed
<1>6. CASE RequestStatus /\ UNCHANGED svars
  BY <1>0, <1>6 DEF RequestStatus
<1>7. CASE ApplyStatus /\ UNCHANGED svars
  <2>1. mon.reply \in Phases \cup {"none"} /\ snapshot \in Snapshot
    BY DEF ScanInv, Typed
  <2> QED BY <1>0, <1>7, <2>1, StatusShown DEF ApplyStatus
<1>8. CASE Receive /\ UNCHANGED svars
  BY <1>8, EventRead
<1>9. CASE LeavePoll /\ UNCHANGED svars
  BY <1>0, <1>9, Unavailable DEF LeavePoll, ScanInv, Typed
<1>10. CASE start
  <2>1. /\ scan'.id = scan.id + 1 /\ scan'.state = "Scanning"
        /\ scan'.baseline = snapshot.event_sequence
        /\ UNCHANGED <<timed_out, ready_by, radio, queue, snapshot, credit>>
    BY <1>10 DEF start, mvars
  <2>2. ~(snapshot.started > snapshot.event_sequence)
    BY DEF ScanInv, Typed, Snapshot
  <2>3. timed_out \subseteq 1 .. scan'.id /\ scan'.id \notin timed_out
    BY <2>1 DEF ScanInv, Aged, Typed
  <2> QED BY <2>1, <2>2, <2>3 DEF ScanInv, Ordered, Aged, Fenced, GenerationFence,
                                  current_scan_started
<1>11. CASE start_fn
  <2>1. /\ scan'.id = scan.id /\ scan'.baseline = scan.baseline /\ ~scan'.busy
        /\ scan'.state \in {scan.state, "Failed"} /\ scan.state = "Scanning"
        /\ radio'.running = radio.running /\ radio'.pending \in {radio.pending, scan.id}
        /\ UNCHANGED <<timed_out, ready_by, queue, snapshot, credit>>
    BY <1>11 DEF start_fn, ScanInv, Aged, Typed
  <2> QED BY <2>1 DEF ScanInv, Ordered, Aged, Fenced, GenerationFence, current_scan_started,
                      completed_event
<1>12. CASE poll
  <2>1. /\ scan'.id = scan.id /\ ~scan'.busy /\ scan.state = "Scanning"
        /\ scan'.state \in {"Ready", "Failed"}
        /\ UNCHANGED <<radio, queue, snapshot, credit>>
    BY <1>12 DEF poll, Typed, ScanInv
  <2>2. CASE UNCHANGED timed_out
    <3>1. scan'.state = "Ready" => /\ current_scan_started /\ completed_event
                                   /\ ready_by' = credit
      BY <1>12, <2>2 DEF poll, Typed, ScanInv
    <3> QED BY <2>1, <2>2, <3>1 DEF ScanInv, Ordered, Aged, Fenced, GenerationFence
  <2>3. CASE timed_out' = timed_out \cup {scan.id} /\ StartReported /\ scan'.state = "Failed"
    <3>1. radio.pending # scan.id
          /\ \A i \in DOMAIN queue : queue[i] # [type |-> "SCAN-STARTED", scan |-> scan.id]
      BY <2>3 DEF StartReported
    <3>2. ASSUME NEW i \in DOMAIN queue, IsStart(queue[i]) PROVE queue[i].scan # scan.id
      <4>1. queue[i] \in Event  BY DEF ScanInv, Typed
      <4>2. queue[i] = [type |-> queue[i].type, scan |-> queue[i].scan]
        BY <4>1 DEF Event
      <4> QED BY <3>1, <3>2, <4>2 DEF IsStart
    <3>3. scan.id \in 1 .. scan.id
      BY <2>1 DEF ScanInv, Typed
    <3> QED BY <2>1, <2>3, <3>1, <3>2, <3>3, ZenonT(60) DEF ScanInv, Ordered, Aged, Fenced, GenerationFence
  <2>4. \/ UNCHANGED timed_out
        \/ timed_out' = timed_out \cup {scan.id} /\ StartReported /\ scan'.state = "Failed"
    BY <1>12 DEF poll, ScanInv, Typed
  <2> QED BY <2>2, <2>3, <2>4
<1>13. CASE UNCHANGED vars
  BY <1>0, <1>13 DEF vars, mvars, svars
<1> QED BY <1>1, <1>2, <1>3, <1>4, <1>5, <1>6, <1>7, <1>8, <1>9, <1>10, <1>11, <1>12, <1>13
       DEF Next, Supplicant, Monitor, Lifecycle

-----------------------------------------------------------------------------
LEMMA MonInvariance == Spec => []MonInv
<1>1. Init => MonInv  BY MonInit0
<1>2. MonInv /\ [Next]_vars => MonInv'  BY MonStep
<1> QED BY <1>1, <1>2, PTL DEF Spec

\* The fields of the monitor, the snapshot and the lifecycle keep their types.
THEOREM TypeCorrect == Spec => []TypeOK
<1>1. MonInv => TypeOK  BY DEF MonInv, Typed, TypeOK, Event, Snapshot
<1> QED BY <1>1, MonInvariance, PTL

\* WpaEventMonitor loses no link change: attach before STATUS, then the events.
THEOREM SnapshotFollowsLink == Spec => []InSync
<1>1. MonInv => InSync  BY DEF MonInv, Synced, InSync, NoNews
<1> QED BY <1>1, MonInvariance, PTL

\* After a lost channel is noticed the snapshot shows only what was learned since
\* the last ATTACH (wpa_event_monitor.cpp:162-164).
THEOREM NothingStaleShown == Spec => []ShownIsRecent
<1>1. MonInv => ShownIsRecent  BY DEF MonInv, Placed, Recent, ShownIsRecent
<1> QED BY <1>1, MonInvariance, PTL

\* The generation fence of WifiScanLifecycle holds for every number of requests,
\* own scans and lost channels if no scan times out before its start is reported.
THEOREM FenceHolds == ASSUME PromptStart PROVE Spec => []GenerationFence
<1>1. Init => ScanInv  BY ScanInit
<1>2. ScanInv /\ [Next]_vars => ScanInv'  BY ScanStep
<1>3. ScanInv => GenerationFence  BY DEF ScanInv
<1> QED BY <1>1, <1>2, <1>3, PTL DEF Spec
=============================================================================
