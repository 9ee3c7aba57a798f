-------------------------- MODULE NetworkIpcServer ---------------------------
(***************************************************************************)
(* The IPC reactor of NetworkIpcServer::run with its v1 sessions, bounded  *)
(* outbound queues, event sequencer and state observer, together with      *)
(* consumers that follow the contract with the library's RebaseTracker.    *)
(*                                                                         *)
(* One step is one reactor lambda applied to one client (the reactor is    *)
(* single-threaded); the network, the sockets and the consumers move in    *)
(* between.  Messages are whole frames, which NetworkIpcInput justifies;   *)
(* their text is abstracted to what the session tells apart.  Sequence     *)
(* numbers are uint64 in the code; MaxSeq stands for their largest value.  *)
(***************************************************************************)
EXTENDS Naturals, Sequences, FiniteSets

CONSTANTS
    Consumers,     \* client programs; each has at most one connection
    MaxActive,     \* kMaxActiveClients
    OutCap,        \* OutboundQueue::max_frames
    SockCap,       \* frames the kernel buffers towards a client
    MaxInbox,      \* bound: messages a client has under way
    MaxSeq,        \* largest sequence number
    MaxTruth,      \* network states are 0..MaxTruth
    Flapping,      \* the network may return to an earlier state
    MaxChanges,    \* bound: changes of the network state
    MaxSessions,   \* bound: connections per consumer
    MaxStray       \* bound: messages outside the consumer's protocol

ASSUME BoundAssumption ==
    /\ {MaxActive, OutCap, SockCap, MaxInbox, MaxSeq} \subseteq Nat \ {0}
    /\ {MaxTruth, MaxChanges, MaxSessions, MaxStray} \subseteq Nat
    /\ Flapping \in BOOLEAN

VARIABLES
    conn,         \* ClientState and its socket, per consumer
    next_seq,     \* EventSequencer::next_sequence_, 0 when exhausted
    truth,        \* what NetworkDaemon::snapshot would return
    previous,     \* NetworkStateChangeDetector::previous_
    app,          \* the consumer: RebaseTracker, its view, its requests
    changes, sessions, stray

vars == <<conn, next_seq, truth, previous, app, changes, sessions, stray>>

Truth == 0..MaxTruth

\* What a consumer sends.  "garbage" fails FrameDecoder, "v0" is a newline
\* terminated line, "refused" any frame the session answers by closing.
Requests == {"hello", "subscribe", "snapshot", "ping", "command",
             "refused", "garbage", "v0"}

\* Bytes without a valid frame header.
IsGarbage(m) == m \in {"garbage", "v0"}

\* What the server sends.
Frame(kind, seq, val) == [kind |-> kind, seq |-> seq, val |-> val]
Answer(kind) == Frame(kind, 0, 0)
IsEvent(f)   == f.kind \in {"subscribed", "changed"}
Events(s)    == {i \in DOMAIN s : IsEvent(s[i])}
Answers(s)   == Cardinality({i \in DOMAIN s : ~IsEvent(s[i])})

NoConn == [out |-> <<>>, phase |-> "none", subscribed |-> FALSE, inbox |-> <<>>,
           sock |-> <<>>, close_after_flush |-> FALSE, closed |-> FALSE]

Fresh == [baseline |-> FALSE, last |-> 0, view |-> 0, want |-> TRUE, asked |-> FALSE,
          said |-> {}, owed |-> 0, heard |-> 0]

Init ==
    /\ conn = [c \in Consumers |-> NoConn]
    /\ next_seq = 1
    /\ truth = 0 /\ previous = 0
    /\ app = [c \in Consumers |-> Fresh]
    /\ changes = 0 /\ sessions = [c \in Consumers |-> 0] /\ stray = 0

-----------------------------------------------------------------------------
(* OutboundQueue, EventSequencer and the reactor's helpers, on one connection
   record k. *)

\* OutboundQueue::enqueue accepts; consume removes what was written.
HasRoom(out) == Len(out) < OutCap
consume(out, n) == SubSeq(out, n + 1, Len(out))

\* Mutant: the queue has no limit.
enqueue_frame_Unbounded(k, f) == [k EXCEPT !.out = Append(@, f)]

enqueue_frame(k, f) ==
    IF HasRoom(k.out)
    THEN [k EXCEPT !.out = Append(@, f)]
    ELSE [k EXCEPT !.closed = TRUE]

\* Mutant: the frame that would block counts as written.
flush_client_Lossy(k) ==
    LET room == SockCap - Len(k.sock)
        n    == IF Len(k.out) < room THEN Len(k.out) ELSE room
        sent == [k EXCEPT !.sock = @ \o SubSeq(k.out, 1, n),
                          !.out  = consume(@, n + 1)]
    IN  IF k.closed THEN k
        ELSE [sent EXCEPT !.closed = k.close_after_flush /\ sent.out = <<>>]

flush_client(k) ==
    LET room == SockCap - Len(k.sock)
        n    == IF Len(k.out) < room THEN Len(k.out) ELSE room
        sent == [k EXCEPT !.sock = @ \o SubSeq(k.out, 1, n),
                          !.out  = consume(@, n)]
    IN  IF k.closed THEN k
        ELSE [sent EXCEPT !.closed = k.close_after_flush /\ sent.out = <<>>]

last_sequence == IF next_seq = 0 THEN MaxSeq ELSE next_seq - 1

\* Mutant: a new subscription is announced to the subscriber only.
broadcast_event_Private(cs, kind) ==
    [c \in Consumers |->
        IF cs[c].phase = "ready" /\ cs[c].subscribed /\ ~cs[c].closed
           /\ (kind = "subscribed" => cs[c] # conn[c])
        THEN enqueue_frame(cs[c], Frame(kind, next_seq, 0)) ELSE cs[c]]

\* The event is offered to every ready and subscribed session.
broadcast_event(cs, kind) ==
    [c \in Consumers |->
        IF cs[c].phase = "ready" /\ cs[c].subscribed /\ ~cs[c].closed
        THEN enqueue_frame(cs[c], Frame(kind, next_seq, 0)) ELSE cs[c]]

\* Mutant: the sequence goes on at 1 after the largest number.
encode_event_Wrap == next_seq' = IF next_seq = MaxSeq THEN 1 ELSE next_seq + 1

encode_event == next_seq' = IF next_seq = MaxSeq THEN 0 ELSE next_seq + 1

-----------------------------------------------------------------------------
(* Session::handle_frame and process_v1_frame, one action per kind of message.
   A frame is only taken while nothing is queued for its sender. *)
net == <<truth, previous, changes, sessions, stray>>

Serviceable(c) ==
    /\ ~conn[c].closed /\ ~conn[c].close_after_flush
    /\ conn[c].inbox # <<>> /\ conn[c].out = <<>>

Took(c, m) == Serviceable(c) /\ Head(conn[c].inbox) = m
Rest(c) == [conn[c] EXCEPT !.inbox = Tail(@)]

\* A command runs inside its handler and may change the network.
NextTruths == IF Flapping THEN Truth \ {truth} ELSE Truth \cap {truth + 1}
Changes    == changes < MaxChanges /\ changes' = changes + 1 /\ truth' \in NextTruths
Command    == Changes \/ UNCHANGED <<truth, changes>>

\* complete_v0_if_ready: one answer, then the connection ends.
HandleV0(c) ==
    /\ Took(c, "v0") /\ conn[c].phase = "undecided"
    /\ LET k == [enqueue_frame(Rest(c), Answer("response")) EXCEPT !.phase = "v0",
                                                                 !.close_after_flush = TRUE]
       IN  conn' = [conn EXCEPT ![c] = flush_client(k)]
    /\ Command
    /\ UNCHANGED <<next_seq, app, previous, sessions, stray>>

\* FrameDecoder reports an error; frames decoded from the same chunk are dropped.
HandleGarbage(c) ==
    /\ Serviceable(c)
    /\ \/ Took(c, "garbage")
       \/ Took(c, "v0") /\ conn[c].phase # "undecided"
       \/ ~Took(c, "v0") /\ \E n \in DOMAIN conn[c].inbox : IsGarbage(conn[c].inbox[n])
    /\ conn' = [conn EXCEPT ![c] = [Rest(c) EXCEPT !.closed = TRUE]]
    /\ UNCHANGED <<next_seq, app, net>>

HandleHello(c) ==
    /\ Took(c, "hello") /\ conn[c].phase \in {"undecided", "await_hello"}
    /\ LET k == [enqueue_frame(Rest(c), Answer("ready")) EXCEPT !.phase = "ready"]
       IN  conn' = [conn EXCEPT ![c] = flush_client(k)]
    /\ UNCHANGED <<next_seq, app, net>>

\* error_result(..., true): wrong version, request before HELLO, second HELLO.
HandleRefused(c) ==
    /\ \/ Took(c, "refused")
       \/ Took(c, "hello") /\ conn[c].phase = "ready"
       \/ /\ conn[c].phase # "ready"
          /\ \E m \in {"subscribe", "snapshot", "ping", "command"} : Took(c, m)
    /\ LET k == [enqueue_frame(Rest(c), Answer("error")) EXCEPT !.phase = "refused",
                                                              !.close_after_flush = TRUE]
       IN  conn' = [conn EXCEPT ![c] = flush_client(k)]
    /\ UNCHANGED <<next_seq, app, net>>

\* network.ping and malformed requests: one answer, no event.
HandlePing(c) ==
    /\ Took(c, "ping") /\ conn[c].phase = "ready"
    /\ conn' = [conn EXCEPT ![c] = flush_client(enqueue_frame(Rest(c), Answer("response")))]
    /\ UNCHANGED <<next_seq, app, net>>

\* dispatch_business_request: the daemon's command, then one answer, success or
\* failure; an answer too large for a frame ends the session.
HandleBusiness(c) ==
    /\ Took(c, "command") /\ conn[c].phase = "ready"
    /\ \/ conn' = [conn EXCEPT ![c] = flush_client(enqueue_frame(Rest(c), Answer("response")))]
       \/ conn' = [conn EXCEPT ![c] = [Rest(c) EXCEPT !.closed = TRUE]]
    /\ Command
    /\ UNCHANGED <<next_seq, app, previous, sessions, stray>>

\* SendAuthoritativeSnapshot: the live state under the last allocated sequence.
HandleSnapshot(c) ==
    /\ Took(c, "snapshot") /\ conn[c].phase = "ready"
    /\ LET f == Frame("snapshot", last_sequence, truth)
       IN  conn' = [conn EXCEPT ![c] = flush_client(enqueue_frame(Rest(c), f))]
    /\ UNCHANGED <<next_seq, app, net>>

\* The answer, then for a first subscription one sequenced control event for
\* every subscriber; the session ends if no sequence number is left.
HandleSubscribe(c) ==
    /\ Took(c, "subscribe") /\ conn[c].phase = "ready"
    /\ LET k  == [enqueue_frame(Rest(c), Answer("response")) EXCEPT !.subscribed = TRUE]
           cs == [conn EXCEPT ![c] = k]
       IN  \/ /\ conn[c].subscribed
              /\ conn' = [cs EXCEPT ![c] = flush_client(k)]
              /\ UNCHANGED next_seq
           \/ /\ ~conn[c].subscribed /\ next_seq # 0
              /\ LET sent == broadcast_event(cs, "subscribed")
                 IN  conn' = [sent EXCEPT ![c] = flush_client(@)]
              /\ encode_event
           \/ /\ ~conn[c].subscribed /\ next_seq = 0
              /\ conn' = [cs EXCEPT ![c].closed = TRUE]
              /\ UNCHANGED next_seq
    /\ UNCHANGED <<app, net>>

\* commit_protocol_if_possible when only the magic of a first frame has arrived.
ReceivePrefix(c) ==
    /\ conn[c].phase = "undecided" /\ conn[c].inbox = <<>> /\ ~conn[c].closed
    /\ stray < MaxStray /\ stray' = stray + 1
    /\ conn' = [conn EXCEPT ![c].phase = "await_hello"]
    /\ UNCHANGED <<next_seq, app, truth, previous, changes, sessions>>

Service(c) ==
    \/ HandleV0(c) \/ HandleGarbage(c) \/ HandleHello(c) \/ HandleRefused(c)
    \/ HandlePing(c) \/ HandleBusiness(c) \/ HandleSnapshot(c) \/ HandleSubscribe(c)

-----------------------------------------------------------------------------
(* The rest of the reactor. *)

Flush(c) ==
    /\ conn[c].out # <<>> /\ Len(conn[c].sock) < SockCap /\ ~conn[c].closed
    /\ conn' = [conn EXCEPT ![c] = flush_client(@)]
    /\ UNCHANGED <<next_seq, app, net>>

\* NetworkStateChangeDetector::observe: any semantic difference.
observe == truth # previous

\* observe_state, called by the 250 ms reconciliation, the netlink handler and the
\* 30 s fallback.  The detector keeps the new state even if no event can be sent.
observe_state ==
    /\ observe
    /\ previous' = truth
    /\ IF next_seq = 0 THEN UNCHANGED <<conn, next_seq>>
       ELSE conn' = broadcast_event(conn, "changed") /\ encode_event
    /\ UNCHANGED <<app, truth, changes, sessions, stray>>

\* Mutant: a v1 session that never says HELLO has no deadline.
needs_input_deadline_V0Only(k) ==
    ~k.close_after_flush /\ k.phase = "v0"

needs_input_deadline(k) ==
    ~k.close_after_flush /\ k.phase \in {"undecided", "await_hello", "v0"}

\* Mutant: no deadline for writes.
write_stalled_Never(k) == FALSE

write_stalled(k) == k.out # <<>> /\ Len(k.sock) = SockCap

\* apply_deadlines, once the time has passed since the last read or write progress;
\* input that has arrived and is not read yet does not count.
apply_deadlines(c) ==
    /\ ~conn[c].closed
    /\ \/ needs_input_deadline(conn[c])
       \/ write_stalled(conn[c])
    /\ conn' = [conn EXCEPT ![c].closed = TRUE]
    /\ UNCHANGED <<next_seq, app, net>>

\* cleanup_clients: the descriptor is closed, the consumer sees the end of it and
\* gives up its projection.
cleanup_clients(c) ==
    /\ conn[c].closed
    /\ conn' = [conn EXCEPT ![c] = NoConn]
    /\ app' = [app EXCEPT ![c] = Fresh]
    /\ UNCHANGED <<next_seq, net>>

\* accept: beyond the capacity the connection is closed at once.
Accept(c) ==
    /\ conn[c].phase = "none" /\ sessions[c] < MaxSessions
    /\ sessions' = [sessions EXCEPT ![c] = @ + 1]
    /\ conn' = IF Cardinality({d \in Consumers : conn[d].phase # "none"}) < MaxActive
               THEN [conn EXCEPT ![c].phase = "undecided"] ELSE conn
    /\ UNCHANGED <<next_seq, app, truth, previous, changes, stray>>

-----------------------------------------------------------------------------
(* The network and the consumers. *)

TruthChanges ==
    /\ Changes
    /\ UNCHANGED <<conn, next_seq, previous, app, sessions, stray>>

Put(c, m) ==
    /\ conn[c].phase # "none" /\ ~conn[c].closed /\ Len(conn[c].inbox) < MaxInbox
    /\ conn' = [conn EXCEPT ![c].inbox = Append(@, m)]

\* HELLO, then one subscription and a snapshot whenever the projection needs one.
Send(c) ==
    /\ \/ /\ "hello" \notin app[c].said
          /\ Put(c, "hello")
          /\ app' = [app EXCEPT ![c].said = @ \cup {"hello"}, ![c].owed = @ + 1]
       \/ /\ "hello" \in app[c].said /\ "subscribe" \notin app[c].said
          /\ Put(c, "subscribe")
          /\ app' = [app EXCEPT ![c].said = @ \cup {"subscribe"}, ![c].owed = @ + 1]
       \/ /\ "hello" \in app[c].said /\ app[c].want /\ ~app[c].asked
          /\ Put(c, "snapshot")
          /\ app' = [app EXCEPT ![c].asked = TRUE, ![c].owed = @ + 1]
    /\ UNCHANGED <<next_seq, net>>

\* Anything else a program may send.
SendStray(c) ==
    /\ stray < MaxStray /\ stray' = stray + 1
    /\ \E m \in Requests : Put(c, m)
    /\ app' = [app EXCEPT ![c].owed = @ + 1]
    /\ UNCHANGED <<next_seq, truth, previous, changes, sessions>>

\* recv returns 0 or fails, or send does.
Hangup(c) ==
    /\ conn[c].phase # "none" /\ ~conn[c].closed /\ stray < MaxStray
    /\ stray' = stray + 1
    /\ conn' = [conn EXCEPT ![c].closed = TRUE]
    /\ UNCHANGED <<next_seq, app, truth, previous, changes, sessions>>

\* Mutant: a forward jump is taken as the new position.
observe_event_Jump(a, seq) ==
    CASE ~a.baseline      -> [decision |-> "RebaseRequired", last |-> 0]
      [] seq <= a.last    -> [decision |-> "IgnoreStale", last |-> a.last]
      [] OTHER            -> [decision |-> "Accept", last |-> seq]

\* RebaseTracker::observe_event within one generation.
observe_event(a, seq) ==
    CASE ~a.baseline      -> [decision |-> "RebaseRequired", last |-> 0]
      [] a.baseline /\ seq <= a.last
                          -> [decision |-> "IgnoreStale", last |-> a.last]
      [] a.baseline /\ seq = a.last + 1
                          -> [decision |-> "Accept", last |-> seq]
      [] OTHER            -> [decision |-> "RebaseRequired", last |-> 0]

ReadEvent(c) ==
    /\ conn[c].sock # <<>> /\ IsEvent(Head(conn[c].sock))
    /\ LET f == Head(conn[c].sock)
           a == app[c]
           d == observe_event(a, f.seq)
       IN  app' = [app EXCEPT ![c] =
                   [a EXCEPT !.heard = f.seq, !.last = d.last,
                             !.baseline = a.baseline /\ d.decision # "RebaseRequired",
                             !.want = a.want \/ d.decision = "RebaseRequired"
                                      \/ (d.decision = "Accept" /\ f.kind = "changed")]]
    /\ conn' = [conn EXCEPT ![c].sock = Tail(@)]
    /\ UNCHANGED <<next_seq, net>>

\* RebaseTracker::rebase on a snapshot; other answers only settle the request.
ReadAnswer(c) ==
    /\ conn[c].sock # <<>> /\ ~IsEvent(Head(conn[c].sock))
    /\ LET f == Head(conn[c].sock)
           a == [app[c] EXCEPT !.owed = @ - 1]
       IN  app' = [app EXCEPT ![c] =
                   IF f.kind # "snapshot" THEN a
                   ELSE [a EXCEPT !.baseline = TRUE, !.last = f.seq, !.view = f.val,
                                  !.want = FALSE, !.asked = FALSE]]
    /\ conn' = [conn EXCEPT ![c].sock = Tail(@)]
    /\ UNCHANGED <<next_seq, net>>

Next ==
    \/ observe_state \/ TruthChanges
    \/ \E c \in Consumers :
          \/ Service(c) \/ Flush(c) \/ apply_deadlines(c) \/ cleanup_clients(c)
          \/ Accept(c) \/ ReceivePrefix(c) \/ Send(c) \/ SendStray(c) \/ Hangup(c)
          \/ ReadEvent(c) \/ ReadAnswer(c)

Spec == Init /\ [][Next]_vars

\* The reactor runs its lambdas forever; nothing is assumed of the consumers.  A
\* deadline is sure to pass only where nothing arrives or nothing can be written.
DeadlinePasses(c) ==
    (conn[c].inbox = <<>> \/ write_stalled(conn[c])) /\ apply_deadlines(c)
FairSpec ==
    /\ Spec
    /\ WF_vars(observe_state)
    /\ \A c \in Consumers : /\ WF_vars(Service(c)) /\ WF_vars(Flush(c))
                            /\ WF_vars(DeadlinePasses(c)) /\ WF_vars(cleanup_clients(c))

-----------------------------------------------------------------------------
(* Properties *)

Open(c) == conn[c].phase # "none" /\ ~conn[c].closed
Subscribed(c) == Open(c) /\ conn[c].phase = "ready" /\ conn[c].subscribed

\* Types of the variables, and the bound of the outbound queues.
TypeOK ==
    /\ next_seq \in 0..MaxSeq /\ truth \in Truth /\ previous \in Truth
    /\ \A c \in Consumers :
          /\ conn[c].phase \in {"none", "undecided", "v0", "await_hello", "ready", "refused"}
          /\ conn[c].inbox \in Seq(Requests)
          /\ Len(conn[c].out) <= OutCap /\ Len(conn[c].sock) <= SockCap
          /\ app[c].owed \in Nat /\ app[c].view \in Truth

\* All that is under way to a client, the oldest frame first.
Pipe(k) == k.sock \o k.out

\* No artificial gap (NETWORK_IPC_CONTRACT_V1.md:130): what a subscribed session
\* has heard, is about to receive and has queued is a run of consecutive sequence
\* numbers that ends at the last one allocated, whoever caused the events.
NoArtificialGap ==
    \A c \in Consumers : Subscribed(c) =>
        LET todo   == Pipe(conn[c])
            events == Events(todo)
            heard  == app[c].heard
        IN  /\ events = {} => heard # 0 /\ heard = last_sequence
            /\ \A i \in events :
                  /\ (\A j \in events : j <= i) => todo[i].seq = last_sequence
                  /\ heard # 0 /\ (\A j \in events : i <= j) => todo[i].seq = heard + 1
                  /\ \A j \in events :
                        i < j /\ (\A n \in events : n <= i \/ j <= n)
                        => todo[j].seq = todo[i].seq + 1

\* No request is lost and none answered twice while a session is open: what the
\* consumer has not yet had answered is still in the input or on its way back.
AnswersConserved ==
    \A c \in Consumers : Open(c) =>
        app[c].owed = Len(conn[c].inbox) + Answers(Pipe(conn[c]))

\* A consumer that follows the contract converges on the authoritative state
\* (NETWORK_IPC_CONTRACT_V1.md:257): once its session is idle, the observer has
\* seen the current state and the projection is trusted, the view is the truth.
Converged ==
    \A c \in Consumers :
        /\ Subscribed(c) /\ conn[c].inbox = <<>> /\ conn[c].out = <<>> /\ conn[c].sock = <<>>
        /\ app[c].baseline /\ ~app[c].want
        /\ previous = truth
        => app[c].view = truth

\* The reactor makes progress for every session: a message is handled and a queued
\* frame written, or the session ends, by the write-stall deadline if its consumer
\* stops reading; reads are suppressed while frames are queued, so each needs the
\* other.
SessionProgress ==
    \A c \in Consumers :
        /\ conn[c].inbox # <<>> ~> conn[c].inbox = <<>>
        /\ conn[c].out # <<>> ~> conn[c].out = <<>>

\* A connection that never completes the handshake gives its slot back.
HandshakeBounded ==
    \A c \in Consumers :
        LET waiting == conn[c].phase \in {"undecided", "await_hello"}
        IN  waiting ~> ~waiting
=============================================================================
