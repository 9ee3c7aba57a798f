----------------------- MODULE NetworkIpcServerProofs ------------------------
(***************************************************************************)
(* Proofs about NetworkIpcServer: the sizes of its queues, no artificial   *)
(* gap, and how a consumer's view follows the frames it is sent.           *)
(*                                                                         *)
(* Everything is said of the pipe of a session, its socket and its queue   *)
(* as one sequence: a flush leaves it alone, enqueue_frame appends to it   *)
(* or cuts the session, and a read takes its head.  Every action does one  *)
(* of a few things to one session (Effect), or gives one event to all      *)
(* (Offered); what is invariant is proved for each of these.               *)
(***************************************************************************)
EXTENDS NetworkIpcServer, Integers, TLAPS

\* A leaf that names no prover is one for Zenon.
USE ZenonT(60)

Kinds  == {"ready", "response", "error", "snapshot", "subscribed", "changed"}
Frames == [kind : Kinds, seq : 0..MaxSeq, val : Truth]
Phases == {"none", "undecided", "v0", "await_hello", "ready", "refused"}

Conn == [out : Seq(Frames), phase : Phases, subscribed : BOOLEAN, inbox : Seq(Requests),
         sock : Seq(Frames), close_after_flush : BOOLEAN, closed : BOOLEAN]
App  == [baseline : BOOLEAN, last : 0..MaxSeq, view : Truth, want : BOOLEAN,
         asked : BOOLEAN, said : SUBSET Requests, owed : Int, heard : 0..MaxSeq]

Typed ==
    /\ next_seq \in 0..MaxSeq /\ truth \in Truth /\ previous \in Truth
    /\ conn \in [Consumers -> Conn] /\ app \in [Consumers -> App]

Sized(k) == Len(k.out) <= OutCap /\ Len(k.sock) <= SockCap

\* A consumer without a connection is fresh; only a session that was ready once is
\* subscribed; the queues keep their limits.
Formed(k, a) ==
    /\ k.phase = "none" => k = NoConn /\ a = Fresh
    /\ k.subscribed => k.phase \in {"ready", "refused"}
    /\ Sized(k)

\* The session is open and may still become, or is, a subscriber.
Live(k) == ~k.closed /\ k.phase \in {"undecided", "await_hello", "ready"}

\* The events of p, heard before them and ls allocated last.
Gapless(p, heard, ls) ==
    /\ Events(p) = {} => heard # 0 /\ heard = ls
    /\ \A i \in Events(p) :
          /\ (\A j \in Events(p) : j <= i) => p[i].seq = ls
          /\ heard # 0 /\ (\A j \in Events(p) : i <= j) => p[i].seq = heard + 1
          /\ \A j \in Events(p) :
                i < j /\ (\A n \in Events(p) : n <= i \/ j <= n) => p[j].seq = p[i].seq + 1

Rising(p, ls) ==
    /\ \A i \in Events(p) : 0 < p[i].seq /\ p[i].seq <= ls
    /\ \A i, j \in Events(p) : i < j => p[i].seq < p[j].seq

\* Nothing was numbered for a session before it subscribes.
Numbered(k, a, ls) ==
    Live(k) =>
        /\ ~k.subscribed => Events(Pipe(k)) = {} /\ a.heard = 0
        /\ k.subscribed => Gapless(Pipe(k), a.heard, ls)
        /\ Rising(Pipe(k), ls)

\* No snapshot is from the future.
Past(k, a, ls) ==
    /\ a.last <= ls
    /\ \A i \in DOMAIN Pipe(k) : Pipe(k)[i].seq <= ls

ConnInv(k, a, ls) == Formed(k, a) /\ Numbered(k, a, ls) /\ Past(k, a, ls)

IpcInv == Typed /\ \A c \in Consumers : ConnInv(conn[c], app[c], last_sequence)

-----------------------------------------------------------------------------
(* Sequences of frames. *)
LEMMA Bounds ==
    /\ OutCap \in Nat /\ OutCap > 0 /\ SockCap \in Nat /\ SockCap > 0
    /\ MaxSeq \in Nat /\ MaxSeq > 0 /\ MaxTruth \in Nat /\ Flapping \in BOOLEAN
    /\ MaxChanges \in Nat
BY BoundAssumption, SMTT(60)

LEMMA StillFits ==
    ASSUME NEW m \in Nat, NEW n, n = m - 1, m <= SockCap
    PROVE  n <= SockCap
BY Bounds, SMTT(60)

LEMMA AppendFacts ==
    ASSUME NEW p \in Seq(Frames), NEW f \in Frames
    PROVE  /\ Append(p, f) \in Seq(Frames) /\ Len(p) \in Nat
           /\ DOMAIN p = 1 .. Len(p) /\ DOMAIN Append(p, f) = 1 .. (Len(p) + 1)
           /\ \A i \in 1 .. Len(p) : Append(p, f)[i] = p[i] /\ p[i] \in Frames
           /\ Append(p, f)[Len(p) + 1] = f
<1>1. Append(p, f) \in Seq(Frames) /\ Len(Append(p, f)) = Len(p) + 1
  BY SMTT(60)
<1> QED BY <1>1, SMTT(60)

LEMMA TailFacts ==
    ASSUME NEW p \in Seq(Frames), p # <<>>
    PROVE  /\ Head(p) = p[1] /\ Head(p) \in Frames /\ Tail(p) \in Seq(Frames)
           /\ Len(p) \in Nat \ {0}
           /\ DOMAIN p = 1 .. Len(p) /\ DOMAIN Tail(p) = 1 .. (Len(p) - 1)
           /\ \A i \in DOMAIN Tail(p) : i + 1 \in DOMAIN p /\ Tail(p)[i] = p[i + 1] /\ i \in Nat
           /\ \A i \in DOMAIN p : i \in Nat /\ (i = 1 \/ (i > 1 /\ i - 1 \in DOMAIN Tail(p)
                                                       /\ Tail(p)[i - 1] = p[i]))
<1>1. /\ Head(p) \in Frames /\ Tail(p) \in Seq(Frames) /\ Len(Tail(p)) = Len(p) - 1
      /\ \A i \in 1 .. Len(Tail(p)) : Tail(p)[i] = p[i + 1]
  BY SMTT(60)
<1>2. Len(p) \in Nat \ {0}
  BY SMTT(60)
<1>3. Head(p) = p[1]
  BY SMTT(60)
<1>4. DOMAIN p = 1 .. Len(p) /\ DOMAIN Tail(p) = 1 .. (Len(p) - 1)
  BY <1>1, SMTT(60)
<1> QED BY <1>1, <1>2, <1>3, <1>4, SMTT(60)

LEMMA ConcatFacts ==
    ASSUME NEW s \in Seq(Frames), NEW o \in Seq(Frames)
    PROVE  /\ s \o o \in Seq(Frames) /\ Len(s \o o) = Len(s) + Len(o)
           /\ \A i \in 1 .. Len(s) + Len(o) :
                 (s \o o)[i] = IF i <= Len(s) THEN s[i] ELSE o[i - Len(s)]
BY SMTT(60)

LEMMA PipeType ==
    ASSUME NEW k \in Conn
    PROVE  Pipe(k) \in Seq(Frames)
<1>1. k.sock \in Seq(Frames) /\ k.out \in Seq(Frames)  BY DEF Conn
<1> QED BY <1>1, SMTT(60) DEF Pipe

LEMMA AppendToPipe ==
    ASSUME NEW s \in Seq(Frames), NEW o \in Seq(Frames), NEW f \in Frames
    PROVE  s \o Append(o, f) = Append(s \o o, f)
<1>1. s \o o \in Seq(Frames)  BY SMTT(60)
<1>2. <<f>> \in Seq(Frames)  BY SMTT(60)
<1> QED BY <1>1, <1>2, SMTT(60)

LEMMA MovedInPipe ==
    ASSUME NEW s \in Seq(Frames), NEW o \in Seq(Frames), NEW n \in 0 .. Len(o)
    PROVE  LET moved == SubSeq(o, 1, n)
               rest  == SubSeq(o, n + 1, Len(o))
           IN  /\ moved \in Seq(Frames) /\ rest \in Seq(Frames)
               /\ Len(moved) = n /\ Len(rest) = Len(o) - n
               /\ (s \o moved) \o rest = s \o o
<1> DEFINE moved == SubSeq(o, 1, n)
           rest  == SubSeq(o, n + 1, Len(o))
<1>1. Len(o) \in Nat /\ n \in Nat /\ \A i \in 1 .. Len(o) : o[i] \in Frames
  BY SMTT(60)
<1>2. moved \in Seq(Frames) /\ Len(moved) = n
  BY <1>1, SMTT(60)
<1>3. rest \in Seq(Frames) /\ Len(rest) = Len(o) - n
  <2>1. /\ rest \in Seq(Frames)
        /\ Len(rest) = IF n + 1 <= Len(o) THEN Len(o) - (n + 1) + 1 ELSE 0
    BY <1>1, SMTT(60)
  <2> HIDE DEF rest
  <2> QED BY <1>1, <2>1, SMTT(60)
<1>4. moved \o rest = o
  <2>1. \A i \in 1 .. n : moved[i] = o[i]  BY <1>1, SMTT(60)
  <2>2. \A i \in 1 .. Len(o) - n : rest[i] = o[n + i]  BY <1>1, SMTT(60)
  <2> HIDE DEF moved, rest
  <2> DEFINE q == moved \o rest
  <2>3. /\ q \in Seq(Frames) /\ Len(q) = Len(moved) + Len(rest)
        /\ \A i \in 1 .. Len(moved) + Len(rest) :
              q[i] = IF i <= Len(moved) THEN moved[i] ELSE rest[i - Len(moved)]
    BY <1>2, <1>3, ConcatFacts
  <2> HIDE DEF q
  <2>4. Len(q) = Len(o) /\ Len(moved) + Len(rest) = Len(o)  BY <1>1, <1>2, <1>3, <2>3, SMTT(60)
  <2>5. ASSUME NEW i \in 1 .. Len(o) PROVE q[i] = o[i]
    <3>1. CASE i <= n  BY <1>1, <1>2, <2>1, <2>3, <2>4, <3>1, SMTT(60)
    <3>2. CASE ~(i <= n)
      <4>1. i - n \in 1 .. Len(o) - n /\ n + (i - n) = i  BY <1>1, <3>2, SMTT(60)
      <4> QED BY <1>2, <2>2, <2>3, <2>4, <3>2, <4>1
    <3> QED BY <3>1, <3>2
  <2>6. q = o  BY <2>3, <2>4, <2>5, SMTT(60)
  <2> QED BY <2>6 DEF q
<1> HIDE DEF moved, rest
<1>5. (s \o moved) \o rest = s \o (moved \o rest)
  <2>1. \A t, u \in Seq(Frames) : (s \o t) \o u = s \o (t \o u)
    BY SMTT(60)
  <2> QED BY <1>2, <1>3, <2>1
<1>6. moved \in Seq(Frames) /\ rest \in Seq(Frames) /\ Len(moved) = n
      /\ Len(rest) = Len(o) - n /\ (s \o moved) \o rest = s \o o
  BY <1>2, <1>3, <1>4, <1>5
<1> QED BY <1>6 DEF moved, rest

LEMMA TailOfPipe ==
    ASSUME NEW s \in Seq(Frames), NEW o \in Seq(Frames), s # <<>>
    PROVE  /\ s \o o # <<>> /\ Head(s \o o) = Head(s)
           /\ Tail(s) \o o = Tail(s \o o)
<1> DEFINE p == s \o o
           t == Tail(s)
<1>1. /\ p \in Seq(Frames) /\ Len(p) = Len(s) + Len(o)
      /\ \A i \in 1 .. Len(s) + Len(o) : p[i] = IF i <= Len(s) THEN s[i] ELSE o[i - Len(s)]
  BY SMTT(60)
<1>2. Len(s) \in Nat \ {0} /\ Len(o) \in Nat
  BY SMTT(60)
<1> HIDE DEF p
<1>3. p # <<>>
  <2>1. Len(p) # 0  BY <1>1, <1>2, SMTT(60)
  <2> QED BY <2>1, SMTT(60)
<1>4. Head(p) = p[1] /\ Head(s) = s[1] /\ p[1] = s[1]
  BY <1>1, <1>2, <1>3, TailFacts, SMTT(60)
<1>5. /\ t \in Seq(Frames) /\ Len(t) = Len(s) - 1
      /\ \A i \in 1 .. Len(t) : t[i] = s[i + 1]
  BY SMTT(60)
<1>6. /\ Tail(p) \in Seq(Frames) /\ Len(Tail(p)) = Len(p) - 1
      /\ \A i \in 1 .. Len(Tail(p)) : Tail(p)[i] = p[i + 1]
  BY <1>1, <1>3, SMTT(60)
<1> HIDE DEF t
<1> DEFINE q == t \o o
           u == Tail(p)
<1>7. /\ q \in Seq(Frames) /\ Len(q) = Len(t) + Len(o)
      /\ \A i \in 1 .. Len(t) + Len(o) : q[i] = IF i <= Len(t) THEN t[i] ELSE o[i - Len(t)]
  BY <1>5, ConcatFacts
<1>8. u \in Seq(Frames) /\ Len(u) = Len(p) - 1 /\ \A i \in 1 .. Len(u) : u[i] = p[i + 1]
  BY <1>6
<1> HIDE DEF q, u
<1>9. Len(q) = Len(u)
  BY <1>1, <1>2, <1>5, <1>7, <1>8, SMTT(60)
<1>10. ASSUME NEW i \in 1 .. Len(q) PROVE q[i] = u[i]
  <2>1. i \in 1 .. Len(u) /\ i \in Nat /\ i + 1 \in 1 .. Len(s) + Len(o)
    BY <1>1, <1>2, <1>5, <1>7, <1>9, SMTT(60)
  <2>2. u[i] = IF i + 1 <= Len(s) THEN s[i + 1] ELSE o[(i + 1) - Len(s)]
    BY <1>1, <1>8, <2>1
  <2>3. q[i] = IF i <= Len(s) - 1 THEN t[i] ELSE o[i - (Len(s) - 1)]
    BY <1>5, <1>7, <2>1
  <2>4. (i + 1) - Len(s) = i - (Len(s) - 1) /\ (i + 1 <= Len(s) <=> i <= Len(s) - 1)
    BY <1>2, <2>1, SMTT(60)
  <2>5. i <= Len(s) - 1 => t[i] = s[i + 1]
    BY <1>2, <1>5, <2>1, SMTT(60)
  <2> QED BY <2>2, <2>3, <2>4, <2>5, SMTT(60)
<1>11. q = u
  BY <1>7, <1>8, <1>9, <1>10, SMTT(60)
<1> QED BY <1>3, <1>4, <1>11 DEF p, q, t, u

\* Where the events and how many answers are, after one more frame or one less.
LEMMA EventsFacts ==
    ASSUME NEW p \in Seq(Frames), NEW f \in Frames
    PROVE  /\ Events(p) \subseteq 1 .. Len(p)
           /\ Events(Append(p, f)) = Events(p) \cup (IF IsEvent(f) THEN {Len(p) + 1} ELSE {})
           /\ \A i \in Events(p) : Append(p, f)[i] = p[i] /\ i < Len(p) + 1 /\ i \in Nat /\ i # 0
BY AppendFacts, SMTT(60) DEF Events

LEMMA EventsOfTail ==
    ASSUME NEW p \in Seq(Frames), p # <<>>
    PROVE  /\ 1 \in Events(p) <=> IsEvent(Head(p))
           /\ \A i \in Events(Tail(p)) : i + 1 \in Events(p) /\ Tail(p)[i] = p[i + 1] /\ i \in Nat
                                         /\ i > 0
           /\ \A i \in Events(p) : i \in Nat /\ (i = 1 \/ (i > 1 /\ i - 1 \in Events(Tail(p))
                                                         /\ Tail(p)[i - 1] = p[i]))
<1>1. /\ Head(p) = p[1] /\ Len(p) \in Nat \ {0}
      /\ DOMAIN p = 1 .. Len(p) /\ DOMAIN Tail(p) = 1 .. (Len(p) - 1)
      /\ \A i \in DOMAIN Tail(p) : i + 1 \in DOMAIN p /\ Tail(p)[i] = p[i + 1] /\ i \in Nat
      /\ \A i \in DOMAIN p : i \in Nat /\ (i = 1 \/ (i > 1 /\ i - 1 \in DOMAIN Tail(p)
                                                  /\ Tail(p)[i - 1] = p[i]))
  BY TailFacts
<1>2. \A i \in DOMAIN Tail(p) : i > 0
  BY <1>1, SMTT(60)
<1> QED BY <1>1, <1>2, SMTT(60) DEF Events

-----------------------------------------------------------------------------
(* What the reactor's helpers do to a connection. *)
LEMMA Enqueued ==
    ASSUME NEW k \in Conn, NEW f \in Frames, Len(k.out) <= OutCap
    PROVE  LET l == enqueue_frame(k, f)
           IN  /\ l \in Conn /\ Len(l.out) <= OutCap /\ l.sock = k.sock
               /\ l.inbox = k.inbox /\ l.phase = k.phase /\ l.subscribed = k.subscribed
               /\ l.close_after_flush = k.close_after_flush
               /\ Len(k.out) < OutCap =>
                     l.closed = k.closed /\ Pipe(l) = Append(Pipe(k), f)
               /\ ~(Len(k.out) < OutCap) => l.closed /\ Pipe(l) = Pipe(k)
<1> DEFINE o == Append(k.out, f)
           l == [k EXCEPT !.out = o]
           m == [k EXCEPT !.closed = TRUE]
<1>1. /\ k.out \in Seq(Frames) /\ k.sock \in Seq(Frames) /\ Len(k.out) \in Nat
      /\ o \in Seq(Frames) /\ Len(o) = Len(k.out) + 1
  BY SMTT(60) DEF Conn
<1>2. k.sock \o o = Append(k.sock \o k.out, f)
  BY <1>1, AppendToPipe
<1>3. enqueue_frame(k, f) = IF Len(k.out) < OutCap THEN l ELSE m
  BY DEF enqueue_frame, HasRoom
<1> HIDE DEF o
<1>4. /\ l \in Conn /\ l.out = o /\ l.sock = k.sock /\ l.inbox = k.inbox /\ l.phase = k.phase
      /\ l.subscribed = k.subscribed /\ l.close_after_flush = k.close_after_flush
      /\ l.closed = k.closed
  BY <1>1 DEF Conn
<1>5. /\ m \in Conn /\ m.out = k.out /\ m.sock = k.sock /\ m.inbox = k.inbox
      /\ m.phase = k.phase
      /\ m.subscribed = k.subscribed /\ m.close_after_flush = k.close_after_flush
      /\ m.closed
  BY DEF Conn
<1> HIDE DEF l, m
<1>6. Pipe(l) = Append(Pipe(k), f) /\ Pipe(m) = Pipe(k)
  BY <1>2, <1>4, <1>5 DEF Pipe
<1>7. Len(k.out) < OutCap => Len(o) <= OutCap
  BY <1>1, Bounds, SMTT(60)
<1> QED BY <1>3, <1>4, <1>5, <1>6, <1>7

LEMMA Flushed ==
    ASSUME NEW k \in Conn, Len(k.sock) <= SockCap, Len(k.out) <= OutCap
    PROVE  LET l == flush_client(k)
           IN  /\ l \in Conn /\ Len(l.out) <= OutCap /\ Len(l.sock) <= SockCap
               /\ l.inbox = k.inbox /\ l.phase = k.phase /\ l.subscribed = k.subscribed
               /\ Pipe(l) = Pipe(k)
               /\ k.closed => l = k
               /\ ~k.close_after_flush => l.closed = k.closed
<1> DEFINE room == SockCap - Len(k.sock)
           n    == IF Len(k.out) < room THEN Len(k.out) ELSE room
           moved == SubSeq(k.out, 1, n)
           rest  == SubSeq(k.out, n + 1, Len(k.out))
           s    == k.sock \o moved
           sent == [k EXCEPT !.sock = s, !.out = rest]
           end  == k.close_after_flush /\ rest = <<>>
           l    == [sent EXCEPT !.closed = end]
<1>1. /\ k.out \in Seq(Frames) /\ k.sock \in Seq(Frames)
      /\ Len(k.out) \in Nat /\ Len(k.sock) \in Nat
  BY SMTT(60) DEF Conn
<1>2. n \in 0 .. Len(k.out) /\ Len(k.sock) + n <= SockCap /\ SockCap \in Nat /\ OutCap \in Nat
  <2>1. \A x, y, cap \in Nat : y <= cap =>
           LET m == IF x < cap - y THEN x ELSE cap - y IN m \in 0 .. x /\ y + m <= cap
    BY SMTT(60)
  <2> QED BY <1>1, <2>1, Bounds
<1> HIDE DEF n
<1>3. /\ moved \in Seq(Frames) /\ rest \in Seq(Frames)
      /\ Len(moved) = n /\ Len(rest) = Len(k.out) - n
      /\ s \o rest = k.sock \o k.out
  BY <1>1, <1>2, MovedInPipe
<1>4. s \in Seq(Frames) /\ Len(s) = Len(k.sock) + n
  BY <1>1, <1>3, SMTT(60)
<1>5. sent.out = rest  BY DEF Conn
<1>6. flush_client(k) = IF k.closed THEN k ELSE l
  BY <1>5 DEF flush_client, consume, n
<1> HIDE DEF moved, rest, s
<1>7. end \in BOOLEAN
  OBVIOUS
<1> HIDE DEF end
<1>8. /\ l \in Conn /\ l.out = rest /\ l.sock = s /\ l.inbox = k.inbox /\ l.phase = k.phase
      /\ l.subscribed = k.subscribed /\ l.closed = end
  BY <1>3, <1>4, <1>7 DEF Conn
<1> HIDE DEF l
<1>9. Pipe(l) = Pipe(k)
  BY <1>3, <1>8 DEF Pipe
<1>10. Len(rest) <= OutCap /\ Len(s) <= SockCap
  BY <1>1, <1>2, <1>3, <1>4, SMTT(60)
<1>11. ~k.close_after_flush => end = FALSE
  BY DEF end
<1>12. ~k.closed => k.closed = FALSE
  BY DEF Conn
<1> QED BY <1>6, <1>8, <1>9, <1>10, <1>11, <1>12

LEMMA SocketSize == \A k \in Conn : Len(k.sock) \in Nat
<1> SUFFICES ASSUME NEW k \in Conn PROVE Len(k.sock) \in Nat
  OBVIOUS
<1>1. k.sock \in Seq(Frames)  BY DEF Conn
<1> QED BY <1>1, SMTT(60)

LEMMA Popped ==
    ASSUME NEW k \in Conn, k.sock # <<>>
    PROVE  LET l == [k EXCEPT !.sock = Tail(@)]
           IN  /\ l \in Conn /\ l.out = k.out /\ Len(l.sock) = Len(k.sock) - 1
               /\ l.inbox = k.inbox /\ l.phase = k.phase /\ l.subscribed = k.subscribed
               /\ l.closed = k.closed
               /\ Pipe(k) # <<>> /\ Head(Pipe(k)) = Head(k.sock) /\ Pipe(l) = Tail(Pipe(k))
<1> DEFINE t == Tail(k.sock)
           l == [k EXCEPT !.sock = t]
<1>1. k.out \in Seq(Frames) /\ k.sock \in Seq(Frames)
  BY DEF Conn
<1>2. t \in Seq(Frames) /\ Len(t) = Len(k.sock) - 1
  BY <1>1, SMTT(60)
<1>3. /\ Pipe(k) # <<>> /\ Head(Pipe(k)) = Head(k.sock) /\ t \o k.out = Tail(Pipe(k))
  BY <1>1, TailOfPipe DEF Pipe
<1> HIDE DEF t
<1>4. /\ l \in Conn /\ l.out = k.out /\ l.sock = t /\ l.inbox = k.inbox /\ l.phase = k.phase
      /\ l.subscribed = k.subscribed /\ l.closed = k.closed
  BY <1>2 DEF Conn
<1> HIDE DEF l
<1>5. Pipe(l) = Tail(Pipe(k))
  BY <1>3, <1>4 DEF Pipe
<1> QED BY <1>2, <1>3, <1>4, <1>5 DEF l, t

-----------------------------------------------------------------------------
(* The run of numbers, after one more frame or one less. *)
LEMMA AnswerQueued ==
    ASSUME NEW p \in Seq(Frames), NEW f \in Frames, ~IsEvent(f), NEW ls \in Nat
    PROVE  /\ Events(Append(p, f)) = Events(p)
           /\ \A heard : Gapless(p, heard, ls) => Gapless(Append(p, f), heard, ls)
           /\ Rising(p, ls) => Rising(Append(p, f), ls)
<1> DEFINE q == Append(p, f)
<1>1. Events(q) = Events(p) /\ \A i \in Events(p) : q[i] = p[i]
  BY EventsFacts
<1> HIDE DEF q
<1>2. /\ \A heard : Gapless(p, heard, ls) => Gapless(q, heard, ls)
      /\ Rising(p, ls) => Rising(q, ls)
  BY <1>1, SMTT(60) DEF Gapless, Rising
<1> QED BY <1>1, <1>2 DEF q

LEMMA EventQueued ==
    ASSUME NEW p \in Seq(Frames), NEW f \in Frames, IsEvent(f), NEW ls \in Nat,
           f.seq = ls + 1, NEW heard \in Nat, Rising(p, ls),
           Gapless(p, heard, ls) \/ (Events(p) = {} /\ heard = 0)
    PROVE  Gapless(Append(p, f), heard, ls + 1) /\ Rising(Append(p, f), ls + 1)
<1> DEFINE q == Append(p, f)
           n == Len(p) + 1
<1>1. /\ Events(q) = Events(p) \cup {n} /\ n \in Nat /\ q[n] = f
      /\ \A i \in Events(p) : q[i] = p[i] /\ i < n /\ i \in Nat /\ p[i].seq \in Nat
  <2>1. Events(q) = Events(p) \cup {n} /\ n \in Nat /\ q[n] = f
    BY EventsFacts, AppendFacts
  <2>2. \A i \in Events(p) : q[i] = p[i] /\ i < n /\ i \in Nat
    BY EventsFacts
  <2>3. \A i \in Events(p) : p[i] \in Frames
    BY EventsFacts, AppendFacts
  <2>4. \A g \in Frames : g.seq \in Nat
    BY Bounds, SMTT(60) DEF Frames
  <2> HIDE DEF q, n
  <2> QED BY <2>1, <2>2, <2>3, <2>4
<1> HIDE DEF q, n
<1>2. Rising(q, ls + 1)
  BY <1>1, SMTT(60) DEF Rising
<1>3. n \in Events(q) /\ Events(q) # {} /\ \A i \in Events(q) : i <= n
  BY <1>1, SMTT(60)
<1>4. ASSUME NEW i \in Events(q), \A j \in Events(q) : j <= i PROVE q[i].seq = ls + 1
  BY <1>1, <1>4, SMTT(60)
<1>5. ASSUME NEW i \in Events(q), heard # 0, \A j \in Events(q) : i <= j
      PROVE  q[i].seq = heard + 1
  <2>1. CASE i = n
    <3>1. \A m \in Events(p) : n <= m /\ m < n /\ m \in Nat  BY <1>1, <1>5, <2>1
    <3>2. Events(p) = {}  BY <1>1, <3>1, SMTT(60)
    <3> QED BY <1>1, <1>5, <2>1, <3>2 DEF Gapless
  <2>2. CASE i # n
    BY <1>1, <1>5, <2>2 DEF Gapless
  <2> QED BY <2>1, <2>2
<1>6. ASSUME NEW i \in Events(q), NEW j \in Events(q), i < j,
             \A m \in Events(q) : m <= i \/ j <= m
      PROVE  q[j].seq = q[i].seq + 1
  <2>1. i \in Events(p)
    <3>1. i # n
      <4>1. j <= n /\ j \in Nat /\ i \in Nat  BY <1>1, <1>3
      <4> QED BY <1>6, <4>1, SMTT(60)
    <3> QED BY <1>1, <3>1
  <2>2. CASE j = n
    <3>1. ASSUME NEW m \in Events(p) PROVE m <= i
      <4>1. m \in Nat /\ m < n /\ m \in Events(q)  BY <1>1
      <4>2. m <= i \/ n <= m  BY <1>6, <2>2, <4>1
      <4> QED BY <1>1, <4>1, <4>2, SMTT(60)
    <3> QED BY <1>1, <2>1, <2>2, <3>1 DEF Gapless
  <2>3. CASE j # n
    BY <1>1, <1>6, <2>1, <2>3 DEF Gapless
  <2> QED BY <2>2, <2>3
<1>7. Gapless(q, heard, ls + 1)
  BY <1>3, <1>4, <1>5, <1>6 DEF Gapless
<1> QED BY <1>2, <1>7 DEF q

LEMMA FrameTaken ==
    ASSUME NEW p \in Seq(Frames), p # <<>>, NEW ls \in Nat, Rising(p, ls)
    PROVE  /\ Rising(Tail(p), ls)
           /\ Events(p) = {} => Events(Tail(p)) = {} /\ ~IsEvent(Head(p))
<1> DEFINE q == Tail(p)
<1>1. /\ 1 \in Events(p) <=> IsEvent(Head(p))
      /\ \A i \in Events(q) : i + 1 \in Events(p) /\ q[i] = p[i + 1] /\ i \in Nat /\ i > 0
  BY EventsOfTail
<1> HIDE DEF q
<1>2. Rising(q, ls)
  BY <1>1, SMTT(60) DEF Rising
<1> QED BY <1>1, <1>2 DEF q

LEMMA AnswerTaken ==
    ASSUME NEW p \in Seq(Frames), p # <<>>, NEW ls \in Nat, NEW heard \in Nat,
           ~IsEvent(Head(p)), Gapless(p, heard, ls)
    PROVE  Gapless(Tail(p), heard, ls)
<1> DEFINE q == Tail(p)
<1>1. /\ \A i \in Events(q) : i + 1 \in Events(p) /\ q[i] = p[i + 1] /\ i \in Nat /\ i > 0
      /\ \A i \in Events(p) : i \in Nat /\ i > 1 /\ i - 1 \in Events(q) /\ q[i - 1] = p[i]
  BY EventsOfTail
<1> HIDE DEF q
<1>2. Events(q) = {} => Events(p) = {}
  BY <1>1
<1>3. ASSUME NEW i \in Events(q), \A j \in Events(q) : j <= i PROVE q[i].seq = ls
  <2>1. \A j \in Events(p) : j <= i + 1  BY <1>1, <1>3, SMTT(60)
  <2> QED BY <1>1, <2>1, SMTT(60) DEF Gapless
<1>4. ASSUME NEW i \in Events(q), heard # 0, \A j \in Events(q) : i <= j
      PROVE  q[i].seq = heard + 1
  <2>1. \A j \in Events(p) : i + 1 <= j  BY <1>1, <1>4, SMTT(60)
  <2> QED BY <1>1, <1>4, <2>1, SMTT(60) DEF Gapless
<1>5. ASSUME NEW i \in Events(q), NEW j \in Events(q), i < j,
             \A m \in Events(q) : m <= i \/ j <= m
      PROVE  q[j].seq = q[i].seq + 1
  <2>1. i + 1 < j + 1 /\ \A m \in Events(p) : m <= i + 1 \/ j + 1 <= m
    <3>1. i \in Nat /\ j \in Nat  BY <1>1
    <3>2. ASSUME NEW m \in Events(p) PROVE m <= i + 1 \/ j + 1 <= m
      <4>1. m = 1 => m <= i + 1  BY <3>1, SMTT(60)
      <4>2. m # 1 => m \in Nat /\ (m - 1 <= i \/ j <= m - 1)  BY <1>1, <1>5
      <4> QED BY <3>1, <4>1, <4>2, SMTT(60)
    <3> QED BY <1>5, <3>1, <3>2, SMTT(60)
  <2>2. p[j + 1].seq = p[i + 1].seq + 1  BY <1>1, <2>1 DEF Gapless
  <2> QED BY <1>1, <2>2
<1>6. Gapless(q, heard, ls)
  BY <1>2, <1>3, <1>4, <1>5 DEF Gapless
<1> QED BY <1>6 DEF q

LEMMA EventTaken ==
    ASSUME NEW p \in Seq(Frames), p # <<>>, NEW ls \in Nat, NEW heard \in Nat,
           IsEvent(Head(p)), Gapless(p, heard, ls), Rising(p, ls)
    PROVE  /\ Gapless(Tail(p), Head(p).seq, ls)
           /\ Head(p).seq # 0 /\ Head(p).seq <= ls
           /\ heard # 0 => Head(p).seq = heard + 1
<1> DEFINE q == Tail(p)
<1>1. /\ \A i \in Events(q) : i + 1 \in Events(p) /\ q[i] = p[i + 1] /\ i \in Nat /\ i > 0
      /\ \A i \in Events(p) : i \in Nat /\ (i = 1 \/ (i > 1 /\ i - 1 \in Events(q)
                                                     /\ q[i - 1] = p[i]))
      /\ 1 \in Events(p)
  BY EventsOfTail
<1> HIDE DEF q
<1>2. Head(p) = p[1] /\ Head(p).seq \in Nat
  <2>1. Head(p) = p[1] /\ Head(p) \in Frames  BY TailFacts
  <2> QED BY <2>1, Bounds, SMTT(60) DEF Frames
<1>3. Head(p).seq # 0 /\ Head(p).seq <= ls
  BY <1>1, <1>2, SMTT(60) DEF Rising
<1>4. \A j \in Events(p) : 1 <= j
  BY <1>1, SMTT(60)
<1>5. heard # 0 => Head(p).seq = heard + 1
  BY <1>1, <1>2, <1>4 DEF Gapless
<1>6. Events(q) = {} => Head(p).seq = ls
  <2> SUFFICES ASSUME Events(q) = {} PROVE Head(p).seq = ls
    OBVIOUS
  <2>1. \A j \in Events(p) : j <= 1  BY <1>1, SMTT(60)
  <2> QED BY <1>1, <1>2, <2>1 DEF Gapless
<1>7. ASSUME NEW i \in Events(q), \A j \in Events(q) : j <= i PROVE q[i].seq = ls
  <2>1. \A j \in Events(p) : j <= i + 1  BY <1>1, <1>7, SMTT(60)
  <2> QED BY <1>1, <2>1, SMTT(60) DEF Gapless
<1>8. ASSUME NEW i \in Events(q), \A j \in Events(q) : i <= j
      PROVE  q[i].seq = Head(p).seq + 1
  <2>1. 1 < i + 1 /\ \A m \in Events(p) : m <= 1 \/ i + 1 <= m
    <3>1. i \in Nat /\ i > 0  BY <1>1
    <3>2. ASSUME NEW m \in Events(p) PROVE m <= 1 \/ i + 1 <= m
      <4>1. m # 1 => m \in Nat /\ i <= m - 1  BY <1>1, <1>8
      <4> QED BY <3>1, <4>1, SMTT(60)
    <3> QED BY <3>1, <3>2, SMTT(60)
  <2>2. p[i + 1].seq = p[1].seq + 1  BY <1>1, <2>1 DEF Gapless
  <2> QED BY <1>1, <1>2, <2>2
<1>9. ASSUME NEW i \in Events(q), NEW j \in Events(q), i < j,
             \A m \in Events(q) : m <= i \/ j <= m
      PROVE  q[j].seq = q[i].seq + 1
  <2>1. i + 1 < j + 1 /\ \A m \in Events(p) : m <= i + 1 \/ j + 1 <= m
    <3>1. i \in Nat /\ j \in Nat  BY <1>1
    <3>2. ASSUME NEW m \in Events(p) PROVE m <= i + 1 \/ j + 1 <= m
      <4>1. m = 1 => m <= i + 1  BY <3>1, SMTT(60)
      <4>2. m # 1 => m \in Nat /\ (m - 1 <= i \/ j <= m - 1)  BY <1>1, <1>9
      <4> QED BY <3>1, <4>1, <4>2, SMTT(60)
    <3> QED BY <1>9, <3>1, <3>2, SMTT(60)
  <2>2. p[j + 1].seq = p[i + 1].seq + 1  BY <1>1, <2>1 DEF Gapless
  <2> QED BY <1>1, <2>2
<1>10. Gapless(q, Head(p).seq, ls)
  BY <1>3, <1>6, <1>7, <1>8, <1>9 DEF Gapless
<1> QED BY <1>3, <1>5, <1>10 DEF q

-----------------------------------------------------------------------------
(* What a step can do to a connection k and its consumer a. *)

\* Only the place of frames, or the handshake phase, changes.
Still(k, l, a, b) ==
    /\ b = a /\ Sized(l) /\ (k.phase = "none" => l = k)
    /\ Pipe(l) = Pipe(k) /\ Len(l.inbox) = Len(k.inbox)
    /\ l.closed = k.closed /\ l.subscribed = k.subscribed
    /\ l.phase = k.phase \/ (k.phase = "undecided" /\ l.phase = "await_hello")

Cut(k, l, a, b) ==
    /\ b = a /\ Sized(l) /\ k.phase # "none" /\ l.closed
    /\ Pipe(l) = Pipe(k) /\ Len(l.inbox) <= Len(k.inbox)
    /\ l.phase = k.phase /\ l.subscribed = k.subscribed

\* A message is answered; the session may end, or be cut, with the answer.
Replied(k, l, a, b, f) ==
    /\ b = a /\ Sized(l) /\ ~k.closed /\ l.phase # "none"
    /\ f \in Frames /\ ~IsEvent(f)
    /\ Pipe(l) = Append(Pipe(k), f) /\ Len(k.inbox) = Len(l.inbox) + 1
    /\ l.subscribed => l.phase \in {"ready", "refused"}
    /\ Live(l) => Live(k) /\ l.subscribed = k.subscribed

Announced(k, l, a, b, f) ==
    /\ b = a /\ Sized(l) /\ f \in Frames /\ IsEvent(f)
    /\ ~k.closed /\ k.phase = "ready" /\ k.subscribed
    /\ ~l.closed /\ l.phase = "ready" /\ l.subscribed
    /\ Pipe(l) = Append(Pipe(k), f) /\ Len(l.inbox) = Len(k.inbox)

\* The answer to the first subscription, and the event that announces it.
Joined(k, l, a, b, f, g) ==
    /\ b = a /\ Sized(l) /\ f \in Frames /\ ~IsEvent(f) /\ g \in Frames /\ IsEvent(g)
    /\ ~k.closed /\ k.phase = "ready" /\ ~k.subscribed
    /\ ~l.closed /\ l.phase = "ready" /\ l.subscribed
    /\ Pipe(l) = Append(Append(Pipe(k), f), g) /\ Len(k.inbox) = Len(l.inbox) + 1

Asked(k, l, a, b) ==
    /\ b.owed = a.owed + 1 /\ Sized(l) /\ k.phase # "none"
    /\ b.baseline = a.baseline /\ b.last = a.last /\ b.view = a.view /\ b.want = a.want
    /\ b.heard = a.heard
    /\ Pipe(l) = Pipe(k) /\ Len(l.inbox) = Len(k.inbox) + 1
    /\ l.closed = k.closed /\ l.subscribed = k.subscribed /\ l.phase = k.phase

\* The consumer reads the head of the pipe.
Read(k, l) ==
    /\ Sized(l) /\ k.phase # "none" /\ Pipe(k) # <<>> /\ Pipe(l) = Tail(Pipe(k))
    /\ Len(l.inbox) = Len(k.inbox)
    /\ l.closed = k.closed /\ l.subscribed = k.subscribed /\ l.phase = k.phase

HeardEvent(k, l, a, b) ==
    LET f == Head(Pipe(k))
        d == observe_event(a, f.seq)
    IN  /\ Read(k, l) /\ IsEvent(f)
        /\ b.owed = a.owed /\ b.heard = f.seq /\ b.last = d.last /\ b.view = a.view
        /\ b.baseline <=> a.baseline /\ d.decision # "RebaseRequired"
        /\ b.want <=> a.want \/ d.decision = "RebaseRequired"
                      \/ (d.decision = "Accept" /\ f.kind = "changed")

HadAnswer(k, l, a, b) ==
    LET f == Head(Pipe(k))
    IN  /\ Read(k, l) /\ ~IsEvent(f)
        /\ b.owed = a.owed - 1 /\ b.heard = a.heard
        /\ f.kind # "snapshot" => /\ b.baseline = a.baseline /\ b.last = a.last
                                  /\ b.view = a.view /\ b.want = a.want
        /\ f.kind = "snapshot" => b.baseline /\ b.last = f.seq /\ b.view = f.val /\ ~b.want

Ended(k, l, a, b) == l = NoConn /\ b = Fresh

Accepted(k, l, a, b) == b = a /\ k.phase = "none" /\ l = [NoConn EXCEPT !.phase = "undecided"]

LEMMA EmptyPipe ==
    /\ Events(<<>>) = {} /\ DOMAIN <<>> = {}
    /\ <<>> \in Seq(Frames) /\ Len(<<>>) = 0
    /\ Pipe(NoConn) = <<>> /\ Pipe([NoConn EXCEPT !.phase = "undecided"]) = <<>>
<1>1. <<>> \in Seq(Frames) /\ Len(<<>>) = 0 /\ DOMAIN <<>> = {}
  BY SMTT(60)
<1>2. Events(<<>>) = {}  BY <1>1 DEF Events
<1>4. <<>> \o <<>> = <<>>
  BY <1>1, SMTT(60)
<1> QED BY <1>1, <1>2, <1>4 DEF Pipe, NoConn

LEMMA Blank == NoConn \in Conn /\ Fresh \in App
BY Bounds, SMTT(60) DEF NoConn, Conn, Phases, Fresh, App, Truth

LEMMA FrameBounds ==
    ASSUME NEW f \in Frames
    PROVE  f.seq \in Nat /\ f.val \in Nat /\ f.kind \in Kinds
BY Bounds, SMTT(60) DEF Frames, Truth

LEMMA ConnFacts ==
    ASSUME NEW k \in Conn, NEW a \in App
    PROVE  /\ Pipe(k) \in Seq(Frames) /\ Len(k.inbox) \in Nat
           /\ k.closed \in BOOLEAN /\ k.subscribed \in BOOLEAN /\ k.phase \in Phases
           /\ a.owed \in Int /\ a.last \in Nat /\ a.heard \in Nat /\ a.view \in Nat
           /\ a.baseline \in BOOLEAN /\ a.want \in BOOLEAN
<1>1. k.inbox \in Seq(Requests)  BY DEF Conn
<1>2. Len(k.inbox) \in Nat  BY <1>1, SMTT(60)
<1>3. Pipe(k) \in Seq(Frames)  BY PipeType
<1>4. a.last \in Nat /\ a.heard \in Nat /\ a.view \in Nat  BY Bounds, SMTT(60) DEF App, Truth
<1> QED BY <1>2, <1>3, <1>4 DEF Conn, App

-----------------------------------------------------------------------------
(* Each of these keeps the invariant of the connection. *)
LEMMA StillKeeps ==
    ASSUME NEW k \in Conn, NEW l \in Conn, NEW a \in App, NEW b \in App, NEW ls \in Nat,
           ConnInv(k, a, ls), Still(k, l, a, b)
    PROVE  ConnInv(l, b, ls)
<1>1. Formed(l, b)  BY DEF ConnInv, Formed, Still
<1>3. Numbered(l, b, ls)  BY DEF ConnInv, Numbered, Still, Live
<1>4. Past(l, b, ls)  BY DEF ConnInv, Past, Still
<1> QED BY <1>1, <1>3, <1>4 DEF ConnInv

LEMMA CutKeeps ==
    ASSUME NEW k \in Conn, NEW l \in Conn, NEW a \in App, NEW b \in App, NEW ls \in Nat,
           ConnInv(k, a, ls), Cut(k, l, a, b)
    PROVE  ConnInv(l, b, ls) /\ ~Live(l)
<1>1. Formed(l, b)  BY DEF ConnInv, Formed, Cut
<1>3. ~Live(l)  BY DEF Cut, Live
<1>4. Past(l, b, ls)  BY DEF ConnInv, Past, Cut
<1> QED BY <1>1, <1>3, <1>4 DEF ConnInv, Numbered

LEMMA RepliedKeeps ==
    ASSUME NEW k \in Conn, NEW l \in Conn, NEW a \in App, NEW b \in App, NEW ls \in Nat,
           ConnInv(k, a, ls), NEW f, Replied(k, l, a, b, f), f.seq <= ls
    PROVE  ConnInv(l, b, ls)
<1>1. Formed(l, b)  BY DEF ConnInv, Formed, Replied
<1> DEFINE p == Pipe(k)
           q == Pipe(l)
<1>2. p \in Seq(Frames) /\ f \in Frames /\ ~IsEvent(f) /\ q = Append(p, f)
  BY ConnFacts DEF Replied
<1>4. Numbered(l, b, ls)
  BY <1>2, AnswerQueued DEF ConnInv, Numbered, Replied
<1>5. Past(l, b, ls)
  <2>1. /\ Len(p) \in Nat /\ DOMAIN p = 1 .. Len(p) /\ DOMAIN q = 1 .. (Len(p) + 1)
        /\ \A i \in 1 .. Len(p) : q[i] = p[i]
        /\ q[Len(p) + 1] = f
    BY <1>2, AppendFacts, SMTT(60)
  <2>2. b = a  BY DEF Replied
  <2>3. a.last <= ls /\ \A i \in DOMAIN p : p[i].seq <= ls  BY DEF ConnInv, Past
  <2> HIDE DEF p, q
  <2>4. \A i \in DOMAIN q : i \in 1 .. Len(p) \/ i = Len(p) + 1  BY <2>1, SMTT(60)
  <2>5. \A i \in DOMAIN q : q[i].seq <= ls  BY <2>1, <2>3, <2>4
  <2> QED BY <2>2, <2>3, <2>5 DEF Past, q
<1> QED BY <1>1, <1>4, <1>5 DEF ConnInv

LEMMA AskedKeeps ==
    ASSUME NEW k \in Conn, NEW l \in Conn, NEW a \in App, NEW b \in App, NEW ls \in Nat,
           ConnInv(k, a, ls), Asked(k, l, a, b)
    PROVE  ConnInv(l, b, ls)
<1>1. Formed(l, b)  BY DEF ConnInv, Formed, Asked
<1>3. Numbered(l, b, ls)  BY DEF ConnInv, Numbered, Asked, Live
<1>4. Past(l, b, ls)  BY DEF ConnInv, Past, Asked
<1> QED BY <1>1, <1>3, <1>4 DEF ConnInv

LEMMA HeardKeeps ==
    ASSUME NEW k \in Conn, NEW l \in Conn, NEW a \in App, NEW b \in App, NEW ls \in Nat,
           ConnInv(k, a, ls), HeardEvent(k, l, a, b)
    PROVE  ConnInv(l, b, ls)
<1> DEFINE p == Pipe(k)
           q == Pipe(l)
           f == Head(Pipe(k))
<1>1. Formed(l, b)  BY DEF ConnInv, Formed, HeardEvent, Read
<1>2. p \in Seq(Frames) /\ p # <<>> /\ q = Tail(p) /\ f = Head(p) /\ IsEvent(f)
  BY ConnFacts DEF HeardEvent, Read
<1>4. /\ f = p[1] /\ f \in Frames /\ 1 \in DOMAIN p
      /\ \A i \in DOMAIN q : i + 1 \in DOMAIN p /\ q[i] = p[i + 1]
  BY <1>2, TailFacts, SMTT(60)
<1>5. Numbered(l, b, ls)
  <2> SUFFICES ASSUME Live(l)
               PROVE  /\ ~l.subscribed => Events(Pipe(l)) = {} /\ b.heard = 0
                      /\ l.subscribed => Gapless(Pipe(l), b.heard, ls)
                      /\ Rising(Pipe(l), ls)
    BY DEF Numbered
  <2>1. Live(k) /\ l.subscribed = k.subscribed /\ b.heard = f.seq
    BY DEF HeardEvent, Read, Live
  <2>2. /\ ~k.subscribed => Events(p) = {}
        /\ k.subscribed => Gapless(p, a.heard, ls)
        /\ Rising(p, ls) /\ a.heard \in Nat
    BY <2>1, ConnFacts DEF ConnInv, Numbered
  <2> HIDE DEF p, q, f
  <2>3. Rising(q, ls) /\ (Events(p) = {} => ~IsEvent(f))
    BY <1>2, <2>2, FrameTaken
  <2>4. k.subscribed  BY <1>2, <2>2, <2>3
  <2>5. Gapless(q, f.seq, ls)
    BY <1>2, <2>2, <2>4, EventTaken
  <2> QED BY <2>1, <2>3, <2>4, <2>5 DEF q
<1>6. Past(l, b, ls)
  <2>1. a.last <= ls /\ \A i \in DOMAIN p : p[i].seq <= ls  BY DEF ConnInv, Past
  <2>2. b.last \in {0, a.last, f.seq}  BY DEF HeardEvent, observe_event
  <2> HIDE DEF p, q, f
  <2>3. b.last <= ls  BY <1>4, <2>1, <2>2, SMTT(60)
  <2>4. \A i \in DOMAIN q : q[i].seq <= ls  BY <1>4, <2>1
  <2> QED BY <2>3, <2>4 DEF Past, q
<1> QED BY <1>1, <1>5, <1>6 DEF ConnInv

LEMMA AnswerKeeps ==
    ASSUME NEW k \in Conn, NEW l \in Conn, NEW a \in App, NEW b \in App, NEW ls \in Nat,
           ConnInv(k, a, ls), HadAnswer(k, l, a, b)
    PROVE  ConnInv(l, b, ls)
<1> DEFINE p == Pipe(k)
           q == Pipe(l)
           f == Head(Pipe(k))
<1>1. Formed(l, b)  BY DEF ConnInv, Formed, HadAnswer, Read
<1>2. p \in Seq(Frames) /\ p # <<>> /\ q = Tail(p) /\ f = Head(p) /\ ~IsEvent(f)
  BY ConnFacts DEF HadAnswer, Read
<1>4. /\ f = p[1] /\ f \in Frames /\ 1 \in DOMAIN p
      /\ \A i \in DOMAIN q : i + 1 \in DOMAIN p /\ q[i] = p[i + 1]
  BY <1>2, TailFacts, SMTT(60)
<1>5. Numbered(l, b, ls)
  <2> SUFFICES ASSUME Live(l)
               PROVE  /\ ~l.subscribed => Events(Pipe(l)) = {} /\ b.heard = 0
                      /\ l.subscribed => Gapless(Pipe(l), b.heard, ls)
                      /\ Rising(Pipe(l), ls)
    BY DEF Numbered
  <2>1. Live(k) /\ l.subscribed = k.subscribed /\ b.heard = a.heard
    BY DEF HadAnswer, Read, Live
  <2>2. /\ ~k.subscribed => Events(p) = {} /\ a.heard = 0
        /\ k.subscribed => Gapless(p, a.heard, ls)
        /\ Rising(p, ls) /\ a.heard \in Nat
    BY <2>1, ConnFacts DEF ConnInv, Numbered
  <2> HIDE DEF p, q, f
  <2>3. Rising(q, ls) /\ (Events(p) = {} => Events(q) = {})
    BY <1>2, <2>2, FrameTaken
  <2>4. k.subscribed => Gapless(q, a.heard, ls)
    BY <1>2, <2>2, AnswerTaken
  <2> QED BY <2>1, <2>2, <2>3, <2>4 DEF q
<1>6. Past(l, b, ls)
  <2>1. a.last <= ls /\ \A i \in DOMAIN p : p[i].seq <= ls  BY DEF ConnInv, Past
  <2>2. b.last \in {a.last, f.seq}  BY DEF HadAnswer
  <2> HIDE DEF p, q, f
  <2>3. b.last <= ls  BY <1>4, <2>1, <2>2
  <2>4. \A i \in DOMAIN q : q[i].seq <= ls  BY <1>4, <2>1
  <2> QED BY <2>3, <2>4 DEF Past, q
<1> QED BY <1>1, <1>5, <1>6 DEF ConnInv

LEMMA FreshKeeps ==
    ASSUME NEW k \in Conn, NEW l \in Conn, NEW a \in App, NEW b \in App, NEW ls \in Nat,
           ConnInv(k, a, ls), Ended(k, l, a, b) \/ Accepted(k, l, a, b)
    PROVE  ConnInv(l, b, ls)
<1>1. b = Fresh /\ l \in {NoConn, [NoConn EXCEPT !.phase = "undecided"]}
  BY DEF Ended, Accepted, ConnInv, Formed
<1>2. /\ Pipe(l) = <<>> /\ l.inbox = <<>> /\ l.out = <<>> /\ l.sock = <<>>
      /\ l.phase \in {"none", "undecided"} /\ ~l.subscribed
      /\ l.phase = "none" => l = NoConn
  <2>1. Pipe(l) = <<>>  BY <1>1, EmptyPipe
  <2>2. CASE l = NoConn  BY <2>1, <2>2 DEF NoConn
  <2>3. CASE l = [NoConn EXCEPT !.phase = "undecided"]  BY <2>1, <2>3 DEF NoConn
  <2> QED BY <1>1, <2>2, <2>3
<1>3. b.owed = 0 /\ b.heard = 0 /\ b.last = 0
  BY <1>1 DEF Fresh
<1>4. Formed(l, b)  BY <1>1, <1>2, EmptyPipe, Bounds, SMTT(60) DEF Formed, Sized
<1>6. Numbered(l, b, ls)  BY <1>2, <1>3, EmptyPipe DEF Numbered, Rising
<1>7. Past(l, b, ls)  BY <1>2, <1>3, EmptyPipe, SMTT(60) DEF Past
<1> QED BY <1>4, <1>6, <1>7 DEF ConnInv

\* A session that is not subscribed takes no notice of a new number.
LEMMA OthersKeep ==
    ASSUME NEW k \in Conn, NEW a \in App, NEW ls \in Nat, ConnInv(k, a, ls),
           ~(Live(k) /\ k.subscribed)
    PROVE  ConnInv(k, a, ls + 1)
<1>1. Numbered(k, a, ls + 1)
  BY DEF ConnInv, Numbered, Rising
<1>2. Past(k, a, ls + 1)
  <2>1. a.last \in Nat  BY ConnFacts
  <2>2. \A i \in DOMAIN Pipe(k) : Pipe(k)[i].seq \in Nat
    BY ConnFacts, FrameBounds, SMTT(60)
  <2> QED BY <2>1, <2>2, SMTT(60) DEF ConnInv, Past
<1> QED BY <1>1, <1>2 DEF ConnInv

LEMMA AnnouncedKeeps ==
    ASSUME NEW k \in Conn, NEW l \in Conn, NEW a \in App, NEW b \in App, NEW ls \in Nat,
           ConnInv(k, a, ls), NEW f, Announced(k, l, a, b, f), f.seq = ls + 1
    PROVE  ConnInv(l, b, ls + 1)
<1> DEFINE p == Pipe(k)
           q == Pipe(l)
<1>1. Formed(l, b)  BY DEF Formed, Announced
<1>2. p \in Seq(Frames) /\ f \in Frames /\ IsEvent(f) /\ q = Append(p, f) /\ b = a
      /\ a.heard \in Nat /\ a.last \in Nat
  BY ConnFacts DEF Announced
<1>4. Numbered(l, b, ls + 1)
  <2>1. Gapless(p, a.heard, ls) /\ Rising(p, ls)
    BY DEF ConnInv, Numbered, Announced, Live
  <2> HIDE DEF p, q
  <2>2. Gapless(q, a.heard, ls + 1) /\ Rising(q, ls + 1)
    BY <1>2, <2>1, EventQueued
  <2> QED BY <1>2, <2>2 DEF Numbered, Announced, q
<1>5. Past(l, b, ls + 1)
  <2>1. /\ Len(p) \in Nat /\ DOMAIN p = 1 .. Len(p) /\ DOMAIN q = 1 .. (Len(p) + 1)
        /\ \A i \in 1 .. Len(p) : q[i] = p[i] /\ p[i] \in Frames
        /\ q[Len(p) + 1] = f
    BY <1>2, AppendFacts, SMTT(60)
  <2>2. a.last <= ls /\ \A i \in DOMAIN p : p[i].seq <= ls  BY DEF ConnInv, Past
  <2> HIDE DEF p, q
  <2>3. \A i \in DOMAIN q : i \in 1 .. Len(p) \/ i = Len(p) + 1  BY <2>1, SMTT(60)
  <2>4. \A i \in 1 .. Len(p) : q[i].seq <= ls + 1
    BY <2>1, <2>2, FrameBounds, SMTT(60)
  <2>5. \A i \in DOMAIN q : q[i].seq <= ls + 1  BY <2>1, <2>3, <2>4, SMTT(60)
  <2>6. b.last <= ls + 1  BY <1>2, <2>2, SMTT(60)
  <2> QED BY <2>5, <2>6 DEF Past, q
<1> QED BY <1>1, <1>4, <1>5 DEF ConnInv

LEMMA JoinedKeeps ==
    ASSUME NEW k \in Conn, NEW l \in Conn, NEW a \in App, NEW b \in App, NEW ls \in Nat,
           ConnInv(k, a, ls), NEW f, NEW g, Joined(k, l, a, b, f, g), f.seq <= ls,
           g.seq = ls + 1
    PROVE  ConnInv(l, b, ls + 1)
<1> DEFINE p == Pipe(k)
           q == Append(p, f)
           r == Pipe(l)
<1>1. Formed(l, b)  BY DEF Formed, Joined
<1>2. /\ p \in Seq(Frames) /\ f \in Frames /\ ~IsEvent(f) /\ g \in Frames /\ IsEvent(g)
      /\ r = Append(q, g) /\ b = a /\ a.heard \in Nat /\ a.last \in Nat
  BY ConnFacts DEF Joined
<1>3. q \in Seq(Frames)  BY <1>2, AppendFacts
<1>5. Numbered(l, b, ls + 1)
  <2>1. Events(p) = {} /\ a.heard = 0 /\ Rising(p, ls)
    BY DEF ConnInv, Numbered, Joined, Live
  <2>2. Events(q) = {} /\ Rising(q, ls)
    BY <1>2, <2>1, AnswerQueued
  <2> HIDE DEF p, q, r
  <2>3. Gapless(r, a.heard, ls + 1) /\ Rising(r, ls + 1)
    BY <1>2, <1>3, <2>1, <2>2, EventQueued
  <2> QED BY <1>2, <2>3 DEF Numbered, Joined, r
<1>6. Past(l, b, ls + 1)
  <2>1. /\ Len(p) \in Nat /\ DOMAIN p = 1 .. Len(p) /\ DOMAIN q = 1 .. (Len(p) + 1)
        /\ \A i \in 1 .. Len(p) : q[i] = p[i] /\ p[i] \in Frames
        /\ q[Len(p) + 1] = f
    BY <1>2, AppendFacts
  <2>2. a.last <= ls /\ \A i \in DOMAIN p : p[i].seq <= ls  BY DEF ConnInv, Past
  <2> HIDE DEF p, q, r
  <2>3. \A i \in DOMAIN q : i \in 1 .. Len(p) \/ i = Len(p) + 1  BY <2>1, SMTT(60)
  <2>4. \A i \in DOMAIN q : q[i].seq <= ls  BY <2>1, <2>2, <2>3
  <2>5. /\ Len(q) \in Nat /\ DOMAIN q = 1 .. Len(q) /\ DOMAIN r = 1 .. (Len(q) + 1)
        /\ \A i \in 1 .. Len(q) : r[i] = q[i] /\ q[i] \in Frames
        /\ r[Len(q) + 1] = g
    BY <1>2, <1>3, AppendFacts
  <2>6. \A i \in DOMAIN r : i \in 1 .. Len(q) \/ i = Len(q) + 1  BY <2>5, SMTT(60)
  <2>7. \A i \in 1 .. Len(q) : r[i].seq <= ls + 1
    BY <2>4, <2>5, FrameBounds, SMTT(60)
  <2>8. \A i \in DOMAIN r : r[i].seq <= ls + 1  BY <2>5, <2>6, <2>7, SMTT(60)
  <2>9. b.last <= ls + 1  BY <1>2, <2>2, SMTT(60)
  <2> QED BY <2>8, <2>9 DEF Past, r
<1> QED BY <1>1, <1>5, <1>6 DEF ConnInv

-----------------------------------------------------------------------------
(* Convergence: what a consumer holds or is about to read is the observed state, or
   something that makes it ask again is still on its way. *)

\* A state v taken at number x, with the frames after place i still to be read, is
\* current or will be seen to be old: by a change numbered later, or by the jump to
\* the first event of a subscription that came after a change.
Due(k, a, ls, pr, i, x, v) ==
    v < pr =>
        \/ ~k.subscribed /\ x < ls
        \/ \E j \in Events(Pipe(k)) : i < j /\ Pipe(k)[j].kind = "changed" /\ x < Pipe(k)[j].seq
        \/ a.heard = 0 /\ \E j \in Events(Pipe(k)) :
               i < j /\ (\A n \in Events(Pipe(k)) : j <= n) /\ x + 1 < Pipe(k)[j].seq

Followed(k, a, ls, pr) ==
    Live(k) =>
        /\ \A i \in DOMAIN Pipe(k) : Pipe(k)[i].kind = "snapshot" =>
              Due(k, a, ls, pr, i, Pipe(k)[i].seq, Pipe(k)[i].val)
        /\ a.baseline /\ ~a.want => Due(k, a, ls, pr, 0, a.last, a.view)

\* No state is ahead of the network's.
Behind(k, a, tr) ==
    /\ a.view <= tr
    /\ \A i \in DOMAIN Pipe(k) : Pipe(k)[i].val <= tr

ViewInv ==
    /\ previous <= truth
    /\ \A c \in Consumers : /\ Behind(conn[c], app[c], truth)
                            /\ next_seq # 0 => Followed(conn[c], app[c], last_sequence, previous)

\* More events, or a higher number, leave what is due.
LEMMA DueKept ==
    ASSUME NEW k, NEW l, NEW a, NEW ls \in Nat, NEW ls2 \in Nat, ls <= ls2, NEW pr, NEW i,
           NEW x \in Nat, NEW v, ~k.subscribed => ~l.subscribed,
           \A j \in Events(Pipe(k)) : j \in Events(Pipe(l)) /\ Pipe(l)[j] = Pipe(k)[j],
           \A j \in Events(Pipe(k)), n \in Events(Pipe(l)) : n \in Events(Pipe(k)) \/ j <= n,
           Due(k, a, ls, pr, i, x, v)
    PROVE  Due(l, a, ls2, pr, i, x, v)
<1> SUFFICES ASSUME v < pr
             PROVE  \/ ~l.subscribed /\ x < ls2
                    \/ \E j \in Events(Pipe(l)) :
                          i < j /\ Pipe(l)[j].kind = "changed" /\ x < Pipe(l)[j].seq
                    \/ a.heard = 0 /\ \E j \in Events(Pipe(l)) :
                          i < j /\ (\A n \in Events(Pipe(l)) : j <= n) /\ x + 1 < Pipe(l)[j].seq
  BY DEF Due
<1>1. CASE ~k.subscribed /\ x < ls
  BY <1>1, SMTT(60)
<1>2. CASE \E j \in Events(Pipe(k)) :
              i < j /\ Pipe(k)[j].kind = "changed" /\ x < Pipe(k)[j].seq
  BY <1>2
<1>3. CASE a.heard = 0 /\ \E j \in Events(Pipe(k)) :
              i < j /\ (\A n \in Events(Pipe(k)) : j <= n) /\ x + 1 < Pipe(k)[j].seq
  BY <1>3
<1> QED BY <1>1, <1>2, <1>3 DEF Due

\* The same when an answer is read: every place moves one down.
LEMMA DueShifted ==
    ASSUME NEW k, NEW l, NEW a, NEW b, NEW ls, NEW pr, NEW i \in Nat, NEW h \in Nat, NEW x, NEW v,
           Pipe(k) \in Seq(Frames), Pipe(k) # <<>>, Pipe(l) = Tail(Pipe(k)),
           ~IsEvent(Head(Pipe(k))), l.subscribed = k.subscribed, b.heard = a.heard,
           h = i + 1 \/ (h = 0 /\ i = 0),
           Due(k, a, ls, pr, h, x, v)
    PROVE  Due(l, b, ls, pr, i, x, v)
<1> DEFINE p == Pipe(k)
           t == Pipe(l)
<1>1. /\ \A j \in Events(t) : j + 1 \in Events(p) /\ j \in Nat
      /\ \A j \in Events(p) : j \in Nat /\ j > 1 /\ j - 1 \in Events(t) /\ t[j - 1] = p[j]
  BY EventsOfTail
<1> HIDE DEF p, t
<1>2. \A j \in Events(p) : h < j => i < j - 1
  BY SMTT(60), <1>1
<1> SUFFICES ASSUME v < pr
             PROVE  \/ ~l.subscribed /\ x < ls
                    \/ \E j \in Events(t) : i < j /\ t[j].kind = "changed" /\ x < t[j].seq
                    \/ b.heard = 0 /\ \E j \in Events(t) :
                          i < j /\ (\A n \in Events(t) : j <= n) /\ x + 1 < t[j].seq
  BY DEF Due, t
<1>3. CASE ~k.subscribed /\ x < ls
  BY <1>3
<1>4. CASE \E j \in Events(p) : h < j /\ p[j].kind = "changed" /\ x < p[j].seq
  BY <1>1, <1>2, <1>4
<1>5. CASE a.heard = 0 /\ \E j \in Events(p) :
              h < j /\ (\A n \in Events(p) : j <= n) /\ x + 1 < p[j].seq
  <2>1. PICK j \in Events(p) : h < j /\ (\A n \in Events(p) : j <= n) /\ x + 1 < p[j].seq
    BY <1>5
  <2>2. j - 1 \in Events(t) /\ i < j - 1 /\ t[j - 1] = p[j] /\ j \in Nat
    BY <1>1, <1>2, <2>1
  <2>3. ASSUME NEW n \in Events(t) PROVE j - 1 <= n
    <3>1. j <= n + 1 /\ n \in Nat  BY <1>1, <2>1, <2>3
    <3> QED BY <2>2, <3>1, SMTT(60)
  <2> QED BY <1>5, <2>1, <2>2, <2>3
<1> QED BY <1>3, <1>4, <1>5 DEF Due, p

\* A frame that is not a snapshot, or a snapshot of the present, after all others.
LEMMA RepliedFollows ==
    ASSUME NEW k \in Conn, NEW l \in Conn, NEW a \in App, NEW b \in App, NEW ls \in Nat, NEW pr \in Nat,
           NEW f \in Frames, Replied(k, l, a, b, f), f.kind = "snapshot" => pr <= f.val,
           Followed(k, a, ls, pr)
    PROVE  Followed(l, b, ls, pr)
<1> SUFFICES ASSUME Live(l) PROVE Followed(l, b, ls, pr)
  BY DEF Followed
<1> DEFINE p == Pipe(k)
           q == Pipe(l)
<1>1. /\ b = a /\ Live(k) /\ l.subscribed = k.subscribed /\ q = Append(p, f) /\ ~IsEvent(f)
      /\ p \in Seq(Frames)
  BY ConnFacts DEF Replied
<1>2. /\ Len(p) \in Nat /\ DOMAIN p = 1 .. Len(p) /\ DOMAIN q = 1 .. (Len(p) + 1)
      /\ \A i \in 1 .. Len(p) : q[i] = p[i] /\ p[i] \in Frames
      /\ q[Len(p) + 1] = f
  BY <1>1, AppendFacts, SMTT(60)
<1>3. Events(q) = Events(p) /\ \A j \in Events(p) : q[j] = p[j]
  <2>1. Events(q) = Events(p)  BY <1>1, EventsFacts
  <2>2. \A j \in Events(p) : q[j] = p[j]  BY <1>1, EventsFacts, SMTT(60)
  <2> QED BY <2>1, <2>2
<1>4. \A i, x, v : x \in Nat /\ Due(k, a, ls, pr, i, x, v) => Due(l, b, ls, pr, i, x, v)
  <2> SUFFICES ASSUME NEW i, NEW x, NEW v, x \in Nat, Due(k, a, ls, pr, i, x, v)
               PROVE  Due(l, a, ls, pr, i, x, v)
    BY <1>1
  <2>1. ls <= ls  BY SMTT(60)
  <2> QED BY <1>1, <1>3, <2>1, DueKept
<1>5. ASSUME NEW i \in DOMAIN q, q[i].kind = "snapshot"
      PROVE  Due(l, b, ls, pr, i, q[i].seq, q[i].val)
  <2>1. CASE i = Len(p) + 1
    <3>1. q[i] = f /\ f.val \in Nat  BY <1>2, <2>1, FrameBounds
    <3>2. ~(q[i].val < pr)  BY <1>5, <3>1, SMTT(60)
    <3> QED BY <3>2 DEF Due
  <2>2. CASE i \in 1 .. Len(p)
    <3>1. q[i] = p[i] /\ i \in DOMAIN p /\ p[i].seq \in Nat  BY <1>2, <2>2, FrameBounds
    <3>2. Due(k, a, ls, pr, i, p[i].seq, p[i].val)
      BY <1>1, <1>5, <3>1 DEF Followed
    <3> QED BY <1>4, <3>1, <3>2
  <2> QED BY <1>2, <2>1, <2>2, SMTT(60)
<1>6. ASSUME b.baseline, ~b.want PROVE Due(l, b, ls, pr, 0, b.last, b.view)
  BY <1>1, <1>4, <1>6, ConnFacts DEF Followed
<1> QED BY <1>5, <1>6 DEF Followed

\* A change is numbered after everything its subscribers know.
LEMMA ChangeFollows ==
    ASSUME NEW k \in Conn, NEW l \in Conn, NEW a \in App, NEW b \in App, NEW ls \in Nat, NEW pr,
           NEW g \in Frames, g.kind = "changed", g.seq = ls + 1, Announced(k, l, a, b, g),
           Past(k, a, ls)
    PROVE  Followed(l, b, ls + 1, pr)
<1> DEFINE p == Pipe(k)
           q == Pipe(l)
           n == Len(p) + 1
<1>1. b = a /\ q = Append(p, g) /\ IsEvent(g) /\ p \in Seq(Frames)
  BY ConnFacts DEF Announced
<1>2. /\ Len(p) \in Nat /\ DOMAIN p = 1 .. Len(p) /\ DOMAIN q = 1 .. (Len(p) + 1)
      /\ \A i \in 1 .. Len(p) : q[i] = p[i] /\ p[i] \in Frames
      /\ q[Len(p) + 1] = g
  BY <1>1, AppendFacts, SMTT(60)
<1>3. n \in Events(q)  BY <1>1, EventsFacts
<1>4. ASSUME NEW i \in Nat, i < n, NEW x \in Nat, x <= ls, NEW v
      PROVE  Due(l, b, ls + 1, pr, i, x, v)
  <2>1. x < q[n].seq /\ q[n].kind = "changed"  BY <1>2, <1>4, SMTT(60)
  <2> QED BY <1>3, <1>4, <2>1 DEF Due
<1>5. ASSUME NEW i \in DOMAIN q, q[i].kind = "snapshot"
      PROVE  Due(l, b, ls + 1, pr, i, q[i].seq, q[i].val)
  <2>1. i \in 1 .. Len(p)  BY <1>2, <1>5, SMTT(60)
  <2>2. q[i] = p[i] /\ p[i].seq \in Nat /\ i \in Nat /\ i < n  BY <1>2, <2>1, FrameBounds, SMTT(60)
  <2>3. p[i].seq <= ls  BY <1>2, <2>1 DEF Past
  <2> QED BY <1>4, <2>2, <2>3
<1>6. Due(l, b, ls + 1, pr, 0, b.last, b.view)
  <2>1. b.last \in Nat /\ b.last <= ls /\ 0 < n  BY <1>1, <1>2, ConnFacts, SMTT(60) DEF Past
  <2> QED BY <1>4, <2>1
<1> QED BY <1>5, <1>6 DEF Followed

\* A subscription of another session is one more number for a subscriber.
LEMMA AnnouncedFollows ==
    ASSUME NEW k \in Conn, NEW l \in Conn, NEW a \in App, NEW b \in App, NEW ls \in Nat, NEW pr,
           NEW g \in Frames, g.kind = "subscribed", Announced(k, l, a, b, g),
           Followed(k, a, ls, pr)
    PROVE  Followed(l, b, ls + 1, pr)
<1> DEFINE p == Pipe(k)
           q == Pipe(l)
<1>1. /\ b = a /\ Live(k) /\ k.subscribed /\ q = Append(p, g) /\ IsEvent(g) /\ p \in Seq(Frames)
  BY ConnFacts DEF Announced, Live
<1>2. /\ Len(p) \in Nat /\ DOMAIN p = 1 .. Len(p) /\ DOMAIN q = 1 .. (Len(p) + 1)
      /\ \A i \in 1 .. Len(p) : q[i] = p[i] /\ p[i] \in Frames
      /\ q[Len(p) + 1] = g
  BY <1>1, AppendFacts, SMTT(60)
<1>3. /\ Events(q) = Events(p) \cup {Len(p) + 1}
      /\ \A j \in Events(p) : q[j] = p[j] /\ j < Len(p) + 1 /\ j \in Nat
  <2>1. Events(q) = Events(p) \cup {Len(p) + 1}  BY <1>1, EventsFacts
  <2>2. \A j \in Events(p) : q[j] = p[j] /\ j < Len(p) + 1 /\ j \in Nat  BY SMTT(60), <1>1, EventsFacts
  <2> QED BY <2>1, <2>2
<1>4. \A i, x, v : x \in Nat /\ Due(k, a, ls, pr, i, x, v) => Due(l, b, ls + 1, pr, i, x, v)
  <2> SUFFICES ASSUME NEW i, NEW x, NEW v, x \in Nat, Due(k, a, ls, pr, i, x, v)
               PROVE  Due(l, a, ls + 1, pr, i, x, v)
    BY <1>1
  <2>1. ls <= ls + 1 /\ ls + 1 \in Nat  BY SMTT(60)
  <2>2. \A j \in Events(p) : j \in Events(q) /\ q[j] = p[j]  BY <1>3
  <2>3. \A j \in Events(p), n \in Events(q) : n \in Events(p) \/ j <= n
    <3> SUFFICES ASSUME NEW j \in Events(p), NEW n \in Events(q), n \notin Events(p) PROVE j <= n
      OBVIOUS
    <3>1. n = Len(p) + 1 /\ j < Len(p) + 1 /\ j \in Nat  BY <1>3
    <3> QED BY <1>2, <3>1, SMTT(60)
  <2> HIDE DEF p, q
  <2> QED BY <1>1, <2>1, <2>2, <2>3, DueKept DEF p, q
<1>5. ASSUME NEW i \in DOMAIN q, q[i].kind = "snapshot"
      PROVE  Due(l, b, ls + 1, pr, i, q[i].seq, q[i].val)
  <2>1. i \in 1 .. Len(p)  BY <1>2, <1>5, SMTT(60)
  <2>2. q[i] = p[i] /\ i \in DOMAIN p /\ p[i].seq \in Nat  BY <1>2, <2>1, FrameBounds
  <2>3. Due(k, a, ls, pr, i, p[i].seq, p[i].val)
    BY <1>1, <1>5, <2>2 DEF Followed
  <2> QED BY <1>4, <2>2, <2>3
<1>6. ASSUME b.baseline, ~b.want PROVE Due(l, b, ls + 1, pr, 0, b.last, b.view)
  BY <1>1, <1>4, <1>6, ConnFacts DEF Followed
<1> QED BY <1>5, <1>6 DEF Followed

\* A session that is not subscribed yet will see the first number jump.
LEMMA OthersFollow ==
    ASSUME NEW k \in Conn, NEW a \in App, NEW ls \in Nat, NEW pr,
           Live(k) => ~k.subscribed, Past(k, a, ls)
    PROVE  Followed(k, a, ls + 1, pr)
<1> SUFFICES ASSUME Live(k) PROVE Followed(k, a, ls + 1, pr)
  BY DEF Followed
<1>1. \A i, x, v : x \in Nat /\ x <= ls => Due(k, a, ls + 1, pr, i, x, v)
  BY SMTT(60) DEF Due
<1>2. ASSUME NEW i \in DOMAIN Pipe(k)
      PROVE  Pipe(k)[i].seq \in Nat /\ Pipe(k)[i].seq <= ls
  <2>1. Pipe(k)[i] \in Frames  BY ConnFacts, SMTT(60)
  <2> QED BY <2>1, FrameBounds DEF Past
<1>3. a.last \in Nat /\ a.last <= ls  BY ConnFacts DEF Past
<1> QED BY <1>1, <1>2, <1>3 DEF Followed

\* What was missed before the subscription is the jump to its event.
LEMMA JoinedFollows ==
    ASSUME NEW k \in Conn, NEW l \in Conn, NEW a \in App, NEW b \in App, NEW ls \in Nat, NEW pr,
           NEW f \in Frames, NEW g \in Frames, f.kind = "response", g.kind = "subscribed",
           g.seq = ls + 1, Joined(k, l, a, b, f, g), Numbered(k, a, ls), Followed(k, a, ls, pr)
    PROVE  Followed(l, b, ls + 1, pr)
<1> DEFINE p == Pipe(k)
           q == Append(p, f)
           r == Pipe(l)
           n == Len(q) + 1
<1>1. /\ b = a /\ Live(k) /\ ~k.subscribed /\ r = Append(q, g) /\ ~IsEvent(f) /\ IsEvent(g)
      /\ p \in Seq(Frames)
  BY ConnFacts DEF Joined, Live
<1>2. Events(p) = {} /\ a.heard = 0  BY <1>1 DEF Numbered
<1>3. /\ q \in Seq(Frames) /\ Len(p) \in Nat /\ DOMAIN p = 1 .. Len(p) /\ DOMAIN q = 1 .. (Len(p) + 1)
      /\ \A i \in 1 .. Len(p) : q[i] = p[i] /\ p[i] \in Frames
      /\ q[Len(p) + 1] = f
  BY <1>1, AppendFacts
<1>4. /\ Len(q) \in Nat /\ DOMAIN q = 1 .. Len(q) /\ DOMAIN r = 1 .. (Len(q) + 1)
      /\ \A i \in 1 .. Len(q) : r[i] = q[i] /\ q[i] \in Frames
      /\ r[Len(q) + 1] = g
  BY SMTT(60), <1>1, <1>3, AppendFacts
<1>5. Events(q) = {}  BY SMTT(60), <1>1, <1>2, EventsFacts
<1>6. Events(r) = {n}  BY <1>1, <1>3, <1>5, EventsFacts
<1> HIDE DEF q, p, r
<1>7. ASSUME NEW i \in Nat, i < n, NEW x \in Nat, NEW v, Due(k, a, ls, pr, i, x, v)
      PROVE  Due(l, b, ls + 1, pr, i, x, v)
  <2>1. v < pr => x < ls  BY <1>2, <1>7 DEF Due, p
  <2>2. v < pr => x + 1 < r[n].seq  BY SMTT(60), <1>4, <2>1
  <2>3. \A m \in Events(r) : n <= m  BY <1>4, <1>6, SMTT(60)
  <2> QED BY <1>1, <1>2, <1>6, <1>7, <2>2, <2>3 DEF Due, r
<1>8. ASSUME NEW i \in DOMAIN r, r[i].kind = "snapshot"
      PROVE  Due(l, b, ls + 1, pr, i, r[i].seq, r[i].val)
  <2>1. i \in 1 .. Len(q)  BY <1>4, <1>8, SMTT(60)
  <2>2. r[i] = q[i] /\ q[i].kind = "snapshot" /\ i \in 1 .. (Len(p) + 1)  BY <1>3, <1>4, <1>8, <2>1
  <2>3. i \in 1 .. Len(p)  BY <1>3, <2>2, SMTT(60)
  <2>4. r[i] = p[i] /\ i \in DOMAIN p /\ p[i].seq \in Nat /\ i \in Nat /\ i < n
    BY <1>3, <1>4, <2>1, <2>2, <2>3, FrameBounds, SMTT(60)
  <2>5. Due(k, a, ls, pr, i, p[i].seq, p[i].val)
    BY <1>1, <1>8, <2>4 DEF Followed, p
  <2> QED BY <1>7, <2>4, <2>5
<1>9. ASSUME b.baseline, ~b.want PROVE Due(l, b, ls + 1, pr, 0, b.last, b.view)
  <2>1. 0 < n /\ b.last \in Nat  BY SMTT(60), <1>1, <1>4, ConnFacts
  <2>2. Due(k, a, ls, pr, 0, b.last, b.view)  BY <1>1, <1>9 DEF Followed
  <2> QED BY <1>7, <2>1, <2>2
<1> QED BY <1>8, <1>9 DEF Followed, r

\* RebaseTracker: an event that is not ignored is the next number, or the consumer
\* asks again.
LEMMA HeardFollows ==
    ASSUME NEW k \in Conn, NEW l \in Conn, NEW a \in App, NEW b \in App, NEW ls \in Nat, NEW pr,
           HeardEvent(k, l, a, b), Numbered(k, a, ls), Followed(k, a, ls, pr)
    PROVE  Followed(l, b, ls, pr)
<1> SUFFICES ASSUME Live(l) PROVE Followed(l, b, ls, pr)
  BY DEF Followed
<1> DEFINE p == Pipe(k)
           t == Pipe(l)
           f == Head(p)
           d == observe_event(a, f.seq)
<1>1. /\ Live(k) /\ l.subscribed = k.subscribed /\ p # <<>> /\ t = Tail(p) /\ IsEvent(f)
      /\ p \in Seq(Frames)
  BY ConnFacts DEF HeardEvent, Read, Live
<1>2. /\ b.heard = f.seq /\ b.last = d.last /\ b.view = a.view
      /\ b.baseline <=> a.baseline /\ d.decision # "RebaseRequired"
      /\ b.want <=> a.want \/ d.decision = "RebaseRequired"
                    \/ (d.decision = "Accept" /\ f.kind = "changed")
  BY DEF HeardEvent
<1>3. /\ 1 \in Events(p) /\ f = p[1]
      /\ \A j \in Events(p) : j \in Nat /\ (j = 1 \/ (j > 1 /\ j - 1 \in Events(t) /\ t[j - 1] = p[j]))
  <2>1. f = p[1]  BY <1>1, TailFacts
  <2>2. 1 \in Events(p)  BY <1>1, EventsOfTail
  <2>3. \A j \in Events(p) : j \in Nat /\ (j = 1 \/ (j > 1 /\ j - 1 \in Events(t) /\ t[j - 1] = p[j]))
    BY <1>1, EventsOfTail
  <2> QED BY <2>1, <2>2, <2>3
<1>4. /\ f \in Frames /\ \A i \in DOMAIN t : i + 1 \in DOMAIN p /\ t[i] = p[i + 1] /\ i \in Nat
  BY <1>1, TailFacts, SMTT(60)
<1>5. f.seq \in Nat /\ a.last \in Nat  BY <1>4, FrameBounds, ConnFacts
<1>6. k.subscribed /\ \A j \in Events(p) : j > 1 => f.seq < p[j].seq
  BY <1>1, <1>3, ConnFacts DEF Numbered, Rising
<1> HIDE DEF f, p, t, d
<1>7. ASSUME NEW i \in DOMAIN t, t[i].kind = "snapshot"
      PROVE  Due(l, b, ls, pr, i, t[i].seq, t[i].val)
  <2> SUFFICES ASSUME t[i].val < pr
               PROVE  \E j \in Events(t) : i < j /\ t[j].kind = "changed" /\ t[i].seq < t[j].seq
    BY DEF Due, t
  <2>1. i + 1 \in DOMAIN p /\ t[i] = p[i + 1] /\ i \in Nat  BY <1>4
  <2>2. Due(k, a, ls, pr, i + 1, t[i].seq, t[i].val)
    BY <1>1, <1>7, <2>1 DEF Followed, p
  <2>3. ~\E j \in Events(p) : i + 1 < j /\ \A n \in Events(p) : j <= n
    <3> SUFFICES ASSUME NEW j \in Events(p), i + 1 < j, \A n \in Events(p) : j <= n PROVE FALSE
      OBVIOUS
    <3>1. j <= 1 /\ j \in Nat  BY <1>3
    <3> QED BY <2>1, <3>1, SMTT(60)
  <2>4. PICK j \in Events(p) : i + 1 < j /\ p[j].kind = "changed" /\ t[i].seq < p[j].seq
    BY <1>6, <2>2, <2>3 DEF Due, p
  <2>5. j \in Nat /\ j # 1  BY <1>3, <2>1, <2>4, SMTT(60)
  <2>6. j - 1 \in Events(t) /\ t[j - 1] = p[j] /\ i < j - 1  BY <1>3, <2>1, <2>4, <2>5, SMTT(60)
  <2> QED BY <2>4, <2>6
<1>8. ASSUME b.baseline, ~b.want PROVE Due(l, b, ls, pr, 0, b.last, b.view)
  <2>1. a.baseline /\ ~a.want /\ d.decision # "RebaseRequired"
    BY <1>2, <1>8
  <2>2. \/ f.seq <= a.last /\ b.last = a.last
        \/ f.seq = a.last + 1 /\ b.last = f.seq /\ f.kind # "changed"
    BY <1>2, <1>5, <1>8, <2>1, SMTT(60) DEF observe_event, d
  <2> SUFFICES ASSUME a.view < pr
               PROVE  \E j \in Events(t) : 0 < j /\ t[j].kind = "changed" /\ b.last < t[j].seq
    BY <1>2 DEF Due, t
  <2>3. Due(k, a, ls, pr, 0, a.last, a.view)
    BY <1>1, <2>1 DEF Followed
  <2>4. ~\E j \in Events(p) : 0 < j /\ (\A n \in Events(p) : j <= n) /\ a.last + 1 < p[j].seq
    <3> SUFFICES ASSUME NEW j \in Events(p), 0 < j, \A n \in Events(p) : j <= n,
                        a.last + 1 < p[j].seq
                 PROVE  FALSE
      OBVIOUS
    <3>1. j <= 1 /\ j \in Nat  BY <1>3
    <3>2. j = 1  BY <3>1, SMTT(60)
    <3> QED BY <1>3, <1>5, <2>2, <3>2, SMTT(60)
  <2>5. PICK j \in Events(p) : 0 < j /\ p[j].kind = "changed" /\ a.last < p[j].seq
    BY <1>6, <2>3, <2>4 DEF Due, p
  <2>6. j \in Nat /\ j # 1  BY <1>3, <1>5, <2>2, <2>5, SMTT(60)
  <2>7. j - 1 \in Events(t) /\ t[j - 1] = p[j] /\ 0 < j - 1 /\ j > 1  BY <1>3, <2>6, SMTT(60)
  <2>8. b.last < p[j].seq  BY <1>6, <2>2, <2>5, <2>7
  <2> QED BY <2>5, <2>7, <2>8
<1> QED BY <1>7, <1>8 DEF Followed, t

\* A snapshot that is read becomes the view, with what was due after it.
LEMMA AnswerFollows ==
    ASSUME NEW k \in Conn, NEW l \in Conn, NEW a \in App, NEW b \in App, NEW ls \in Nat, NEW pr,
           HadAnswer(k, l, a, b), Followed(k, a, ls, pr)
    PROVE  Followed(l, b, ls, pr)
<1> SUFFICES ASSUME Live(l) PROVE Followed(l, b, ls, pr)
  BY DEF Followed
<1> DEFINE p == Pipe(k)
           t == Pipe(l)
           f == Head(p)
<1>1. /\ Live(k) /\ l.subscribed = k.subscribed /\ p # <<>> /\ t = Tail(p) /\ ~IsEvent(f)
      /\ p \in Seq(Frames) /\ b.heard = a.heard
  BY ConnFacts DEF HadAnswer, Read, Live
<1>2. /\ f = p[1] /\ 1 \in DOMAIN p
      /\ \A i \in DOMAIN t : i + 1 \in DOMAIN p /\ t[i] = p[i + 1] /\ i \in Nat
  BY <1>1, TailFacts, SMTT(60)
<1>3. \A i, h \in Nat : \A x, v :
         (h = i + 1 \/ (h = 0 /\ i = 0)) /\ Due(k, a, ls, pr, h, x, v) => Due(l, b, ls, pr, i, x, v)
  BY <1>1, DueShifted
<1> HIDE DEF p, t
<1>4. ASSUME NEW i \in DOMAIN t, t[i].kind = "snapshot"
      PROVE  Due(l, b, ls, pr, i, t[i].seq, t[i].val)
  <2>1. Due(k, a, ls, pr, i + 1, t[i].seq, t[i].val) /\ i \in Nat /\ i + 1 \in Nat
    BY <1>1, <1>2, <1>4, SMTT(60) DEF Followed, p
  <2> QED BY <1>3, <2>1
<1>5. ASSUME b.baseline, ~b.want PROVE Due(l, b, ls, pr, 0, b.last, b.view)
  <2>1. CASE f.kind = "snapshot"
    <3>1. b.last = f.seq /\ b.view = f.val  BY <2>1 DEF HadAnswer, p
    <3>2. Due(k, a, ls, pr, 1, f.seq, f.val)
      BY <1>1, <1>2, <2>1 DEF Followed, p
    <3>3. 0 \in Nat /\ 1 \in Nat /\ 1 = 0 + 1  BY SMTT(60)
    <3> QED BY <1>3, <3>1, <3>2, <3>3
  <2>2. CASE f.kind # "snapshot"
    <3>1. b.last = a.last /\ b.view = a.view /\ b.baseline = a.baseline /\ b.want = a.want
      BY <2>2 DEF HadAnswer, p
    <3>2. Due(k, a, ls, pr, 0, a.last, a.view)
      BY <1>1, <1>5, <3>1 DEF Followed
    <3> QED BY <1>3, <3>1, <3>2
  <2> QED BY <2>1, <2>2
<1> QED BY <1>4, <1>5 DEF Followed, t

\* No state comes from the future when a frame is queued or read.
LEMMA BehindFacts ==
    ASSUME NEW p \in Seq(Frames), NEW tr \in Nat, NEW tr2 \in Nat, tr <= tr2,
           \A i \in DOMAIN p : p[i].val <= tr
    PROVE  /\ \A i \in DOMAIN p : p[i].val <= tr2
           /\ \A f \in Frames : f.val <= tr => \A i \in DOMAIN Append(p, f) : Append(p, f)[i].val <= tr2
           /\ p # <<>> => Head(p).val <= tr /\ \A i \in DOMAIN Tail(p) : Tail(p)[i].val <= tr2
<1>1. \A i \in DOMAIN p : p[i] \in Frames
  BY SMTT(60)
<1>2. \A i \in DOMAIN p : p[i].val <= tr2
  BY <1>1, FrameBounds, SMTT(60)
<1>3. ASSUME NEW f \in Frames, f.val <= tr, NEW i \in DOMAIN Append(p, f)
      PROVE  Append(p, f)[i].val <= tr2
  <2>1. f.val <= tr2  BY <1>3, FrameBounds, SMTT(60)
  <2>2. (i \in DOMAIN p /\ Append(p, f)[i] = p[i]) \/ Append(p, f)[i] = f
    BY AppendFacts, SMTT(60)
  <2> QED BY <1>2, <2>1, <2>2
<1>4. ASSUME p # <<>>
      PROVE  Head(p).val <= tr /\ \A i \in DOMAIN Tail(p) : Tail(p)[i].val <= tr2
  <2>1. Head(p) = p[1] /\ 1 \in DOMAIN p  BY <1>4, TailFacts, SMTT(60)
  <2>2. \A i \in DOMAIN Tail(p) : i + 1 \in DOMAIN p /\ Tail(p)[i] = p[i + 1]
    BY <1>4, TailFacts
  <2> QED BY <1>2, <2>1, <2>2
<1> QED BY <1>2, <1>3, <1>4

LEMMA FreshPipe ==
    /\ Pipe(NoConn) = <<>> /\ Pipe([NoConn EXCEPT !.phase = "undecided"]) = <<>>
    /\ DOMAIN <<>> = {} /\ Fresh.view = 0 /\ Fresh.baseline = FALSE /\ NoConn.phase = "none"
BY EmptyPipe DEF Fresh, NoConn

-----------------------------------------------------------------------------
(* Every action does one of these to one connection, or announces an event. *)
Effect(k, l, a, b) ==
    \/ Still(k, l, a, b) \/ Cut(k, l, a, b) \/ Asked(k, l, a, b)
    \/ \E f \in Frames : /\ Replied(k, l, a, b, f) /\ f.seq <= last_sequence
                         /\ f.kind = "snapshot" => f.seq = last_sequence /\ f.val = truth
                         /\ f.val <= truth
    \/ HeardEvent(k, l, a, b) \/ HadAnswer(k, l, a, b)
    \/ Ended(k, l, a, b) \/ Accepted(k, l, a, b)

Typable == conn' \in [Consumers -> Conn] /\ app' \in [Consumers -> App]

Quiet(c) ==
    /\ UNCHANGED next_seq /\ Typable
    /\ \A d \in Consumers \ {c} : conn'[d] = conn[d] /\ app'[d] = app[d]
    /\ Effect(conn[c], conn'[c], app[c], app'[c])

\* The event g reaches d, which is subscribed, or d loses its session.
Offered(d, g) ==
    IF Subscribed(d)
    THEN Announced(conn[d], conn'[d], app[d], app'[d], g) \/ Cut(conn[d], conn'[d], app[d], app'[d])
    ELSE conn'[d] = conn[d] /\ app'[d] = app[d]

Changed ==
    /\ next_seq # 0 /\ encode_event /\ Typable
    /\ \A d \in Consumers : Offered(d, Frame("changed", next_seq, 0))

Subscription(c) ==
    /\ next_seq # 0 /\ encode_event /\ Typable
    /\ \A d \in Consumers \ {c} : Offered(d, Frame("subscribed", next_seq, 0))
    /\ LET k == conn[c]
           l == conn'[c]
           f == Answer("response")
       IN  /\ k.phase = "ready" /\ ~k.subscribed
           /\ \/ Joined(k, l, app[c], app'[c], f, Frame("subscribed", next_seq, 0))
              \/ Replied(k, l, app[c], app'[c], f) /\ l.closed

LEMMA FrameTypes ==
    /\ \A kind \in Kinds : Answer(kind) \in Frames /\ Answer(kind).seq = 0
                           /\ Answer(kind).val = 0 /\ Answer(kind).kind = kind
    /\ \A kind \in Kinds, s \in 0 .. MaxSeq, v \in Truth :
          /\ Frame(kind, s, v) \in Frames
          /\ Frame(kind, s, v).seq = s /\ Frame(kind, s, v).val = v
          /\ Frame(kind, s, v).kind = kind
BY Bounds, SMTT(60) DEF Answer, Frame, Frames, Truth

LEMMA NumbersGoOn ==
    ASSUME next_seq \in 0 .. MaxSeq
    PROVE  /\ last_sequence \in 0 .. MaxSeq
           /\ next_seq # 0 => next_seq = last_sequence + 1
           /\ next_seq # 0 /\ encode_event =>
                 last_sequence' = last_sequence + 1 /\ next_seq' \in 0 .. MaxSeq
BY Bounds, SMTT(60) DEF last_sequence, encode_event

\* An answer is queued: a message is only taken while nothing is queued.
LEMMA AnswerEnqueued ==
    ASSUME NEW k \in Conn, NEW f \in Frames, Sized(k), ~k.closed, ~k.close_after_flush,
           k.inbox # <<>>, k.out = <<>>
    PROVE  LET m == enqueue_frame([k EXCEPT !.inbox = Tail(@)], f)
           IN  /\ m \in Conn /\ Sized(m) /\ Pipe(m) = Append(Pipe(k), f)
               /\ Len(k.inbox) = Len(m.inbox) + 1
               /\ m.phase = k.phase /\ m.subscribed = k.subscribed
               /\ m.closed = FALSE /\ m.close_after_flush = FALSE
<1> DEFINE t == Tail(k.inbox)
           r == [k EXCEPT !.inbox = t]
           m == enqueue_frame(r, f)
<1>1. k.inbox \in Seq(Requests)  BY DEF Conn
<1>2. t \in Seq(Requests) /\ Len(t) = Len(k.inbox) - 1 /\ Len(k.inbox) \in Nat
  BY <1>1, SMTT(60)
<1> HIDE DEF t
<1>3. /\ r \in Conn /\ r.inbox = t /\ r.out = k.out /\ r.sock = k.sock /\ r.phase = k.phase
      /\ r.subscribed = k.subscribed /\ r.closed = FALSE /\ r.close_after_flush = FALSE
  BY <1>2 DEF Conn
<1> HIDE DEF r
<1>4. Pipe(r) = Pipe(k)  BY <1>3 DEF Pipe
<1>5. Len(r.out) = 0 /\ Len(r.out) < OutCap /\ Len(r.out) <= OutCap
  BY <1>3, EmptyPipe, Bounds, SMTT(60)
<1>6. /\ m \in Conn /\ Len(m.out) <= OutCap /\ m.sock = r.sock
      /\ m.inbox = r.inbox /\ m.phase = r.phase /\ m.subscribed = r.subscribed
      /\ m.close_after_flush = r.close_after_flush
      /\ m.closed = r.closed /\ Pipe(m) = Append(Pipe(r), f)
  BY <1>3, <1>5, Enqueued
<1> HIDE DEF m
<1>7. Len(k.inbox) = Len(m.inbox) + 1  BY <1>2, <1>3, <1>6, SMTT(60)
<1> QED BY <1>3, <1>4, <1>6, <1>7 DEF Sized, m, r, t

\* ... and flushed, possibly as the last thing the session does.
LEMMA AnswerFlushed ==
    ASSUME NEW k \in Conn, NEW n \in Conn, NEW a \in App, NEW f \in Frames, Sized(n),
           ~IsEvent(f), Pipe(n) = Append(Pipe(k), f), Len(k.inbox) = Len(n.inbox) + 1,
           ~k.closed, n.closed = FALSE, n.phase # "none", n.subscribed = k.subscribed,
           n.subscribed => n.phase \in {"ready", "refused"},
           n.phase \in {"v0", "refused"} \/ (~n.close_after_flush /\ Live(k))
    PROVE  /\ flush_client(n) \in Conn
           /\ Replied(k, flush_client(n), a, a, f)
<1> DEFINE l == flush_client(n)
<1>1. /\ l \in Conn /\ Len(l.out) <= OutCap /\ Len(l.sock) <= SockCap
      /\ l.inbox = n.inbox /\ l.phase = n.phase /\ l.subscribed = n.subscribed
      /\ Pipe(l) = Pipe(n)
  BY Flushed DEF Sized
<1> HIDE DEF l
<1>2. Live(l) => Live(k)
  BY <1>1 DEF Live
<1>3. Replied(k, l, a, a, f)
  BY <1>1, <1>2 DEF Replied, Sized
<1> QED BY <1>1, <1>3 DEF l

LEMMA OneConn ==
    ASSUME Typed, NEW c \in Consumers, NEW l \in Conn, conn' = [conn EXCEPT ![c] = l],
           app' = app, UNCHANGED next_seq, Effect(conn[c], l, app[c], app[c])
    PROVE  Quiet(c)
BY DEF Typed, Quiet, Typable

\* What holds of a connection that has a message to be taken.
LEMMA Taken ==
    ASSUME IpcInv, NEW c \in Consumers, Serviceable(c)
    PROVE  LET k == conn[c]
           IN  /\ k \in Conn /\ app[c] \in App /\ Sized(k) /\ ~k.closed /\ ~k.close_after_flush
               /\ k.inbox # <<>> /\ k.out = <<>> /\ k.phase # "none"
               /\ k.subscribed => k.phase \in {"ready", "refused"}
<1>1. conn[c] \in Conn /\ app[c] \in App  BY DEF IpcInv, Typed
<1>2. Formed(conn[c], app[c])  BY DEF IpcInv, ConnInv
<1>3. conn[c].phase # "none"  BY <1>2, SMTT(60) DEF Formed, NoConn, Serviceable
<1> QED BY <1>1, <1>2, <1>3 DEF Serviceable, Formed

\* A connection whose flag is set loses at most input.
LEMMA CutOff ==
    ASSUME NEW k \in Conn, Sized(k), k.phase # "none", NEW a
    PROVE  /\ [k EXCEPT !.closed = TRUE] \in Conn
           /\ Cut(k, [k EXCEPT !.closed = TRUE], a, a)
           /\ k.inbox # <<>> =>
                 LET l == [[k EXCEPT !.inbox = Tail(@)] EXCEPT !.closed = TRUE]
                 IN  l \in Conn /\ Cut(k, l, a, a)
<1> DEFINE t == Tail(k.inbox)
           m == [k EXCEPT !.closed = TRUE]
           l == [[k EXCEPT !.inbox = t] EXCEPT !.closed = TRUE]
<1>1. k.inbox \in Seq(Requests) /\ Len(k.inbox) \in Nat
  BY SMTT(60) DEF Conn
<1>2. k.inbox # <<>> => t \in Seq(Requests) /\ Len(t) = Len(k.inbox) - 1
  BY <1>1, SMTT(60)
<1> HIDE DEF t
<1>3. /\ m \in Conn /\ m.out = k.out /\ m.sock = k.sock /\ m.inbox = k.inbox
      /\ m.phase = k.phase /\ m.subscribed = k.subscribed /\ m.closed = TRUE
  BY DEF Conn
<1>4. k.inbox # <<>> =>
        /\ l \in Conn /\ l.out = k.out /\ l.sock = k.sock /\ l.inbox = t
        /\ l.phase = k.phase /\ l.subscribed = k.subscribed /\ l.closed = TRUE
  BY <1>2 DEF Conn
<1> HIDE DEF m, l
<1>5. Cut(k, m, a, a)
  BY <1>1, <1>3, SMTT(60) DEF Cut, Sized, Pipe
<1>6. k.inbox # <<>> => Cut(k, l, a, a)
  <2>1. k.inbox # <<>> => Len(t) <= Len(k.inbox)  BY <1>1, <1>2, SMTT(60)
  <2> QED BY <1>4, <2>1 DEF Cut, Sized, Pipe
<1> QED BY <1>3, <1>4, <1>5, <1>6 DEF m, l, t

LEMMA AnswerEffect ==
    ASSUME Typed, NEW k, NEW l, NEW a, NEW b, NEW kind \in {"ready", "response", "error"},
           Replied(k, l, a, b, Answer(kind))
    PROVE  Effect(k, l, a, b)
<1> DEFINE f == Answer(kind)
<1>1. f \in Frames /\ f.seq = 0 /\ f.val = 0 /\ f.kind = kind
  BY FrameTypes, SMTT(60) DEF Kinds
<1>2. 0 <= last_sequence /\ 0 <= truth
  BY NumbersGoOn, Bounds, SMTT(60) DEF Typed, Truth
<1> HIDE DEF f
<1>3. Replied(k, l, a, b, f)  BY DEF f
<1> QED BY <1>1, <1>2, <1>3 DEF Effect

LEMMA Handled ==
    ASSUME IpcInv, NEW c \in Consumers, Service(c),
           ~(HandleSubscribe(c) /\ ~conn[c].subscribed /\ next_seq # 0)
    PROVE  Quiet(c)
<1> DEFINE k == conn[c]
           a == app[c]
           M(f) == enqueue_frame([k EXCEPT !.inbox = Tail(@)], f)
<1>1. Serviceable(c)
  BY DEF Service, HandleV0, HandleGarbage, HandleHello, HandleRefused, HandlePing,
         HandleBusiness, HandleSnapshot, HandleSubscribe, Took
<1>2. /\ k \in Conn /\ a \in App /\ Sized(k) /\ ~k.closed /\ ~k.close_after_flush
      /\ k.inbox # <<>> /\ k.out = <<>> /\ k.phase # "none" /\ Typed
      /\ k.subscribed => k.phase \in {"ready", "refused"}
  BY <1>1, Taken DEF IpcInv
<1>3. ASSUME NEW f \in Frames
      PROVE  /\ M(f) \in Conn /\ Sized(M(f)) /\ Pipe(M(f)) = Append(Pipe(k), f)
             /\ Len(k.inbox) = Len(M(f).inbox) + 1
             /\ M(f).phase = k.phase /\ M(f).subscribed = k.subscribed
             /\ M(f).closed = FALSE /\ M(f).close_after_flush = FALSE
  BY <1>2, AnswerEnqueued
<1>4. \A kind \in Kinds : Answer(kind) \in Frames /\ (kind \in {"ready", "response", "error"} =>
                                                     ~IsEvent(Answer(kind)))
  BY FrameTypes DEF IsEvent
<1>5. Rest(c) = [k EXCEPT !.inbox = Tail(@)]
  BY DEF Rest
<1> HIDE DEF M
<1>6. ASSUME NEW f \in Frames, NEW phase \in {"v0", "refused", "ready"}, NEW flag \in BOOLEAN,
             NEW n, ~IsEvent(f), n = [M(f) EXCEPT !.phase = phase, !.close_after_flush = flag],
             k.subscribed => phase # "v0",
             phase = "ready" => Live(k) /\ ~flag
      PROVE  flush_client(n) \in Conn /\ Replied(k, flush_client(n), a, a, f)
  <2>1. /\ n \in Conn /\ n.out = M(f).out /\ n.sock = M(f).sock /\ n.inbox = M(f).inbox
        /\ n.phase = phase /\ n.subscribed = k.subscribed /\ n.closed = FALSE
        /\ n.close_after_flush = flag
    BY <1>3, <1>6 DEF Conn, Phases
  <2>2. Sized(n) /\ Pipe(n) = Append(Pipe(k), f)
    BY <1>3, <2>1 DEF Sized, Pipe
  <2> QED BY <1>2, <1>3, <1>6, <2>1, <2>2, AnswerFlushed
<1>7. ASSUME NEW f \in Frames, ~IsEvent(f), k.phase = "ready"
      PROVE  flush_client(M(f)) \in Conn /\ Replied(k, flush_client(M(f)), a, a, f)
  BY <1>2, <1>3, <1>7, AnswerFlushed DEF Live
<1>8. CASE HandleV0(c)
  <2> DEFINE f == Answer("response")
             n == [M(f) EXCEPT !.phase = "v0", !.close_after_flush = TRUE]
             l == flush_client(n)
  <2>1. conn' = [conn EXCEPT ![c] = l] /\ app' = app /\ UNCHANGED next_seq
        /\ k.phase = "undecided"
    BY <1>5, <1>8 DEF HandleV0, M
  <2>2. l \in Conn /\ Replied(k, l, a, a, f)
    BY <1>2, <1>4, <1>6, <2>1 DEF Kinds
  <2> HIDE DEF l
  <2> QED BY <1>2, <2>1, <2>2, AnswerEffect, OneConn
<1>9. CASE HandleGarbage(c)
  <2> DEFINE l == [[k EXCEPT !.inbox = Tail(@)] EXCEPT !.closed = TRUE]
  <2>1. conn' = [conn EXCEPT ![c] = l] /\ app' = app /\ UNCHANGED next_seq
    BY <1>5, <1>9 DEF HandleGarbage
  <2>2. l \in Conn /\ Cut(k, l, a, a)
    BY <1>2, CutOff
  <2> HIDE DEF l
  <2> QED BY <1>2, <2>1, <2>2, OneConn DEF Effect
<1>10. CASE HandleHello(c)
  <2> DEFINE f == Answer("ready")
             n == [M(f) EXCEPT !.phase = "ready"]
             l == flush_client(n)
  <2>1. conn' = [conn EXCEPT ![c] = l] /\ app' = app /\ UNCHANGED next_seq
        /\ k.phase \in {"undecided", "await_hello"}
    BY <1>5, <1>10 DEF HandleHello, M
  <2>2. /\ f \in Frames /\ ~IsEvent(f)  BY <1>4 DEF Kinds
  <2>3. /\ n \in Conn /\ n.out = M(f).out /\ n.sock = M(f).sock /\ n.inbox = M(f).inbox
        /\ n.phase = "ready" /\ n.subscribed = k.subscribed /\ n.closed = FALSE
        /\ n.close_after_flush = FALSE
    BY <1>3, <2>2 DEF Conn, Phases
  <2> HIDE DEF n, f
  <2>4. Sized(n) /\ Pipe(n) = Append(Pipe(k), f)
    BY <1>3, <2>2, <2>3 DEF Sized, Pipe
  <2>5. Live(k)  BY <1>2, <2>1 DEF Live
  <2>6. l \in Conn /\ Replied(k, l, a, a, f)
    BY <1>2, <1>3, <2>2, <2>3, <2>4, <2>5, AnswerFlushed
  <2> HIDE DEF l
  <2> QED BY <1>2, <2>1, <2>6, AnswerEffect, OneConn DEF f
<1>11. CASE HandleRefused(c)
  <2> DEFINE f == Answer("error")
             n == [M(f) EXCEPT !.phase = "refused", !.close_after_flush = TRUE]
             l == flush_client(n)
  <2>1. conn' = [conn EXCEPT ![c] = l] /\ app' = app /\ UNCHANGED next_seq
    BY <1>5, <1>11 DEF HandleRefused, M
  <2>2. l \in Conn /\ Replied(k, l, a, a, f)
    BY <1>4, <1>6 DEF Kinds
  <2> HIDE DEF l
  <2> QED BY <1>2, <2>1, <2>2, AnswerEffect, OneConn
<1>12. CASE HandlePing(c) \/ HandleBusiness(c)
  <2> DEFINE f == Answer("response")
             l == flush_client(M(f))
             m == [[k EXCEPT !.inbox = Tail(@)] EXCEPT !.closed = TRUE]
  <2>1. /\ conn' = [conn EXCEPT ![c] = l] \/ conn' = [conn EXCEPT ![c] = m]
        /\ app' = app /\ UNCHANGED next_seq /\ k.phase = "ready"
    BY <1>5, <1>12 DEF HandlePing, HandleBusiness, M
  <2>2. l \in Conn /\ Replied(k, l, a, a, f)
    BY <1>4, <1>7, <2>1 DEF Kinds
  <2>3. m \in Conn /\ Cut(k, m, a, a)
    BY <1>2, CutOff
  <2>4. Effect(k, l, a, a) /\ Effect(k, m, a, a)
    BY <1>2, <2>2, <2>3, AnswerEffect DEF Effect
  <2> HIDE DEF l, m
  <2> QED BY <1>2, <2>1, <2>2, <2>3, <2>4, OneConn
<1>13. CASE HandleSnapshot(c)
  <2> DEFINE f == Frame("snapshot", last_sequence, truth)
             l == flush_client(M(f))
  <2>1. conn' = [conn EXCEPT ![c] = l] /\ app' = app /\ UNCHANGED next_seq /\ k.phase = "ready"
    BY <1>5, <1>13 DEF HandleSnapshot, M
  <2>2. last_sequence \in 0 .. MaxSeq /\ truth \in Truth
    BY <1>2, NumbersGoOn DEF Typed
  <2>3. f \in Frames /\ f.seq = last_sequence /\ f.val = truth /\ f.kind = "snapshot"
    BY <2>2, FrameTypes, SMTT(60) DEF Kinds
  <2>4. ~IsEvent(f)  BY <2>3 DEF IsEvent
  <2> HIDE DEF f
  <2>5. l \in Conn /\ Replied(k, l, a, a, f)
    BY <1>7, <2>1, <2>3, <2>4
  <2>6. f.seq <= last_sequence /\ f.val <= truth
    BY <2>2, <2>3, Bounds, SMTT(60) DEF Truth
  <2> HIDE DEF l
  <2>7. Effect(k, l, a, a)
    BY <2>3, <2>5, <2>6 DEF Effect
  <2> QED BY <1>2, <2>1, <2>5, <2>7, OneConn
<1>14. CASE HandleSubscribe(c)
  <2> DEFINE f == Answer("response")
             n == [M(f) EXCEPT !.subscribed = TRUE]
             l == flush_client(n)
             m == [n EXCEPT !.closed = TRUE]
             cs == [conn EXCEPT ![c] = n]
  <2>1. /\ \/ k.subscribed /\ conn' = [cs EXCEPT ![c] = l]
           \/ conn' = [cs EXCEPT ![c].closed = TRUE]
        /\ app' = app /\ UNCHANGED next_seq /\ k.phase = "ready"
    BY <1>5, <1>14 DEF HandleSubscribe, M, net
  <2>2. f \in Frames /\ ~IsEvent(f)  BY <1>4 DEF Kinds
  <2>3. /\ n \in Conn /\ n.out = M(f).out /\ n.sock = M(f).sock /\ n.inbox = M(f).inbox
        /\ n.phase = "ready" /\ n.subscribed = TRUE /\ n.closed = FALSE
        /\ n.close_after_flush = FALSE
    BY <1>3, <2>1, <2>2 DEF Conn, Phases
  <2> HIDE DEF n, f
  <2>4. Sized(n) /\ Pipe(n) = Append(Pipe(k), f) /\ Len(k.inbox) = Len(n.inbox) + 1
    BY <1>3, <2>2, <2>3 DEF Sized, Pipe
  <2>5. /\ m \in Conn /\ m.out = n.out /\ m.sock = n.sock /\ m.inbox = n.inbox
        /\ m.phase = "ready" /\ m.subscribed = TRUE /\ m.closed = TRUE
    BY <2>3 DEF Conn
  <2>6. (conn' = [conn EXCEPT ![c] = l] /\ k.subscribed) \/ conn' = [conn EXCEPT ![c] = m]
    BY <1>2, <2>1 DEF Typed
  <2> HIDE DEF m
  <2>7. Replied(k, m, a, a, f)
    BY <1>2, <2>2, <2>4, <2>5 DEF Replied, Sized, Pipe, Live
  <2>8. k.subscribed => l \in Conn /\ Replied(k, l, a, a, f)
    <3>1. k.subscribed => k.subscribed = TRUE  BY <1>2 DEF Conn
    <3>2. Live(k)  BY <1>2, <2>1 DEF Live
    <3> QED BY <1>2, <2>2, <2>3, <2>4, <3>1, <3>2, AnswerFlushed
  <2> HIDE DEF l
  <2>9. /\ Effect(k, m, a, a)
        /\ k.subscribed => Effect(k, l, a, a)
    BY <1>2, <2>7, <2>8, AnswerEffect DEF f
  <2> QED BY <1>2, <2>1, <2>5, <2>6, <2>8, <2>9, OneConn
<1> QED BY <1>8, <1>9, <1>10, <1>11, <1>12, <1>13, <1>14 DEF Service

\* The rest of the reactor, the consumers and the network.
LEMMA Moved ==
    ASSUME IpcInv, NEW c \in Consumers,
           \/ Flush(c) \/ apply_deadlines(c) \/ cleanup_clients(c) \/ Accept(c)
           \/ ReceivePrefix(c) \/ Hangup(c)
    PROVE  Quiet(c)
<1> DEFINE k == conn[c]
           a == app[c]
<1>1. k \in Conn /\ a \in App /\ Typed  BY DEF IpcInv, Typed
<1>2. Formed(k, a) /\ Sized(k)  BY DEF IpcInv, ConnInv, Formed
<1>3. CASE Flush(c)
  <2> DEFINE l == flush_client(k)
  <2>1. conn' = [conn EXCEPT ![c] = l] /\ app' = app /\ UNCHANGED next_seq /\ ~k.closed
        /\ k.out # <<>>
    BY <1>1, <1>3 DEF Flush, Typed
  <2>2. /\ l \in Conn /\ Sized(l)
        /\ l.inbox = k.inbox /\ l.phase = k.phase /\ l.subscribed = k.subscribed
        /\ Pipe(l) = Pipe(k)
    BY <1>1, <1>2, Flushed DEF Sized
  <2>3. k.phase # "none"  BY <1>2, <2>1, SMTT(60) DEF Formed, NoConn
  <2>4. l.closed \in BOOLEAN /\ k.closed \in BOOLEAN /\ Len(k.inbox) \in Nat
    BY <1>1, <2>2, ConnFacts DEF Conn
  <2> HIDE DEF l
  <2>5. Still(k, l, a, a) \/ Cut(k, l, a, a)
    BY <2>1, <2>2, <2>3, <2>4, SMTT(60) DEF Still, Cut
  <2> QED BY <1>1, <2>1, <2>2, <2>5, OneConn DEF Effect
<1>4. CASE apply_deadlines(c) \/ Hangup(c)
  <2> DEFINE l == [k EXCEPT !.closed = TRUE]
  <2>1. conn' = [conn EXCEPT ![c] = l] /\ app' = app /\ UNCHANGED next_seq
    BY <1>1, <1>4 DEF apply_deadlines, Hangup, Typed
  <2>2. k.phase # "none"
    BY <1>2, <1>4, Bounds, SMTT(60) DEF apply_deadlines, Hangup, Formed, NoConn, needs_input_deadline,
                              write_stalled
  <2>3. l \in Conn /\ Cut(k, l, a, a)
    BY <1>1, <1>2, <2>2, CutOff
  <2> HIDE DEF l
  <2> QED BY <1>1, <2>1, <2>3, OneConn DEF Effect
<1>5. CASE cleanup_clients(c)
  <2>1. NoConn \in Conn /\ Fresh \in App
    BY Blank
  <2>2. /\ conn' = [conn EXCEPT ![c] = NoConn] /\ app' = [app EXCEPT ![c] = Fresh]
        /\ UNCHANGED next_seq
    BY <1>5 DEF cleanup_clients
  <2>3. conn'[c] = NoConn /\ app'[c] = Fresh /\ Typable
    BY <1>1, <2>1, <2>2 DEF Typed, Typable
  <2> QED BY <1>1, <2>2, <2>3 DEF Quiet, Effect, Ended, Typed
<1>6. CASE Accept(c)
  <2> DEFINE l == [k EXCEPT !.phase = "undecided"]
  <2>1. /\ conn' = [conn EXCEPT ![c] = l] \/ (conn' = conn)
        /\ app' = app /\ UNCHANGED next_seq /\ k.phase = "none"
    BY <1>1, <1>6 DEF Accept, Typed
  <2>2. l \in Conn  BY <1>1 DEF Conn, Phases
  <2>3. Accepted(k, l, a, a)  BY <1>2, <2>1 DEF Accepted, Formed
  <2> HIDE DEF l
  <2>4. CASE conn' = [conn EXCEPT ![c] = l]
    BY <1>1, <2>1, <2>2, <2>3, <2>4, OneConn DEF Effect
  <2>5. CASE conn' = conn
    BY <1>1, <1>2, <2>1, <2>5 DEF Quiet, Effect, Still, Typed, Typable
  <2> QED BY <2>1, <2>4, <2>5
<1>7. CASE ReceivePrefix(c)
  <2> DEFINE l == [k EXCEPT !.phase = "await_hello"]
  <2>1. conn' = [conn EXCEPT ![c] = l] /\ app' = app /\ UNCHANGED next_seq
        /\ k.phase = "undecided"
    BY <1>1, <1>7 DEF ReceivePrefix, Typed
  <2>2. /\ l \in Conn /\ l.out = k.out /\ l.sock = k.sock /\ l.inbox = k.inbox
        /\ l.phase = "await_hello" /\ l.subscribed = k.subscribed /\ l.closed = k.closed
    BY <1>1 DEF Conn, Phases
  <2> HIDE DEF l
  <2>3. Still(k, l, a, a)
    BY <1>2, <2>1, <2>2 DEF Still, Sized, Pipe
  <2> QED BY <1>1, <2>1, <2>2, <2>3, OneConn DEF Effect
<1> QED BY <1>3, <1>4, <1>5, <1>6, <1>7

LEMMA Consumed ==
    ASSUME IpcInv, NEW c \in Consumers,
           Send(c) \/ SendStray(c) \/ ReadEvent(c) \/ ReadAnswer(c)
    PROVE  Quiet(c)
<1> DEFINE k == conn[c]
           a == app[c]
<1>1. k \in Conn /\ a \in App /\ Typed  BY DEF IpcInv, Typed
<1>2. Formed(k, a) /\ Sized(k)  BY DEF IpcInv, ConnInv, Formed
<1>3. ASSUME NEW l \in Conn, NEW b \in App, conn' = [conn EXCEPT ![c] = l],
             app' = [app EXCEPT ![c] = b], UNCHANGED next_seq, Effect(k, l, a, b)
      PROVE  Quiet(c)
  BY <1>1, <1>3 DEF Typed, Quiet, Typable
<1>4. ASSUME Send(c) \/ SendStray(c) PROVE Quiet(c)
  <2>1. PICK m \in Requests : Put(c, m)
    BY <1>4 DEF Send, SendStray, Requests
  <2> DEFINE i == Append(k.inbox, m)
             l == [k EXCEPT !.inbox = i]
             b == app'[c]
  <2>2. conn' = [conn EXCEPT ![c] = l] /\ k.phase # "none"
    BY <1>1, <2>1 DEF Put, Typed
  <2>3. k.inbox \in Seq(Requests)  BY <1>1 DEF Conn
  <2>4. i \in Seq(Requests) /\ Len(i) = Len(k.inbox) + 1
    BY <2>3, SMTT(60)
  <2> HIDE DEF i
  <2>5. /\ l \in Conn /\ l.out = k.out /\ l.sock = k.sock /\ l.inbox = i
        /\ l.phase = k.phase /\ l.subscribed = k.subscribed /\ l.closed = k.closed
    BY <1>1, <2>4 DEF Conn
  <2> HIDE DEF l
  <2>6. PICK said \in SUBSET Requests, asked \in BOOLEAN :
          app' = [app EXCEPT ![c] = [a EXCEPT !.said = said, !.asked = asked, !.owed = a.owed + 1]]
    <3>1. a.said \in SUBSET Requests /\ a.asked \in BOOLEAN  BY <1>1 DEF App
    <3>2. CASE Send(c)
      <4> DEFINE said1 == a.said \cup {"hello"}
                 said2 == a.said \cup {"subscribe"}
      <4>1. said1 \in SUBSET Requests /\ said2 \in SUBSET Requests
        BY <3>1 DEF Requests
      <4>2. \/ app' = [app EXCEPT ![c].said = said1, ![c].owed = a.owed + 1]
            \/ app' = [app EXCEPT ![c].said = said2, ![c].owed = a.owed + 1]
            \/ app' = [app EXCEPT ![c].asked = TRUE, ![c].owed = a.owed + 1]
        BY <1>1, <3>2 DEF Send, Typed
      <4> HIDE DEF said1, said2
      <4>3. CASE app' = [app EXCEPT ![c].said = said1, ![c].owed = a.owed + 1]
        <5>1. app' = [app EXCEPT ![c] = [a EXCEPT !.said = said1, !.asked = a.asked,
                                                  !.owed = a.owed + 1]]
          BY <1>1, <4>3 DEF Typed, App
        <5> QED BY <3>1, <4>1, <5>1
      <4>4. CASE app' = [app EXCEPT ![c].said = said2, ![c].owed = a.owed + 1]
        <5>1. app' = [app EXCEPT ![c] = [a EXCEPT !.said = said2, !.asked = a.asked,
                                                  !.owed = a.owed + 1]]
          BY <1>1, <4>4 DEF Typed, App
        <5> QED BY <3>1, <4>1, <5>1
      <4>5. CASE app' = [app EXCEPT ![c].asked = TRUE, ![c].owed = a.owed + 1]
        <5>1. app' = [app EXCEPT ![c] = [a EXCEPT !.said = a.said, !.asked = TRUE,
                                                  !.owed = a.owed + 1]]
          BY <1>1, <4>5 DEF Typed, App
        <5> QED BY <3>1, <5>1
      <4> QED BY <4>2, <4>3, <4>4, <4>5
    <3>3. CASE SendStray(c)
      <4>1. app' = [app EXCEPT ![c].owed = a.owed + 1]
        BY <1>1, <3>3 DEF SendStray, Typed
      <4>2. app' = [app EXCEPT ![c] = [a EXCEPT !.said = a.said, !.asked = a.asked,
                                                !.owed = a.owed + 1]]
        BY <1>1, <4>1 DEF Typed, App
      <4> QED BY <3>1, <4>2
    <3> QED BY <1>4, <3>2, <3>3
  <2> DEFINE e == [a EXCEPT !.said = said, !.asked = asked, !.owed = a.owed + 1]
  <2>7. a.owed + 1 \in Int  BY <1>1, SMTT(60) DEF App
  <2>8. /\ e \in App /\ e.owed = a.owed + 1 /\ e.baseline = a.baseline /\ e.last = a.last
        /\ e.view = a.view /\ e.want = a.want /\ e.heard = a.heard
    BY <1>1, <2>7 DEF App
  <2>9. app' = [app EXCEPT ![c] = e] /\ UNCHANGED next_seq
    BY <1>4, <2>6 DEF Send, SendStray
  <2> HIDE DEF e
  <2>10. Asked(k, l, a, e)
    BY <1>2, <2>2, <2>4, <2>5, <2>8 DEF Asked, Sized, Pipe
  <2> QED BY <1>3, <2>2, <2>5, <2>8, <2>9, <2>10 DEF Effect
<1>5. ASSUME ReadEvent(c) \/ ReadAnswer(c) PROVE Quiet(c)
  <2> DEFINE l == [k EXCEPT !.sock = Tail(@)]
             f == Head(k.sock)
  <2>1. conn' = [conn EXCEPT ![c] = l] /\ k.sock # <<>> /\ UNCHANGED next_seq
    BY <1>1, <1>5 DEF ReadEvent, ReadAnswer, Typed
  <2>2. /\ l \in Conn /\ l.out = k.out /\ Len(l.sock) = Len(k.sock) - 1
        /\ l.inbox = k.inbox /\ l.phase = k.phase /\ l.subscribed = k.subscribed
        /\ l.closed = k.closed
        /\ Pipe(k) # <<>> /\ Head(Pipe(k)) = f /\ Pipe(l) = Tail(Pipe(k))
    BY <1>1, <2>1, Popped
  <2> HIDE DEF l
  <2>3. k.phase # "none"  BY <1>2, <2>1, SMTT(60) DEF Formed, NoConn
  <2>4. Read(k, l)
    <3>1. Len(k.sock) \in Nat
      BY <1>1, SocketSize
    <3>2. Len(l.sock) <= SockCap
      BY <1>2, <2>2, <3>1, StillFits DEF Sized
    <3> QED BY <1>2, <2>2, <2>3, <3>2 DEF Read, Sized
  <2>5. f \in Frames
    BY <1>1, <2>1, TailFacts DEF Conn
  <2>6. CASE ReadEvent(c)
    <3> DEFINE d == observe_event(a, f.seq)
               base == a.baseline /\ d.decision # "RebaseRequired"
               want == a.want \/ d.decision = "RebaseRequired"
                       \/ (d.decision = "Accept" /\ f.kind = "changed")
               b == [a EXCEPT !.heard = f.seq, !.last = d.last, !.baseline = base, !.want = want]
    <3>1. app' = [app EXCEPT ![c] = b] /\ IsEvent(f)
      BY <2>6 DEF ReadEvent
    <3>2. f.seq \in 0 .. MaxSeq  BY <2>5 DEF Frames
    <3>3. d.last \in 0 .. MaxSeq
      <4>1. a.last \in 0 .. MaxSeq /\ 0 \in 0 .. MaxSeq  BY <1>1, Bounds, SMTT(60) DEF App
      <4>2. d.last \in {0, a.last, f.seq}  BY DEF observe_event
      <4> QED BY <3>2, <4>1, <4>2
    <3> HIDE DEF d
    <3>4. base \in BOOLEAN /\ want \in BOOLEAN
      BY <1>1 DEF App
    <3> HIDE DEF base, want
    <3>5. /\ b \in App /\ b.heard = f.seq /\ b.last = d.last /\ b.baseline = base
          /\ b.want = want /\ b.view = a.view /\ b.owed = a.owed
      BY <1>1, <3>2, <3>3, <3>4 DEF App
    <3> HIDE DEF b
    <3>6. HeardEvent(k, l, a, b)
      BY <2>2, <2>4, <3>1, <3>5 DEF HeardEvent, d, base, want
    <3> QED BY <1>3, <2>1, <2>2, <3>1, <3>5, <3>6 DEF Effect
  <2>7. CASE ReadAnswer(c)
    <3> DEFINE e == [a EXCEPT !.owed = a.owed - 1]
               r == [e EXCEPT !.baseline = TRUE, !.last = f.seq, !.view = f.val,
                              !.want = FALSE, !.asked = FALSE]
               b == IF f.kind # "snapshot" THEN e ELSE r
    <3>1. app' = [app EXCEPT ![c] = b] /\ ~IsEvent(f)
      BY <2>7 DEF ReadAnswer
    <3>2. f.seq \in 0 .. MaxSeq /\ f.val \in Truth  BY <2>5 DEF Frames
    <3>3. a.owed - 1 \in Int  BY <1>1, SMTT(60) DEF App
    <3>4. /\ e \in App /\ e.heard = a.heard /\ e.last = a.last /\ e.baseline = a.baseline
          /\ e.want = a.want /\ e.view = a.view /\ e.owed = a.owed - 1
      BY <1>1, <3>3 DEF App
    <3> HIDE DEF e
    <3>5. /\ r \in App /\ r.heard = e.heard /\ r.last = f.seq /\ r.baseline = TRUE
          /\ r.want = FALSE /\ r.view = f.val /\ r.owed = e.owed
      BY <3>2, <3>4 DEF App
    <3> HIDE DEF r
    <3>6. b \in App /\ HadAnswer(k, l, a, b)
      BY <2>2, <2>4, <3>1, <3>4, <3>5 DEF HadAnswer
    <3> HIDE DEF b
    <3> QED BY <1>3, <2>1, <2>2, <3>1, <3>6 DEF Effect
  <2> QED BY <1>5, <2>6, <2>7
<1> QED BY <1>4, <1>5

\* broadcast_event, for one consumer.
LEMMA Offering ==
    ASSUME NEW k \in Conn, NEW a, Sized(k), k.phase = "ready", k.subscribed, ~k.closed,
           NEW g \in Frames, IsEvent(g)
    PROVE  LET l == enqueue_frame(k, g)
           IN  l \in Conn /\ (Announced(k, l, a, a, g) \/ Cut(k, l, a, a))
<1> DEFINE l == enqueue_frame(k, g)
<1>1. /\ l \in Conn /\ Len(l.out) <= OutCap /\ l.sock = k.sock
      /\ l.inbox = k.inbox /\ l.phase = k.phase /\ l.subscribed = k.subscribed
      /\ Len(k.out) < OutCap => l.closed = k.closed /\ Pipe(l) = Append(Pipe(k), g)
      /\ ~(Len(k.out) < OutCap) => l.closed /\ Pipe(l) = Pipe(k)
  BY Enqueued DEF Sized
<1>2. Len(k.inbox) \in Nat  BY SMTT(60) DEF Conn
<1> HIDE DEF l
<1>3. CASE Len(k.out) < OutCap
  <2>1. Announced(k, l, a, a, g)
    BY <1>1, <1>3 DEF Announced, Sized
  <2> QED BY <1>1, <2>1 DEF l
<1>4. CASE ~(Len(k.out) < OutCap)
  <2>1. Cut(k, l, a, a)
    BY <1>1, <1>2, <1>4, SMTT(60) DEF Cut, Sized
  <2> QED BY <1>1, <2>1 DEF l
<1> QED BY <1>3, <1>4

LEMMA EventFrame ==
    ASSUME Typed, NEW kind \in {"subscribed", "changed"}
    PROVE  LET g == Frame(kind, next_seq, 0)
           IN  g \in Frames /\ IsEvent(g) /\ g.seq = next_seq /\ g.kind = kind /\ g.val = 0
BY FrameTypes, Bounds, SMTT(60) DEF Typed, Truth, Kinds, IsEvent

LEMMA ChangeAnnounced ==
    ASSUME IpcInv, observe_state, next_seq # 0
    PROVE  Changed
<1> DEFINE g == Frame("changed", next_seq, 0)
<1>1. g \in Frames /\ IsEvent(g)  BY EventFrame DEF IpcInv
<1>2. /\ encode_event /\ app' = app
      /\ conn' = [d \in Consumers |->
                    IF conn[d].phase = "ready" /\ conn[d].subscribed /\ ~conn[d].closed
                    THEN enqueue_frame(conn[d], g) ELSE conn[d]]
  BY DEF observe_state, broadcast_event
<1> HIDE DEF g
<1>3. ASSUME NEW d \in Consumers PROVE conn'[d] \in Conn /\ Offered(d, g)
  <2>1. conn[d] \in Conn /\ app'[d] = app[d] /\ Sized(conn[d])
    BY <1>2 DEF IpcInv, Typed, ConnInv, Formed
  <2>2. CASE Subscribed(d)
    BY <1>1, <1>2, <2>1, <2>2, Offering DEF Offered, Subscribed, Open
  <2>3. CASE ~Subscribed(d)
    BY <1>2, <2>1, <2>3 DEF Offered, Subscribed, Open
  <2> QED BY <2>2, <2>3
<1>4. Typable
  BY <1>2, <1>3 DEF Typable, IpcInv, Typed
<1> QED BY <1>2, <1>3, <1>4 DEF Changed, g

LEMMA SubscriptionAnnounced ==
    ASSUME IpcInv, NEW c \in Consumers, HandleSubscribe(c), ~conn[c].subscribed, next_seq # 0
    PROVE  Subscription(c)
<1> DEFINE g == Frame("subscribed", next_seq, 0)
           f == Answer("response")
           k == conn[c]
           a == app[c]
           m == enqueue_frame([k EXCEPT !.inbox = Tail(@)], f)
           n == [m EXCEPT !.subscribed = TRUE]
           cs == [conn EXCEPT ![c] = n]
           o == enqueue_frame(n, g)
           l == flush_client(o)
<1>1. g \in Frames /\ IsEvent(g)  BY EventFrame DEF IpcInv
<1>2. f \in Frames /\ ~IsEvent(f)  BY FrameTypes DEF Kinds, IsEvent
<1>3. /\ k \in Conn /\ a \in App /\ Sized(k) /\ ~k.closed /\ ~k.close_after_flush
      /\ k.inbox # <<>> /\ k.out = <<>> /\ k.phase = "ready"
  BY Taken DEF HandleSubscribe, Took
<1>4. encode_event /\ app' = app
  BY DEF HandleSubscribe
<1>5. conn' = [broadcast_event(cs, "subscribed") EXCEPT ![c] = flush_client(@)]
  BY DEF HandleSubscribe, Rest
<1> HIDE DEF f
<1>6. /\ m \in Conn /\ Sized(m) /\ Pipe(m) = Append(Pipe(k), f)
      /\ Len(k.inbox) = Len(m.inbox) + 1
      /\ m.phase = k.phase /\ m.subscribed = k.subscribed
      /\ m.closed = FALSE /\ m.close_after_flush = FALSE
  BY <1>2, <1>3, AnswerEnqueued
<1> HIDE DEF m
<1>7. /\ n \in Conn /\ n.out = m.out /\ n.sock = m.sock /\ n.inbox = m.inbox
      /\ n.phase = "ready" /\ n.subscribed = TRUE /\ n.closed = FALSE
      /\ n.close_after_flush = FALSE
  BY <1>3, <1>6 DEF Conn
<1> HIDE DEF n
<1>8. Sized(n) /\ Pipe(n) = Append(Pipe(k), f) /\ Len(k.inbox) = Len(n.inbox) + 1
  BY <1>6, <1>7 DEF Sized, Pipe
<1>9. cs[c] = n /\ \A d \in Consumers \ {c} : cs[d] = conn[d]
  BY DEF IpcInv, Typed
<1>10. broadcast_event(cs, "subscribed") =
         [d \in Consumers |->
            IF cs[d].phase = "ready" /\ cs[d].subscribed /\ ~cs[d].closed
            THEN enqueue_frame(cs[d], g) ELSE cs[d]]
  BY DEF broadcast_event
<1> HIDE DEF g, cs
<1>11. /\ conn'[c] = l /\ DOMAIN conn' = Consumers
       /\ conn' = [d \in Consumers |-> conn'[d]]
       /\ \A d \in Consumers \ {c} :
            conn'[d] = IF conn[d].phase = "ready" /\ conn[d].subscribed /\ ~conn[d].closed
                       THEN enqueue_frame(conn[d], g) ELSE conn[d]
  BY <1>5, <1>7, <1>9, <1>10, SMTT(60)
<1>12. /\ o \in Conn /\ Sized(o)
       /\ o.inbox = n.inbox /\ o.phase = n.phase /\ o.subscribed = n.subscribed
       /\ o.close_after_flush = FALSE
       /\ Len(n.out) < OutCap => o.closed = n.closed /\ Pipe(o) = Append(Pipe(n), g)
       /\ ~(Len(n.out) < OutCap) => o.closed /\ Pipe(o) = Pipe(n)
  BY <1>1, <1>7, <1>8, Enqueued DEF Sized
<1> HIDE DEF o
<1>13. /\ l \in Conn /\ Sized(l) /\ l.inbox = o.inbox /\ l.phase = o.phase
       /\ l.subscribed = o.subscribed /\ Pipe(l) = Pipe(o) /\ l.closed = o.closed
  BY <1>12, Flushed DEF Sized
<1> HIDE DEF l
<1>14. \/ Joined(k, l, a, a, f, g)
       \/ Replied(k, l, a, a, f) /\ l.closed
  <2>1. CASE Len(n.out) < OutCap
    BY <1>1, <1>2, <1>3, <1>7, <1>8, <1>12, <1>13, <2>1 DEF Joined
  <2>2. CASE ~(Len(n.out) < OutCap)
    <3>1. l.closed  BY <1>12, <1>13, <2>2
    <3> QED BY <1>2, <1>3, <1>7, <1>8, <1>12, <1>13, <2>2, <3>1 DEF Replied, Live
  <2> QED BY <2>1, <2>2
<1>15. ASSUME NEW d \in Consumers \ {c} PROVE conn'[d] \in Conn /\ Offered(d, g)
  <2>1. conn[d] \in Conn /\ app'[d] = app[d] /\ Sized(conn[d])
    BY <1>4 DEF IpcInv, Typed, ConnInv, Formed
  <2>2. CASE Subscribed(d)
    BY <1>1, <1>11, <2>1, <2>2, Offering DEF Offered, Subscribed, Open
  <2>3. CASE ~Subscribed(d)
    BY <1>11, <2>1, <2>3 DEF Offered, Subscribed, Open
  <2> QED BY <2>2, <2>3
<1>16. \A d \in Consumers : conn'[d] \in Conn
  BY <1>11, <1>13, <1>15
<1>17. Typable
  BY <1>4, <1>11, <1>16 DEF Typable, IpcInv, Typed
<1> QED BY <1>3, <1>4, <1>11, <1>14, <1>15, <1>17 DEF Subscription, f, g

\* The three kinds of steps.
LEMMA Steps ==
    ASSUME IpcInv, [Next]_vars
    PROVE  \/ UNCHANGED <<conn, app, next_seq>>
           \/ \E c \in Consumers : Quiet(c)
           \/ Changed
           \/ \E c \in Consumers : Subscription(c)
<1>1. CASE observe_state
  BY <1>1, ChangeAnnounced DEF observe_state
<1>2. CASE TruthChanges
  BY <1>2 DEF TruthChanges
<1>3. CASE UNCHANGED vars
  BY <1>3 DEF vars
<1>4. ASSUME NEW c \in Consumers, Service(c)
      PROVE  Quiet(c) \/ Subscription(c)
  BY <1>4, Handled, SubscriptionAnnounced
<1>5. ASSUME NEW c \in Consumers,
             \/ Flush(c) \/ apply_deadlines(c) \/ cleanup_clients(c)
             \/ Accept(c) \/ ReceivePrefix(c) \/ Send(c) \/ SendStray(c) \/ Hangup(c)
             \/ ReadEvent(c) \/ ReadAnswer(c)
      PROVE  Quiet(c)
  BY <1>5, Moved, Consumed
<1> QED BY <1>1, <1>2, <1>3, <1>4, <1>5 DEF Next

LEMMA TruthTyped ==
    ASSUME Typed, [Next]_vars
    PROVE  truth' \in Truth /\ previous' \in Truth
<1>1. Changes => truth' \in Truth  BY DEF Changes, NextTruths
<1>2. truth \in Truth /\ previous \in Truth  BY DEF Typed
<1>3. CASE observe_state  BY <1>2, <1>3 DEF observe_state
<1>4. CASE TruthChanges  BY <1>1, <1>2, <1>4 DEF TruthChanges
<1>5. CASE UNCHANGED vars  BY <1>2, <1>5 DEF vars
<1>6. ASSUME NEW c \in Consumers, HandleV0(c) \/ HandleBusiness(c)
      PROVE  truth' \in Truth /\ previous' \in Truth
  BY <1>1, <1>2, <1>6 DEF HandleV0, HandleBusiness, Command
<1>7. ASSUME NEW c \in Consumers,
             \/ HandleGarbage(c) \/ HandleHello(c) \/ HandleRefused(c) \/ HandlePing(c)
             \/ HandleSnapshot(c) \/ HandleSubscribe(c)
             \/ Flush(c) \/ apply_deadlines(c) \/ cleanup_clients(c)
             \/ Accept(c) \/ ReceivePrefix(c) \/ Send(c) \/ SendStray(c) \/ Hangup(c)
             \/ ReadEvent(c) \/ ReadAnswer(c)
      PROVE  UNCHANGED <<truth, previous>>
  BY <1>7 DEF HandleGarbage, HandleHello, HandleRefused, HandlePing, HandleSnapshot,
              HandleSubscribe, Flush, apply_deadlines, cleanup_clients, Accept, ReceivePrefix,
              Send, SendStray, Hangup, ReadEvent, ReadAnswer, net
<1> QED BY <1>2, <1>3, <1>4, <1>5, <1>6, <1>7 DEF Next, Service

LEMMA QuietKeeps ==
    ASSUME IpcInv, NEW c \in Consumers, Quiet(c)
    PROVE  \A d \in Consumers : ConnInv(conn'[d], app'[d], last_sequence')
<1>1. last_sequence' = last_sequence /\ last_sequence \in Nat
  BY NumbersGoOn, Bounds, SMTT(60) DEF Quiet, last_sequence, IpcInv, Typed
<1>2. ASSUME NEW d \in Consumers
      PROVE  /\ conn[d] \in Conn /\ conn'[d] \in Conn /\ app[d] \in App /\ app'[d] \in App
             /\ ConnInv(conn[d], app[d], last_sequence)
  BY DEF IpcInv, Typed, Quiet, Typable
<1>3. ConnInv(conn'[c], app'[c], last_sequence)
  BY <1>1, <1>2, StillKeeps, CutKeeps, AskedKeeps, RepliedKeeps, HeardKeeps, AnswerKeeps, FreshKeeps
  DEF Quiet, Effect
<1> QED BY <1>1, <1>2, <1>3 DEF Quiet

LEMMA OfferedKeeps ==
    ASSUME IpcInv, NEW d \in Consumers, NEW g, g.seq = last_sequence + 1, Offered(d, g), Typable
    PROVE  ConnInv(conn'[d], app'[d], last_sequence + 1)
<1>1. last_sequence \in Nat
  BY NumbersGoOn, Bounds, SMTT(60) DEF IpcInv, Typed
<1>2. /\ conn[d] \in Conn /\ conn'[d] \in Conn /\ app[d] \in App /\ app'[d] \in App
      /\ ConnInv(conn[d], app[d], last_sequence)
  BY DEF IpcInv, Typed, Typable
<1>3. CASE Announced(conn[d], conn'[d], app[d], app'[d], g)
  BY <1>1, <1>2, <1>3, AnnouncedKeeps
<1>4. CASE Cut(conn[d], conn'[d], app[d], app'[d])
  <2>1. ConnInv(conn'[d], app'[d], last_sequence) /\ ~Live(conn'[d])
    BY <1>1, <1>2, <1>4, CutKeeps
  <2> QED BY <1>1, <1>2, <2>1, OthersKeep
<1>5. CASE ~Subscribed(d) /\ conn'[d] = conn[d] /\ app'[d] = app[d]
  <2>1. ~(Live(conn[d]) /\ conn[d].subscribed)
    BY <1>2, <1>5 DEF Subscribed, Open, Live, ConnInv, Formed
  <2> QED BY <1>1, <1>2, <1>5, <2>1, OthersKeep
<1> QED BY <1>3, <1>4, <1>5 DEF Offered

LEMMA IpcStep == IpcInv /\ [Next]_vars => IpcInv'
<1> SUFFICES ASSUME IpcInv, [Next]_vars PROVE IpcInv'
  OBVIOUS
<1>1. truth' \in Truth /\ previous' \in Truth  BY TruthTyped DEF IpcInv
<1>2. CASE UNCHANGED <<conn, app, next_seq>>
  BY <1>1, <1>2 DEF IpcInv, Typed, last_sequence
<1>3. ASSUME NEW c \in Consumers, Quiet(c) PROVE IpcInv'
  <2>1. \A d \in Consumers : ConnInv(conn'[d], app'[d], last_sequence')
    BY <1>3, QuietKeeps
  <2> QED BY <1>1, <1>3, <2>1 DEF IpcInv, Typed, Quiet, Typable
<1>4. CASE Changed
  <2>1. last_sequence' = last_sequence + 1 /\ next_seq' \in 0 .. MaxSeq
        /\ next_seq = last_sequence + 1
    BY <1>4, NumbersGoOn DEF Changed, IpcInv, Typed
  <2>2. Frame("changed", next_seq, 0).seq = last_sequence + 1
    BY <2>1, EventFrame DEF IpcInv
  <2>3. ASSUME NEW d \in Consumers PROVE ConnInv(conn'[d], app'[d], last_sequence + 1)
    BY <1>4, <2>2, OfferedKeeps DEF Changed
  <2> QED BY <1>1, <1>4, <2>1, <2>3 DEF IpcInv, Typed, Changed, Typable
<1>5. ASSUME NEW c \in Consumers, Subscription(c) PROVE IpcInv'
  <2> DEFINE g == Frame("subscribed", next_seq, 0)
             f == Answer("response")
  <2>1. last_sequence' = last_sequence + 1 /\ next_seq' \in 0 .. MaxSeq
        /\ next_seq = last_sequence + 1 /\ last_sequence \in Nat
    BY <1>5, NumbersGoOn, Bounds, SMTT(60) DEF Subscription, IpcInv, Typed
  <2>2. g.seq = last_sequence + 1
    BY <2>1, EventFrame DEF IpcInv
  <2>3. f.seq <= last_sequence
    BY <2>1, FrameTypes, SMTT(60) DEF Kinds
  <2>4. ASSUME NEW d \in Consumers \ {c} PROVE ConnInv(conn'[d], app'[d], last_sequence + 1)
    BY <1>5, <2>2, OfferedKeeps DEF Subscription
  <2>5. /\ conn[c] \in Conn /\ conn'[c] \in Conn /\ app[c] \in App /\ app'[c] \in App
        /\ ConnInv(conn[c], app[c], last_sequence)
    BY <1>5 DEF IpcInv, Typed, Subscription, Typable
  <2>6. \/ Joined(conn[c], conn'[c], app[c], app'[c], f, g)
        \/ Replied(conn[c], conn'[c], app[c], app'[c], f) /\ conn'[c].closed
    BY <1>5 DEF Subscription
  <2> HIDE DEF f, g
  <2>7. ConnInv(conn'[c], app'[c], last_sequence + 1)
    <3>1. CASE Joined(conn[c], conn'[c], app[c], app'[c], f, g)
      BY <2>1, <2>2, <2>3, <2>5, <3>1, JoinedKeeps
    <3>2. CASE Replied(conn[c], conn'[c], app[c], app'[c], f) /\ conn'[c].closed
      <4>1. ConnInv(conn'[c], app'[c], last_sequence)
        BY <2>1, <2>3, <2>5, <3>2, RepliedKeeps
      <4> QED BY <2>1, <2>5, <3>2, <4>1, OthersKeep DEF Live
    <3> QED BY <2>6, <3>1, <3>2
  <2>8. \A d \in Consumers : ConnInv(conn'[d], app'[d], last_sequence + 1)
    BY <2>4, <2>7
  <2> QED BY <1>1, <1>5, <2>1, <2>8 DEF IpcInv, Typed, Subscription, Typable
<1> QED BY <1>2, <1>3, <1>4, <1>5, Steps

LEMMA IpcInit == Init => IpcInv
<1> SUFFICES ASSUME Init PROVE IpcInv
  OBVIOUS
<1>1. NoConn \in Conn /\ Fresh \in App
  BY Blank
<1>2. Typed
  BY <1>1, Bounds, SMTT(60) DEF Init, Typed, Truth
<1>3. last_sequence = 0  BY SMTT(60) DEF Init, last_sequence
<1>4. Formed(NoConn, Fresh)
  BY EmptyPipe, Bounds, SMTT(60) DEF Formed, Sized, NoConn
<1>6. Numbered(NoConn, Fresh, 0)
  BY DEF Numbered, Live, NoConn
<1>7. Past(NoConn, Fresh, 0)
  <2>1. Fresh.last = 0  BY DEF Fresh
  <2> QED BY <2>1, EmptyPipe, SMTT(60) DEF Past
<1> QED BY <1>2, <1>3, <1>4, <1>6, <1>7 DEF IpcInv, ConnInv, Init

LEMMA IpcInvariance == Spec => []IpcInv
<1>1. Init => IpcInv  BY IpcInit
<1>2. IpcInv /\ [Next]_vars => IpcInv'  BY IpcStep
<1> QED BY <1>1, <1>2, PTL DEF Spec

LEMMA SubscribedFacts ==
    ASSUME IpcInv, NEW c \in Consumers
    PROVE  /\ conn[c] \in Conn /\ app[c] \in App /\ Pipe(conn[c]) \in Seq(Frames)
           /\ app[c].heard \in Nat /\ last_sequence \in Nat
           /\ Subscribed(c) <=> Live(conn[c]) /\ conn[c].subscribed
           /\ Subscribed(c) => /\ Gapless(Pipe(conn[c]), app[c].heard, last_sequence)
                               /\ Rising(Pipe(conn[c]), last_sequence)
                               /\ app[c].heard # 0 \/ Events(Pipe(conn[c])) # {}
<1>1. conn[c] \in Conn /\ app[c] \in App /\ ConnInv(conn[c], app[c], last_sequence)
  BY DEF IpcInv, Typed
<1>2. last_sequence \in Nat
  BY NumbersGoOn, Bounds, SMTT(60) DEF IpcInv, Typed
<1>4. Subscribed(c) <=> Live(conn[c]) /\ conn[c].subscribed
  BY <1>1 DEF Subscribed, Open, Live, ConnInv, Formed
<1>5. Subscribed(c) => /\ Gapless(Pipe(conn[c]), app[c].heard, last_sequence)
                       /\ Rising(Pipe(conn[c]), last_sequence)
  BY <1>1, <1>4 DEF ConnInv, Numbered
<1> QED BY <1>1, <1>2, <1>4, <1>5, ConnFacts DEF Gapless

\* A subscribed session hears consecutive numbers up to the last one allocated:
\* broadcast_event gives an event to every subscriber or ends its session.
THEOREM NoGap == Spec => []NoArtificialGap
<1>1. IpcInv => NoArtificialGap
  <2> SUFFICES ASSUME IpcInv, NEW c \in Consumers, Subscribed(c)
               PROVE  Gapless(Pipe(conn[c]), app[c].heard, last_sequence)
    BY DEF NoArtificialGap, Gapless
  <2> QED BY DEF IpcInv, ConnInv, Numbered, Live, Subscribed, Open
<1> QED BY <1>1, IpcInvariance, PTL

=============================================================================
