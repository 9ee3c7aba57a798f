----------------------- MODULE NetworkIpcStreamProofs ------------------------
(***************************************************************************)
(* Proofs about NetworkIpcServer that count or order what is under way: no *)
(* request lost or answered twice, the event stream as a refinement of     *)
(* EventStream, and convergence of a consumer that follows the contract.   *)
(***************************************************************************)
EXTENDS NetworkIpcServerProofs, NetworkIpcStream, FiniteSetTheorems

\* A leaf that names no prover is one for Zenon.
USE ZenonT(60)

\* Requests in the input and answers in the pipe; a cut session may have lost some.
Counted(k, a) ==
    /\ a.owed >= Len(k.inbox) + Answers(Pipe(k))
    /\ ~k.closed => a.owed = Len(k.inbox) + Answers(Pipe(k))

LEMMA AnswersFinite ==
    ASSUME NEW p \in Seq(Frames)
    PROVE  /\ IsFiniteSet({i \in DOMAIN p : ~IsEvent(p[i])})
           /\ Answers(p) \in Nat
<1> DEFINE A == {i \in DOMAIN p : ~IsEvent(p[i])}
<1>1. Len(p) \in Nat /\ DOMAIN p = 1 .. Len(p)
  BY SMTT(60)
<1>2. A \in SUBSET (1 .. Len(p))
  BY <1>1
<1>3. IsFiniteSet(1 .. Len(p))
  BY <1>1, FS_Interval, SMTT(60)
<1> HIDE DEF A
<1>4. IsFiniteSet(A)
  BY <1>2, <1>3, FS_Subset
<1>5. Cardinality(A) \in Nat
  BY <1>4, FS_CardinalityType
<1> QED BY <1>4, <1>5 DEF A, Answers

LEMMA AnswersAppend ==
    ASSUME NEW p \in Seq(Frames), NEW f \in Frames
    PROVE  Answers(Append(p, f)) = Answers(p) + (IF IsEvent(f) THEN 0 ELSE 1)
<1> DEFINE q == Append(p, f)
           A == {i \in DOMAIN p : ~IsEvent(p[i])}
           B == {i \in DOMAIN q : ~IsEvent(q[i])}
<1>1. /\ Len(p) \in Nat /\ DOMAIN p = 1 .. Len(p) /\ DOMAIN q = 1 .. (Len(p) + 1)
      /\ \A i \in 1 .. Len(p) : q[i] = p[i]
      /\ q[Len(p) + 1] = f
  BY AppendFacts
<1> HIDE DEF q
<1>2. B = IF IsEvent(f) THEN A ELSE A \cup {Len(p) + 1}
  BY <1>1, SMTT(60)
<1>3. Len(p) + 1 \notin A
  BY <1>1, SMTT(60)
<1>4. IsFiniteSet(A) /\ Cardinality(A) \in Nat
  BY AnswersFinite DEF Answers
<1> HIDE DEF A, B
<1>5. Cardinality(A \cup {Len(p) + 1}) = Cardinality(A) + 1
  BY <1>3, <1>4, FS_AddElement
<1>6. Cardinality(B) = Cardinality(A) + (IF IsEvent(f) THEN 0 ELSE 1)
  BY <1>2, <1>4, <1>5, SMTT(60)
<1> QED BY <1>6 DEF Answers, A, B, q

LEMMA AnswersTail ==
    ASSUME NEW p \in Seq(Frames), p # <<>>
    PROVE  Answers(Tail(p)) = Answers(p) - (IF IsEvent(Head(p)) THEN 0 ELSE 1)
<1> DEFINE q == Tail(p)
           A == {i \in DOMAIN p : ~IsEvent(p[i])}
           B == {i \in DOMAIN q : ~IsEvent(q[i])}
           f == [i \in B |-> i + 1]
<1>1. /\ Head(p) = p[1] /\ Len(p) \in Nat \ {0} /\ q \in Seq(Frames)
      /\ DOMAIN p = 1 .. Len(p) /\ DOMAIN q = 1 .. (Len(p) - 1)
      /\ \A i \in DOMAIN q : i + 1 \in DOMAIN p /\ q[i] = p[i + 1] /\ i \in Nat
      /\ \A i \in DOMAIN p : i \in Nat /\ (i = 1 \/ (i > 1 /\ i - 1 \in DOMAIN q
                                                  /\ q[i - 1] = p[i]))
  BY TailFacts
<1> HIDE DEF q
<1>2. \A i \in B : i \in Nat /\ i + 1 \in A \ {1}
  BY <1>1, SMTT(60)
<1>3. \A j \in A \ {1} : j - 1 \in B /\ j \in Nat
  BY <1>1
<1>4. f \in Bijection(B, A \ {1})
  <2>1. f \in [B -> A \ {1}]  BY <1>2
  <2>2. \A i, j \in B : f[i] = f[j] => i = j
    BY <1>2, SMTT(60)
  <2>3. \A j \in A \ {1} : \E i \in B : f[i] = j
    <3> SUFFICES ASSUME NEW j \in A \ {1} PROVE \E i \in B : f[i] = j
      OBVIOUS
    <3>1. j - 1 \in B /\ f[j - 1] = (j - 1) + 1 /\ j \in Nat
      BY <1>3
    <3>2. (j - 1) + 1 = j  BY <3>1, SMTT(60)
    <3> QED BY <3>1, <3>2
  <2> HIDE DEF A, B, f
  <2> QED BY <2>1, <2>2, <2>3 DEF Bijection, Injection, Surjection, IsInjective
<1>5. IsFiniteSet(A) /\ IsFiniteSet(B) /\ Cardinality(A) \in Nat
  BY <1>1, AnswersFinite DEF Answers
<1>6. 1 \in A <=> ~IsEvent(Head(p))
  BY <1>1, SMTT(60)
<1> HIDE DEF A, B, f
<1>7. Cardinality(A \ {1}) = Cardinality(B)
  BY <1>4, <1>5, FS_Bijection DEF ExistsBijection
<1>8. Cardinality(A \ {1}) = IF 1 \in A THEN Cardinality(A) - 1 ELSE Cardinality(A)
  BY <1>5, FS_RemoveElement
<1>9. Cardinality(B) = Cardinality(A) - (IF IsEvent(Head(p)) THEN 0 ELSE 1)
  BY <1>5, <1>6, <1>7, <1>8, SMTT(60)
<1> QED BY <1>9 DEF Answers, A, B, q

LEMMA NothingToCount ==
    ASSUME NEW k, NEW a, k.inbox = <<>>, Pipe(k) = <<>>, a = Fresh
    PROVE  Counted(k, a)
<1>1. {i \in DOMAIN <<>> : ~IsEvent(<<>>[i])} = {} /\ Len(<<>>) = 0  BY SMTT(60)
<1>2. Answers(<<>>) = 0  BY <1>1, FS_EmptySet DEF Answers
<1> QED BY <1>1, <1>2, SMTT(60) DEF Counted, Fresh

\* What a step of the reactor or of the consumer does to a session keeps the count.
LEMMA CountKept ==
    ASSUME NEW k \in Conn, NEW l \in Conn, NEW a \in App, NEW b \in App,
           Counted(k, a), Formed(k, a),
           \/ Effect(k, l, a, b)
           \/ \E f : Announced(k, l, a, b, f)
           \/ \E f, g : Joined(k, l, a, b, f, g)
           \/ \E f : Replied(k, l, a, b, f)
    PROVE  Counted(l, b)
<1> DEFINE p == Pipe(k)
           q == Pipe(l)
           m == Len(k.inbox)
           n == Len(l.inbox)
           s == Answers(p)
           t == Answers(q)
           u == a.owed
           v == b.owed
<1>1. p \in Seq(Frames) /\ q \in Seq(Frames) /\ m \in Nat /\ n \in Nat /\ u \in Int /\ v \in Int
  BY ConnFacts
<1>2. s \in Nat /\ t \in Nat  BY <1>1, AnswersFinite
<1>3. u >= m + s /\ (~k.closed => u = m + s)
  BY DEF Counted
<1>4. v >= n + t /\ (~l.closed => v = n + t) => Counted(l, b)
  BY DEF Counted
<1>5. v = n + t => Counted(l, b)
  <2> HIDE DEF n, t, v
  <2> QED BY <1>1, <1>2, <1>4, SMTT(60)
<1>6. CASE Still(k, l, a, b)
  BY <1>6 DEF Still, Counted
<1>7. CASE Cut(k, l, a, b)
  <2>1. l.closed /\ v = u /\ t = s /\ n <= m  BY <1>7 DEF Cut
  <2> HIDE DEF m, n, s, t, u, v
  <2>2. v >= n + t  BY <1>1, <1>2, <1>3, <2>1, SMTT(60)
  <2> QED BY <1>4, <2>1, <2>2
<1>8. CASE Asked(k, l, a, b)
  <2>1. v = u + 1 /\ t = s /\ n = m + 1 /\ l.closed = k.closed  BY <1>8 DEF Asked
  <2> HIDE DEF m, n, s, t, u, v
  <2>2. v >= n + t  BY <1>1, <1>2, <1>3, <2>1, SMTT(60)
  <2>3. ~k.closed => v = n + t  BY <1>1, <1>2, <1>3, <2>1, SMTT(60)
  <2> QED BY <1>4, <2>1, <2>2, <2>3
<1>9. ASSUME NEW f, Replied(k, l, a, b, f) PROVE Counted(l, b)
  <2>1. /\ v = u /\ ~k.closed /\ f \in Frames /\ ~IsEvent(f) /\ q = Append(p, f) /\ m = n + 1
    BY <1>9 DEF Replied
  <2>2. t = s + 1  BY <1>1, <2>1, AnswersAppend
  <2> HIDE DEF m, n, s, t, u, v
  <2>3. v = n + t  BY <1>1, <1>2, <1>3, <2>1, <2>2, SMTT(60)
  <2> QED BY <1>5, <2>3
<1>10. ASSUME NEW f, Announced(k, l, a, b, f) PROVE Counted(l, b)
  <2>1. /\ v = u /\ ~k.closed /\ f \in Frames /\ IsEvent(f) /\ q = Append(p, f) /\ n = m
    BY <1>10 DEF Announced
  <2>2. t = s + 0  BY <1>1, <2>1, AnswersAppend
  <2> HIDE DEF m, n, s, t, u, v
  <2>3. v = n + t  BY <1>1, <1>2, <1>3, <2>1, <2>2, SMTT(60)
  <2> QED BY <1>5, <2>3
<1>11. ASSUME NEW f, NEW g, Joined(k, l, a, b, f, g) PROVE Counted(l, b)
  <2> DEFINE r == Append(p, f)
             w == Answers(r)
  <2>1. /\ v = u /\ ~k.closed /\ f \in Frames /\ ~IsEvent(f) /\ g \in Frames /\ IsEvent(g)
        /\ q = Append(r, g) /\ m = n + 1
    BY <1>11 DEF Joined
  <2>2. r \in Seq(Frames)  BY <1>1, <2>1, AppendFacts
  <2>3. w = s + 1  BY <1>1, <2>1, AnswersAppend
  <2>4. t = w + 0
    <3> HIDE DEF r
    <3> QED BY <2>1, <2>2, AnswersAppend
  <2> HIDE DEF m, n, s, t, u, v, w
  <2>5. v = n + t  BY <1>1, <1>2, <1>3, <2>1, <2>3, <2>4, SMTT(60)
  <2> QED BY <1>5, <2>5
<1>12. CASE HeardEvent(k, l, a, b)
  <2>1. /\ v = u /\ p # <<>> /\ q = Tail(p) /\ IsEvent(Head(p)) /\ n = m /\ l.closed = k.closed
    BY <1>12 DEF HeardEvent, Read
  <2>2. t = s - 0  BY <1>1, <2>1, AnswersTail
  <2> HIDE DEF m, n, s, t, u, v
  <2>3. t = s  BY <1>2, <2>2, SMTT(60)
  <2> QED BY <1>3, <1>4, <2>1, <2>3
<1>13. CASE HadAnswer(k, l, a, b)
  <2>1. /\ v = u - 1 /\ p # <<>> /\ q = Tail(p) /\ ~IsEvent(Head(p)) /\ n = m
        /\ l.closed = k.closed
    BY <1>13 DEF HadAnswer, Read
  <2>2. t = s - 1  BY <1>1, <2>1, AnswersTail
  <2> HIDE DEF m, n, s, t, u, v
  <2>3. v >= n + t  BY <1>1, <1>2, <1>3, <2>1, <2>2, SMTT(60)
  <2>4. ~k.closed => v = n + t  BY <1>1, <1>2, <1>3, <2>1, <2>2, SMTT(60)
  <2> QED BY <1>4, <2>1, <2>3, <2>4
<1>14. CASE Ended(k, l, a, b) \/ Accepted(k, l, a, b)
  <2>1. b = Fresh /\ l \in {NoConn, [NoConn EXCEPT !.phase = "undecided"]}
    BY <1>14 DEF Ended, Accepted, Formed
  <2>2. Pipe(l) = <<>>  BY <2>1, EmptyPipe
  <2>3. l.inbox = <<>>  BY <2>1, SMTT(60) DEF NoConn
  <2> QED BY <2>1, <2>2, <2>3, NothingToCount
<1> QED BY <1>6, <1>7, <1>8, <1>9, <1>10, <1>11, <1>12, <1>13, <1>14 DEF Effect

AllCounted == \A c \in Consumers : Counted(conn[c], app[c])

LEMMA CountStep == IpcInv /\ AllCounted /\ [Next]_vars => AllCounted'
<1> SUFFICES ASSUME IpcInv, AllCounted, [Next]_vars, NEW d \in Consumers
             PROVE  Counted(conn'[d], app'[d])
  BY DEF AllCounted
<1>1. conn[d] \in Conn /\ app[d] \in App /\ Formed(conn[d], app[d]) /\ Counted(conn[d], app[d])
  BY DEF IpcInv, Typed, ConnInv, AllCounted
<1>2. CASE conn'[d] = conn[d] /\ app'[d] = app[d]
  BY <1>1, <1>2
<1>3. ASSUME Typable,
             \/ Effect(conn[d], conn'[d], app[d], app'[d])
             \/ \E f : Announced(conn[d], conn'[d], app[d], app'[d], f)
             \/ \E f, g : Joined(conn[d], conn'[d], app[d], app'[d], f, g)
             \/ \E f : Replied(conn[d], conn'[d], app[d], app'[d], f)
      PROVE  Counted(conn'[d], app'[d])
  <2>1. conn'[d] \in Conn /\ app'[d] \in App  BY <1>3 DEF Typable
  <2> QED BY <1>1, <1>3, <2>1, CountKept
<1>4. ASSUME Typable, NEW g, Offered(d, g) PROVE Counted(conn'[d], app'[d])
  <2>1. CASE Cut(conn[d], conn'[d], app[d], app'[d])
    BY <1>3, <1>4, <2>1 DEF Effect
  <2> QED BY <1>2, <1>3, <1>4, <2>1 DEF Offered
<1>5. CASE UNCHANGED <<conn, app, next_seq>>
  BY <1>2, <1>5
<1>6. ASSUME NEW c \in Consumers, Quiet(c) PROVE Counted(conn'[d], app'[d])
  BY <1>2, <1>3, <1>6 DEF Quiet
<1>7. CASE Changed
  BY <1>4, <1>7 DEF Changed
<1>8. ASSUME NEW c \in Consumers, Subscription(c) PROVE Counted(conn'[d], app'[d])
  <2>1. CASE d = c  BY <1>3, <1>8, <2>1 DEF Subscription
  <2>2. CASE d # c  BY <1>4, <1>8, <2>2 DEF Subscription
  <2> QED BY <2>1, <2>2
<1> QED BY <1>5, <1>6, <1>7, <1>8, Steps

LEMMA CountInvariance == Spec => [](IpcInv /\ AllCounted)
<1>1. Init => AllCounted
  <2>1. NoConn.inbox = <<>> /\ Pipe(NoConn) = <<>>  BY EmptyPipe DEF NoConn
  <2>2. Counted(NoConn, Fresh)  BY <2>1, NothingToCount
  <2> QED BY <2>2 DEF Init, AllCounted
<1> QED BY <1>1, CountStep, IpcInvariance, PTL DEF Spec

\* Types hold and no outbound queue outgrows OutboundQueue's limit, for every number
\* of consumers and every capacity.
THEOREM TypeCorrect == Spec => []TypeOK
<1>1. IpcInv /\ AllCounted => TypeOK
  <2> SUFFICES ASSUME IpcInv, AllCounted, NEW c \in Consumers
               PROVE  /\ conn[c].phase \in Phases /\ conn[c].inbox \in Seq(Requests)
                      /\ Len(conn[c].out) <= OutCap /\ Len(conn[c].sock) <= SockCap
                      /\ app[c].owed \in Nat /\ app[c].view \in Truth
    BY DEF IpcInv, Typed, TypeOK, Phases
  <2>1. conn[c] \in Conn /\ app[c] \in App  BY DEF IpcInv, Typed
  <2>2. Sized(conn[c]) /\ app[c].owed >= Len(conn[c].inbox) + Answers(Pipe(conn[c]))
    BY DEF IpcInv, ConnInv, Formed, AllCounted, Counted
  <2>3. app[c].owed \in Int /\ Len(conn[c].inbox) \in Nat /\ Answers(Pipe(conn[c])) \in Nat
    BY <2>1, ConnFacts, AnswersFinite
  <2>4. app[c].owed \in Nat  BY <2>2, <2>3, SMTT(60)
  <2> QED BY <2>1, <2>2, <2>4 DEF Conn, App, Sized
<1> QED BY <1>1, CountInvariance, PTL

\* While a session is open no handler of the reactor loses a request or answers it
\* twice, whatever the client sends and however its frames are flushed.
THEOREM RequestsConserved == Spec => []AnswersConserved
<1>1. AllCounted => AnswersConserved
  BY DEF AllCounted, Counted, AnswersConserved, Open
<1> QED BY <1>1, CountInvariance, PTL

-----------------------------------------------------------------------------
(* The event stream. *)
PositionOf(p, heard) == IF heard # 0 THEN heard ELSE p[Min(Events(p))].seq - 1

LEMMA MinFacts ==
    ASSUME NEW E \in SUBSET Nat, E # {}
    PROVE  Min(E) \in E /\ \A y \in E : Min(E) <= y
<1>1. PICK x \in E : \A y \in E : ~(<<y, x>> \in OpToRel(<, Nat))
  BY NatLessThanWellFounded, WFMin
<1>2. \A y \in E : x <= y
  <2> SUFFICES ASSUME NEW y \in E PROVE x <= y
    OBVIOUS
  <2>1. x \in Nat /\ y \in Nat  OBVIOUS
  <2>2. y < x => <<y, x>> \in OpToRel(<, Nat)
    BY <2>1 DEF OpToRel
  <2>3. ~(y < x)  BY <1>1, <2>2
  <2> QED BY <2>1, <2>3, SMTT(60)
<1> QED BY <1>2 DEF Min

LEMMA MinIs ==
    ASSUME NEW E \in SUBSET Nat, NEW x \in E, \A y \in E : x <= y
    PROVE  Min(E) = x
<1>1. Min(E) \in E /\ Min(E) <= x /\ x <= Min(E)
  BY MinFacts
<1>2. Min(E) \in Nat /\ x \in Nat
  BY <1>1
<1> QED BY <1>1, <1>2, SMTT(60)

LEMMA PositionKept ==
    ASSUME NEW p \in Seq(Frames), NEW f \in Frames, NEW heard \in Nat,
           heard # 0 \/ Events(p) # {}
    PROVE  PositionOf(Append(p, f), heard) = PositionOf(p, heard)
<1> DEFINE q == Append(p, f)
           n == Len(p) + 1
<1>1. /\ Events(q) = Events(p) \/ Events(q) = Events(p) \cup {n}
      /\ n \in Nat
      /\ \A i \in Events(p) : q[i] = p[i] /\ i < n /\ i \in Nat
  <2>1. Events(q) = Events(p) \/ Events(q) = Events(p) \cup {n}
    BY EventsFacts
  <2>2. n \in Nat  BY AppendFacts, SMTT(60)
  <2>3. \A i \in Events(p) : q[i] = p[i] /\ i < n /\ i \in Nat
    BY EventsFacts
  <2> QED BY <2>1, <2>2, <2>3
<1> HIDE DEF q, n
<1>2. CASE heard # 0
  BY <1>2 DEF PositionOf, q
<1>3. CASE heard = 0
  <2>1. Events(p) \in SUBSET Nat /\ Events(q) \in SUBSET Nat /\ Events(p) # {}
    BY <1>1, <1>3
  <2>2. Min(Events(p)) \in Events(p) /\ \A y \in Events(p) : Min(Events(p)) <= y
    BY <2>1, MinFacts
  <2>3. Min(Events(p)) \in Events(q) /\ \A y \in Events(q) : Min(Events(p)) <= y
    <3>1. Min(Events(p)) < n /\ Min(Events(p)) \in Nat  BY <1>1, <2>2
    <3>2. Min(Events(p)) <= n  BY <1>1, <3>1, SMTT(60)
    <3> QED BY <1>1, <2>2, <3>2
  <2>4. Min(Events(q)) = Min(Events(p))
    BY <2>1, <2>3, MinIs
  <2>5. q[Min(Events(p))] = p[Min(Events(p))]  BY <1>1, <2>2
  <2> QED BY <1>3, <2>4, <2>5 DEF PositionOf, q
<1> QED BY <1>2, <1>3

LEMMA PositionShifted ==
    ASSUME NEW p \in Seq(Frames), p # <<>>, ~IsEvent(Head(p)), NEW heard \in Nat,
           heard # 0 \/ Events(p) # {}
    PROVE  PositionOf(Tail(p), heard) = PositionOf(p, heard)
<1> DEFINE q == Tail(p)
<1>1. /\ \A i \in Events(q) : i + 1 \in Events(p) /\ i \in Nat
      /\ \A i \in Events(p) : i \in Nat /\ i > 1 /\ i - 1 \in Events(q) /\ q[i - 1] = p[i]
  BY EventsOfTail
<1> HIDE DEF q
<1>2. CASE heard # 0
  BY <1>2 DEF PositionOf, q
<1>3. CASE heard = 0
  <2> DEFINE m == Min(Events(p))
  <2>1. Events(p) \in SUBSET Nat /\ Events(q) \in SUBSET Nat /\ Events(p) # {}
    BY <1>1, <1>3
  <2>2. m \in Events(p) /\ \A y \in Events(p) : m <= y
    BY <2>1, MinFacts
  <2> HIDE DEF m
  <2>3. m - 1 \in Events(q) /\ q[m - 1] = p[m] /\ m \in Nat
    BY <1>1, <2>2
  <2>4. ASSUME NEW y \in Events(q) PROVE m - 1 <= y
    <3>1. y \in Nat /\ m <= y + 1  BY <1>1, <2>2
    <3> QED BY <2>3, <3>1, SMTT(60)
  <2>5. Min(Events(q)) = m - 1
    BY <2>1, <2>3, <2>4, MinIs
  <2> QED BY <1>3, <2>3, <2>5 DEF PositionOf, q, m
<1> QED BY <1>2, <1>3

LEMMA PositionRead ==
    ASSUME NEW p \in Seq(Frames), p # <<>>, IsEvent(Head(p)), NEW heard \in Nat, NEW ls \in Nat,
           Gapless(p, heard, ls), Rising(p, ls)
    PROVE  /\ PositionOf(p, heard) \in Nat /\ PositionOf(p, heard) < ls
           /\ PositionOf(Tail(p), Head(p).seq) = PositionOf(p, heard) + 1
<1>1. /\ Head(p).seq # 0 /\ Head(p).seq <= ls
      /\ heard # 0 => Head(p).seq = heard + 1
  BY EventTaken
<1>2. Head(p) = p[1] /\ Head(p) \in Frames
  BY TailFacts
<1>3. Head(p).seq \in Nat
  BY <1>2, FrameBounds
<1>4. PositionOf(Tail(p), Head(p).seq) = Head(p).seq
  BY <1>1 DEF PositionOf
<1>5. PositionOf(p, heard) = Head(p).seq - 1
  <2>1. CASE heard # 0
    BY <1>1, <1>3, <2>1, SMTT(60) DEF PositionOf
  <2>2. CASE heard = 0
    <3>1. 1 \in Events(p) /\ \A i \in Events(p) : i \in Nat /\ (i = 1 \/ i > 1)
      BY EventsOfTail
    <3>2. Events(p) \in SUBSET Nat /\ \A i \in Events(p) : 1 <= i
      BY <3>1, SMTT(60)
    <3>3. Min(Events(p)) = 1
      BY <3>1, <3>2, MinIs
    <3> QED BY <1>2, <2>2, <3>3 DEF PositionOf
  <2> QED BY <2>1, <2>2
<1> QED BY <1>1, <1>3, <1>4, <1>5, SMTT(60)

\* What the invariant says of a subscribed session.
LEMMA PositionIs ==
    ASSUME NEW c \in Consumers
    PROVE  Position(c) = PositionOf(Pipe(conn[c]), app[c].heard)
BY DEF Position, PositionOf

\* A quiet step leaves a subscriber alone, ends its session or lets it hear one event.
LEMMA StreamEffect ==
    ASSUME IpcInv, IpcInv', NEW c \in Consumers, Quiet(c)
    PROVE  \/ /\ Subscribed(c)' <=> Subscribed(c)
              /\ Subscribed(c) => Position(c)' = Position(c)
           \/ Subscribed(c) /\ ~Subscribed(c)'
           \/ /\ Subscribed(c) /\ Subscribed(c)' /\ Position(c) < last_sequence
              /\ Position(c)' = Position(c) + 1
<1> DEFINE k == conn[c]
           l == conn'[c]
           a == app[c]
           b == app'[c]
           ls == last_sequence
<1>1. /\ k \in Conn /\ a \in App /\ Pipe(k) \in Seq(Frames)
      /\ a.heard \in Nat /\ ls \in Nat
      /\ Position(c) = PositionOf(Pipe(k), a.heard)
      /\ Subscribed(c) <=> Live(k) /\ k.subscribed
      /\ Subscribed(c) => /\ Gapless(Pipe(k), a.heard, ls)
                          /\ Rising(Pipe(k), ls)
                          /\ a.heard # 0 \/ Events(Pipe(k)) # {}
  BY SubscribedFacts, PositionIs
<1>2. /\ Position(c)' = PositionOf(Pipe(l), b.heard)
      /\ Subscribed(c)' <=> Live(l) /\ l.subscribed
  <2>1. Position(c)' = PositionOf(Pipe(l), b.heard)
    BY DEF Position, PositionOf
  <2>2. ConnInv(l, b, last_sequence')
    BY DEF IpcInv
  <2>3. Subscribed(c)' <=> Live(l) /\ l.subscribed
    BY <2>2 DEF Subscribed, Open, Live, ConnInv, Formed
  <2> QED BY <2>1, <2>3
<1>3. ConnInv(k, a, ls)  BY DEF IpcInv
<1> HIDE DEF ls
<1>4. CASE Still(k, l, a, b) \/ Asked(k, l, a, b)
  <2>1. Pipe(l) = Pipe(k) /\ b.heard = a.heard
    BY <1>4 DEF Still, Asked
  <2>2. Subscribed(c)' <=> Subscribed(c)
    BY <1>1, <1>2, <1>4 DEF Still, Asked, Live
  <2> QED BY <1>1, <1>2, <2>1, <2>2
<1>5. CASE Cut(k, l, a, b) \/ Ended(k, l, a, b)
  <2>1. ~Live(l)  BY <1>5, SMTT(60) DEF Cut, Ended, Live, NoConn
  <2> QED BY <1>1, <1>2, <2>1
<1>6. CASE \E f \in Frames : Replied(k, l, a, b, f)
  <2>1. PICK f \in Frames : Replied(k, l, a, b, f)
    BY <1>6
  <2>2. Subscribed(c)' => Subscribed(c)
    BY <1>1, <1>2, <2>1 DEF Replied
  <2>3. Subscribed(c) => Position(c)' = Position(c)
    BY <1>1, <1>2, <2>1, PositionKept DEF Replied
  <2> QED BY <2>2, <2>3
<1>7. CASE HeardEvent(k, l, a, b)
  <2>1. /\ Subscribed(c)' <=> Subscribed(c)
        /\ Pipe(k) # <<>> /\ Pipe(l) = Tail(Pipe(k)) /\ b.heard = Head(Pipe(k)).seq
        /\ IsEvent(Head(Pipe(k)))
    BY <1>1, <1>2, <1>7 DEF HeardEvent, Read, Live
  <2>2. CASE Subscribed(c)
    BY <1>1, <1>2, <2>1, <2>2, PositionRead DEF ls
  <2>3. CASE ~Subscribed(c)
    BY <2>1, <2>3
  <2> QED BY <2>2, <2>3
<1>8. CASE HadAnswer(k, l, a, b)
  <2>1. /\ Subscribed(c)' <=> Subscribed(c)
        /\ Pipe(k) # <<>> /\ Pipe(l) = Tail(Pipe(k)) /\ b.heard = a.heard
        /\ ~IsEvent(Head(Pipe(k)))
    BY <1>1, <1>2, <1>8 DEF HadAnswer, Read, Live
  <2> QED BY <1>1, <1>2, <2>1, PositionShifted
<1>9. CASE Accepted(k, l, a, b)
  <2>1. ~Subscribed(c) /\ ~Subscribed(c)'
    BY <1>1, <1>2, <1>9 DEF Accepted, Live, NoConn
  <2> QED BY <2>1
<1> QED BY <1>4, <1>5, <1>6, <1>7, <1>8, <1>9 DEF Quiet, Effect

\* A new number: nobody hears anything yet.
LEMMA OfferEffect ==
    ASSUME IpcInv, IpcInv', NEW d \in Consumers, NEW g, Offered(d, g)
    PROVE  /\ Subscribed(d)' => Subscribed(d)
           /\ Subscribed(d)' => Position(d)' = Position(d)
<1>1. /\ conn[d] \in Conn /\ app[d] \in App /\ Pipe(conn[d]) \in Seq(Frames)
      /\ app[d].heard \in Nat
      /\ Position(d) = PositionOf(Pipe(conn[d]), app[d].heard)
      /\ Subscribed(d) => app[d].heard # 0 \/ Events(Pipe(conn[d])) # {}
  BY SubscribedFacts, PositionIs
<1>2. Position(d)' = PositionOf(Pipe(conn'[d]), app'[d].heard)
  BY DEF Position, PositionOf
<1>3. CASE Subscribed(d) /\ Announced(conn[d], conn'[d], app[d], app'[d], g)
  BY <1>1, <1>2, <1>3, PositionKept DEF Announced
<1>4. CASE Cut(conn[d], conn'[d], app[d], app'[d])
  BY <1>4 DEF Cut, Subscribed, Open
<1>5. CASE ~Subscribed(d) /\ conn'[d] = conn[d] /\ app'[d] = app[d]
  BY <1>5 DEF Subscribed, Open
<1> QED BY <1>3, <1>4, <1>5 DEF Offered

Subscribers == {c \in Consumers : Subscribed(c)}
Positions == [c \in Consumers |-> IF Subscribed(c) THEN Position(c) ELSE 0]

\* Numbers are allocated one at a time, for at most one new subscriber.
LEMMA Allocated ==
    ASSUME NEW joining \in SUBSET Consumers, \A c, d \in joining : c = d,
           joining \cap Subscribers = {}, last_sequence < MaxSeq,
           last_sequence' = last_sequence + 1,
           \A d \in Consumers \ joining : /\ Subscribed(d)' => Subscribed(d)
                                          /\ Subscribed(d)' => Position(d)' = Position(d),
           \A d \in joining : Subscribed(d)' => Position(d)' = last_sequence
    PROVE  Promise!Next
<1> DEFINE dropped == (Subscribers \cup joining) \ Subscribers'
<1>1. dropped \in SUBSET Consumers  BY DEF Subscribers
<1>2. Subscribers' = (Subscribers \cup joining) \ dropped
  BY DEF Subscribers
<1>3. Positions' = [d \in Consumers |-> IF d \notin Subscribers' THEN 0
                                        ELSE IF d \in joining THEN last_sequence
                                        ELSE Positions[d]]
  BY DEF Subscribers, Positions
<1> HIDE DEF dropped
<1>4. Promise!Allocate(joining, dropped)
  <2>1. last_sequence < MaxSeq /\ last_sequence' = last_sequence + 1
    OBVIOUS
  <2>2. joining \cap {c \in Consumers : Subscribed(c)} = {} /\ \A c, d \in joining : c = d
    BY DEF Subscribers
  <2>3. {c \in Consumers : Subscribed(c)}'
            = ({c \in Consumers : Subscribed(c)} \cup joining) \ dropped
    BY <1>2 DEF Subscribers
  <2>4. [c \in Consumers |-> IF Subscribed(c) THEN Position(c) ELSE 0]'
            = [d \in Consumers |-> IF d \notin {c \in Consumers : Subscribed(c)}' THEN 0
                                   ELSE IF d \in joining THEN last_sequence
                                   ELSE [c \in Consumers |-> IF Subscribed(c) THEN Position(c)
                                                             ELSE 0][d]]
    BY <1>3 DEF Subscribers, Positions
  <2> QED BY <2>1, <2>2, <2>3, <2>4 DEF Promise!Allocate
<1> QED BY <1>1, <1>4 DEF Promise!Next

\* Every step of the reactor or of a consumer is a step of the promised stream.
LEMMA StreamStep ==
    ASSUME IpcInv, IpcInv', [Next]_vars
    PROVE  Promise!Next \/ UNCHANGED Promise!evars
<1>1. CASE UNCHANGED <<conn, app, next_seq>>
  <2>1. last_sequence' = last_sequence  BY <1>1 DEF last_sequence
  <2>2. \A d \in Consumers : Subscribed(d)' = Subscribed(d)
    BY <1>1 DEF Subscribed, Open
  <2>3. \A d \in Consumers : Position(d)' = Position(d)
    BY <1>1 DEF Position
  <2> QED BY <2>1, <2>2, <2>3 DEF Promise!evars
<1>2. ASSUME NEW c \in Consumers, Quiet(c) PROVE Promise!Next \/ UNCHANGED Promise!evars
  <2>1. last_sequence' = last_sequence  BY <1>2 DEF Quiet, last_sequence
  <2>2. \A d \in Consumers \ {c} : (Subscribed(d)' <=> Subscribed(d)) /\ Position(d)' = Position(d)
    BY <1>2 DEF Quiet, Subscribed, Open, Position
  <2>3. CASE (Subscribed(c)' <=> Subscribed(c)) /\ (Subscribed(c) => Position(c)' = Position(c))
    <3>1. Subscribers' = Subscribers /\ Positions' = Positions
      BY <2>2, <2>3 DEF Subscribers, Positions
    <3> QED BY <2>1, <3>1 DEF Promise!evars, Subscribers, Positions
  <2>4. CASE Subscribed(c) /\ ~Subscribed(c)'
    <3>1. c \in Subscribers /\ Subscribers' = Subscribers \ {c}
      BY <2>2, <2>4 DEF Subscribers
    <3>2. Positions' = [Positions EXCEPT ![c] = 0]
      BY <2>2, <2>4 DEF Positions
    <3>3. Promise!Leave(c)
      BY <2>1, <3>1, <3>2 DEF Promise!Leave, Subscribers, Positions
    <3> QED BY <3>3 DEF Promise!Next
  <2>5. CASE /\ Subscribed(c) /\ Subscribed(c)' /\ Position(c) < last_sequence
             /\ Position(c)' = Position(c) + 1
    <3>1. c \in Subscribers /\ Subscribers' = Subscribers
      BY <2>2, <2>5 DEF Subscribers
    <3>2. Positions[c] = Position(c) /\ Positions' = [Positions EXCEPT ![c] = @ + 1]
      BY <2>2, <2>5 DEF Positions
    <3>3. Promise!Hear(c)
      BY <2>1, <2>5, <3>1, <3>2 DEF Promise!Hear, Subscribers, Positions
    <3> QED BY <3>3 DEF Promise!Next
  <2> QED BY <1>2, <2>3, <2>4, <2>5, StreamEffect
<1>3. CASE Changed
  <2>1. last_sequence' = last_sequence + 1 /\ last_sequence < MaxSeq
    BY <1>3, NumbersGoOn, Bounds, SMTT(60) DEF Changed, IpcInv, Typed
  <2>2. \A d \in Consumers : /\ Subscribed(d)' => Subscribed(d)
                             /\ Subscribed(d)' => Position(d)' = Position(d)
    BY <1>3, OfferEffect DEF Changed
  <2>3. \A d \in Consumers \ {} : /\ Subscribed(d)' => Subscribed(d)
                                  /\ Subscribed(d)' => Position(d)' = Position(d)
    BY <2>2
  <2>4. /\ {} \in SUBSET Consumers /\ {} \cap Subscribers = {} /\ \A x, y \in {} : x = y
        /\ \A d \in {} : Subscribed(d)' => Position(d)' = last_sequence
    OBVIOUS
  <2> QED BY <2>1, <2>3, <2>4, Allocated
<1>4. ASSUME NEW c \in Consumers, Subscription(c) PROVE Promise!Next
  <2> DEFINE g == Frame("subscribed", next_seq, 0)
             f == Answer("response")
             k == conn[c]
             l == conn'[c]
  <2>1. last_sequence' = last_sequence + 1 /\ last_sequence < MaxSeq /\ last_sequence \in Nat
        /\ next_seq = last_sequence + 1
    BY <1>4, NumbersGoOn, Bounds, SMTT(60) DEF Subscription, IpcInv, Typed
  <2>2. \A d \in Consumers \ {c} : /\ Subscribed(d)' => Subscribed(d)
                                   /\ Subscribed(d)' => Position(d)' = Position(d)
    BY <1>4, OfferEffect DEF Subscription
  <2>3. \/ Joined(k, l, app[c], app'[c], f, g)
        \/ Replied(k, l, app[c], app'[c], f) /\ l.closed
    BY <1>4 DEF Subscription
  <2>4. ~k.subscribed  BY <1>4 DEF Subscription
  <2>5. ~Subscribed(c)  BY <2>4 DEF Subscribed
  <2>6. g.seq = last_sequence + 1  BY <2>1, EventFrame DEF IpcInv
  <2> HIDE DEF f, g, k, l
  <2>7. Subscribed(c)' => Position(c)' = last_sequence
    <3>1. CASE Replied(k, l, app[c], app'[c], f) /\ l.closed
      BY <3>1 DEF Subscribed, Open, l
    <3>2. CASE Joined(k, l, app[c], app'[c], f, g)
      <4> DEFINE p == Pipe(k)
                 q == Append(p, f)
                 r == Append(q, g)
      <4>1. p \in Seq(Frames) /\ f \in Frames /\ g \in Frames /\ ~IsEvent(f) /\ IsEvent(g)
            /\ Pipe(l) = r /\ app'[c] = app[c]
        BY <3>2, SubscribedFacts DEF Joined, k
      <4>2. q \in Seq(Frames) /\ Len(q) + 1 \in Nat /\ r[Len(q) + 1] = g
        BY <4>1, AppendFacts, SMTT(60)
      <4>3. Events(p) = {} /\ app[c].heard = 0
        BY <3>2 DEF Joined, IpcInv, ConnInv, Numbered, Live, k
      <4>4. Events(q) = {}  BY <4>1, <4>3, EventsFacts, SMTT(60)
      <4>5. Events(r) = {Len(q) + 1}  BY <4>1, <4>2, <4>4, EventsFacts
      <4>6. Min(Events(r)) = Len(q) + 1  BY <4>2, <4>5, MinIs, SMTT(60)
      <4>7. PositionOf(r, 0) = last_sequence
        BY <2>1, <2>6, <4>2, <4>6, SMTT(60) DEF PositionOf
      <4>8. Position(c)' = PositionOf(Pipe(l), app'[c].heard)
        BY DEF Position, PositionOf, l
      <4> QED BY <4>1, <4>3, <4>7, <4>8
    <3> QED BY <2>3, <3>1, <3>2
  <2>8. {c} \cap Subscribers = {} /\ \A x, y \in {c} : x = y  BY <2>5 DEF Subscribers
  <2>9. \A d \in {c} : Subscribed(d)' => Position(d)' = last_sequence  BY <2>7
  <2> QED BY <2>1, <2>2, <2>8, <2>9, Allocated
<1> QED BY <1>1, <1>2, <1>3, <1>4, Steps

\* The server implements the abstract event stream: whatever is queued, flushed, cut
\* or exhausted, each subscriber hears one numbered stream from its subscription on.
THEOREM StreamKept == Spec => StreamPromised
<1>1. Init => Promise!Init
  <2> SUFFICES ASSUME Init PROVE Promise!Init
    OBVIOUS
  <2>1. last_sequence = 0  BY SMTT(60) DEF Init, last_sequence
  <2>2. \A c \in Consumers : ~Subscribed(c)
    BY DEF Init, NoConn, Subscribed
  <2> QED BY <2>1, <2>2 DEF Promise!Init
<1>2. IpcInv /\ IpcInv' /\ [Next]_vars => Promise!Next \/ UNCHANGED Promise!evars
  BY StreamStep
<1>3. IpcInv /\ IpcInv' /\ [Next]_vars => [Promise!Next]_(Promise!evars)
  BY <1>2
<1> QED BY <1>1, <1>3, IpcInvariance, PTL DEF Spec, StreamPromised, Promise!Spec

-----------------------------------------------------------------------------
(* Convergence. *)
\* A quiet step that does not lower the network's state.
LEMMA EffectFollows ==
    ASSUME IpcInv, NEW c \in Consumers, Quiet(c), previous <= truth, truth <= truth',
           truth' \in Nat, Behind(conn[c], app[c], truth)
    PROVE  /\ Behind(conn'[c], app'[c], truth')
           /\ Followed(conn[c], app[c], last_sequence, previous) =>
                 Followed(conn'[c], app'[c], last_sequence, previous)
<1> DEFINE k == conn[c]
           l == conn'[c]
           a == app[c]
           b == app'[c]
           ls == last_sequence
<1>1. /\ k \in Conn /\ l \in Conn /\ a \in App /\ b \in App /\ ls \in Nat
      /\ truth \in Nat /\ previous \in Nat
  BY NumbersGoOn, Bounds, SMTT(60) DEF IpcInv, Typed, Quiet, Typable, Truth
<1>2. Formed(k, a) /\ Numbered(k, a, ls)
  BY DEF IpcInv, ConnInv
<1>3. Pipe(k) \in Seq(Frames) /\ a.view \in Nat /\ b.view \in Nat
  BY <1>1, ConnFacts
<1>4. a.view <= truth /\ \A i \in DOMAIN Pipe(k) : Pipe(k)[i].val <= truth
  BY DEF Behind
<1>5. /\ \A i \in DOMAIN Pipe(k) : Pipe(k)[i].val <= truth'
      /\ \A f \in Frames : f.val <= truth => \A i \in DOMAIN Append(Pipe(k), f) :
                                                 Append(Pipe(k), f)[i].val <= truth'
      /\ Pipe(k) # <<>> => /\ Head(Pipe(k)).val <= truth
                           /\ \A i \in DOMAIN Tail(Pipe(k)) : Tail(Pipe(k))[i].val <= truth'
  BY <1>1, <1>3, <1>4, BehindFacts
<1>6. a.view <= truth'  BY <1>1, <1>3, <1>4, SMTT(60)
<1>7. CASE Still(k, l, a, b) \/ Asked(k, l, a, b)
  <2>1. /\ Pipe(l) = Pipe(k) /\ b.view = a.view /\ b.heard = a.heard /\ b.last = a.last
        /\ b.baseline = a.baseline /\ b.want = a.want /\ l.subscribed = k.subscribed
        /\ Live(l) => Live(k)
    BY <1>7 DEF Still, Asked, Live
  <2>2. Behind(l, b, truth')  BY <1>5, <1>6, <2>1 DEF Behind
  <2>3. \A i, x, v : Due(k, a, ls, previous, i, x, v) => Due(l, b, ls, previous, i, x, v)
    BY <2>1 DEF Due
  <2>4. Followed(k, a, ls, previous) => Followed(l, b, ls, previous)
    BY <2>1, <2>3 DEF Followed
  <2> QED BY <2>2, <2>4
<1>8. CASE Cut(k, l, a, b)
  BY <1>5, <1>6, <1>8 DEF Cut, Behind, Followed, Live
<1>9. CASE Ended(k, l, a, b)
  BY <1>1, <1>9, FreshPipe, SMTT(60) DEF Ended, Behind, Followed, Live
<1>10. CASE Accepted(k, l, a, b)
  <2>1. Pipe(l) = <<>> /\ b = Fresh
    BY <1>2, <1>10, FreshPipe DEF Accepted, Formed
  <2> QED BY <1>1, <2>1, FreshPipe, SMTT(60) DEF Behind, Followed
<1>11. CASE \E f \in Frames : /\ Replied(k, l, a, b, f) /\ f.seq <= ls
                              /\ f.kind = "snapshot" => f.seq = ls /\ f.val = truth
                              /\ f.val <= truth
  <2>1. PICK f \in Frames : /\ Replied(k, l, a, b, f)
                            /\ f.kind = "snapshot" => f.val = truth
                            /\ f.val <= truth
    BY <1>11
  <2>2. Behind(l, b, truth')
    BY <1>5, <1>6, <2>1 DEF Behind, Replied
  <2>3. f.kind = "snapshot" => previous <= f.val  BY <2>1
  <2>4. Followed(k, a, ls, previous) => Followed(l, b, ls, previous)
    BY <1>1, <2>1, <2>3, RepliedFollows
  <2> QED BY <2>2, <2>4
<1>12. CASE HeardEvent(k, l, a, b)
  <2>1. Behind(l, b, truth')
    BY <1>5, <1>6, <1>12 DEF Behind, HeardEvent, Read
  <2>2. Followed(k, a, ls, previous) => Followed(l, b, ls, previous)
    BY <1>1, <1>2, <1>12, HeardFollows
  <2> QED BY <2>1, <2>2
<1>13. CASE HadAnswer(k, l, a, b)
  <2>1. /\ Pipe(k) # <<>> /\ Pipe(l) = Tail(Pipe(k))
        /\ b.view = a.view \/ b.view = Head(Pipe(k)).val
    BY <1>13 DEF HadAnswer, Read
  <2>2. b.view <= truth  BY <1>4, <1>5, <2>1
  <2>3. b.view <= truth'  BY <1>1, <1>3, <2>2, SMTT(60)
  <2>4. Behind(l, b, truth')
    BY <1>5, <2>1, <2>3 DEF Behind
  <2>5. Followed(k, a, ls, previous) => Followed(l, b, ls, previous)
    BY <1>1, <1>13, AnswerFollows
  <2> QED BY <2>4, <2>5
<1> QED BY <1>7, <1>8, <1>9, <1>10, <1>11, <1>12, <1>13 DEF Quiet, Effect

\* A numbered event reaches d, or d loses its session.
LEMMA OfferFollows ==
    ASSUME IpcInv, Typable, NEW d \in Consumers, NEW g \in Frames, g.seq = last_sequence + 1,
           g.kind \in {"changed", "subscribed"}, g.val = 0, Offered(d, g),
           Behind(conn[d], app[d], truth), NEW pr, pr = previous \/ g.kind = "changed"
    PROVE  /\ Behind(conn'[d], app'[d], truth)
           /\ Followed(conn[d], app[d], last_sequence, previous) =>
                 Followed(conn'[d], app'[d], last_sequence + 1, pr)
<1> DEFINE k == conn[d]
           l == conn'[d]
           a == app[d]
           b == app'[d]
           ls == last_sequence
<1>1. k \in Conn /\ l \in Conn /\ a \in App /\ b \in App /\ ls \in Nat /\ truth \in Nat
  BY NumbersGoOn, Bounds, SMTT(60) DEF IpcInv, Typed, Typable, Truth
<1>2. Formed(k, a) /\ Past(k, a, ls)
  BY DEF IpcInv, ConnInv
<1>3. Pipe(k) \in Seq(Frames)
  BY <1>1, ConnFacts
<1>4. \A i \in DOMAIN Append(Pipe(k), g) : Append(Pipe(k), g)[i].val <= truth
  <2>1. truth <= truth /\ g.val <= truth  BY <1>1, SMTT(60)
  <2>2. \A i \in DOMAIN Pipe(k) : Pipe(k)[i].val <= truth  BY DEF Behind
  <2> QED BY <1>1, <1>3, <2>1, <2>2, BehindFacts
<1>5. CASE Announced(k, l, a, b, g)
  <2>1. Behind(l, b, truth)
    BY <1>4, <1>5 DEF Behind, Announced
  <2>2. CASE g.kind = "changed"
    <3>1. Followed(l, b, ls + 1, pr)
      BY <1>1, <1>2, <1>5, <2>2, ChangeFollows
    <3> QED BY <2>1, <3>1
  <2>3. CASE g.kind = "subscribed"
    <3>1. Followed(k, a, ls, previous) => Followed(l, b, ls + 1, previous)
      BY <1>1, <1>5, <2>3, AnnouncedFollows
    <3> QED BY <2>1, <2>3, <3>1
  <2> QED BY <2>2, <2>3
<1>6. CASE Cut(k, l, a, b)
  BY <1>6 DEF Cut, Behind, Followed, Live
<1>7. CASE ~Subscribed(d) /\ l = k /\ b = a
  <2>1. Live(k) => ~k.subscribed
    BY <1>2, <1>7 DEF Subscribed, Open, Live, Formed
  <2> QED BY <1>1, <1>2, <1>7, <2>1, OthersFollow DEF Behind
<1> QED BY <1>5, <1>6, <1>7 DEF Offered

\* The network's state only rises, and only the observer moves previous.
LEMMA TruthMoves ==
    ASSUME ~Flapping, IpcInv, [Next]_vars, previous <= truth
    PROVE  /\ truth <= truth' /\ truth \in Nat /\ truth' \in Nat /\ previous' <= truth'
           /\ \/ previous' = previous
              \/ next_seq = 0 /\ UNCHANGED <<conn, app, next_seq, truth>>
              \/ Changed /\ UNCHANGED truth
<1>1. truth \in Nat /\ previous \in Nat  BY Bounds, SMTT(60) DEF IpcInv, Typed, Truth
<1>2. Changes => truth' = truth + 1  BY DEF Changes, NextTruths
<1>3. CASE observe_state
  BY <1>1, <1>3, ChangeAnnounced, SMTT(60) DEF observe_state
<1>4. CASE TruthChanges
  BY <1>1, <1>2, <1>4, SMTT(60) DEF TruthChanges
<1>5. CASE UNCHANGED vars
  BY <1>1, <1>5, SMTT(60) DEF vars
<1>6. ASSUME NEW c \in Consumers, HandleV0(c) \/ HandleBusiness(c)
      PROVE  previous' = previous /\ (truth' = truth \/ truth' = truth + 1)
  BY <1>2, <1>6 DEF HandleV0, HandleBusiness, Command
<1>7. ASSUME NEW c \in Consumers,
             \/ HandleGarbage(c) \/ HandleHello(c) \/ HandleRefused(c) \/ HandlePing(c)
             \/ HandleSnapshot(c) \/ HandleSubscribe(c)
             \/ Flush(c) \/ apply_deadlines(c) \/ cleanup_clients(c)
             \/ Accept(c) \/ ReceivePrefix(c) \/ Send(c) \/ SendStray(c) \/ Hangup(c)
             \/ ReadEvent(c) \/ ReadAnswer(c)
      PROVE  UNCHANGED <<truth, previous>>
  BY <1>7 DEF HandleGarbage, HandleHello, HandleRefused, HandlePing, HandleSnapshot,
              HandleSubscribe, Flush, apply_deadlines, cleanup_clients, Accept, ReceivePrefix,
              Send, SendStray, Hangup, ReadEvent, ReadAnswer, net
<1>8. CASE previous' = previous /\ (truth' = truth \/ truth' = truth + 1)
  BY <1>1, <1>8, SMTT(60)
<1> QED BY <1>3, <1>4, <1>5, <1>6, <1>7, <1>8 DEF Next, Service

LEMMA LaterIsBehind ==
    ASSUME NEW k \in Conn, NEW a \in App, NEW tr \in Nat, NEW tr2 \in Nat, tr <= tr2,
           Behind(k, a, tr)
    PROVE  Behind(k, a, tr2)
<1>1. Pipe(k) \in Seq(Frames) /\ a.view \in Nat  BY ConnFacts
<1>2. a.view <= tr2 /\ \A i \in DOMAIN Pipe(k) : Pipe(k)[i].val <= tr
  BY <1>1, SMTT(60) DEF Behind
<1>3. \A i \in DOMAIN Pipe(k) : Pipe(k)[i].val <= tr2
  BY <1>1, <1>2, BehindFacts
<1> QED BY <1>2, <1>3 DEF Behind

LEMMA ViewStep ==
    ASSUME ~Flapping, IpcInv, ViewInv, [Next]_vars
    PROVE  ViewInv'
<1>1. /\ truth <= truth' /\ truth \in Nat /\ truth' \in Nat /\ previous' <= truth'
      /\ \/ previous' = previous
         \/ next_seq = 0 /\ UNCHANGED <<conn, app, next_seq, truth>>
         \/ Changed /\ UNCHANGED truth
  BY TruthMoves DEF ViewInv
<1>2. /\ previous <= truth /\ \A d \in Consumers : Behind(conn[d], app[d], truth)
      /\ next_seq # 0 => \A d \in Consumers :
                            Followed(conn[d], app[d], last_sequence, previous)
  BY DEF ViewInv
<1>3. \A d \in Consumers : Behind(conn[d], app[d], truth')
  BY <1>1, <1>2, LaterIsBehind DEF IpcInv, Typed
<1>4. next_seq \in 0 .. MaxSeq  BY DEF IpcInv, Typed
<1>5. CASE UNCHANGED <<conn, app, next_seq>> /\ previous' = previous
  <2>1. last_sequence' = last_sequence  BY <1>5 DEF last_sequence
  <2> QED BY <1>1, <1>2, <1>3, <1>5, <2>1 DEF ViewInv
<1>6. CASE next_seq = 0 /\ UNCHANGED <<conn, app, next_seq, truth>>
  BY <1>1, <1>2, <1>6 DEF ViewInv
<1>7. ASSUME NEW c \in Consumers, Quiet(c), previous' = previous PROVE ViewInv'
  <2>1. next_seq' = next_seq /\ last_sequence' = last_sequence
    BY <1>7 DEF Quiet, last_sequence
  <2>2. /\ Behind(conn'[c], app'[c], truth')
        /\ next_seq # 0 => Followed(conn'[c], app'[c], last_sequence, previous)
    BY <1>1, <1>2, <1>7, EffectFollows
  <2>3. \A d \in Consumers \ {c} : conn'[d] = conn[d] /\ app'[d] = app[d]
    BY <1>7 DEF Quiet
  <2>4. \A d \in Consumers : /\ Behind(conn'[d], app'[d], truth')
                             /\ next_seq # 0 => Followed(conn'[d], app'[d], last_sequence, previous)
    BY <1>2, <1>3, <2>2, <2>3
  <2> QED BY <1>1, <1>7, <2>1, <2>4 DEF ViewInv
<1>8. CASE Changed
  <2> DEFINE g == Frame("changed", next_seq, 0)
  <2>1. last_sequence' = last_sequence + 1 /\ next_seq = last_sequence + 1 /\ next_seq # 0
        /\ Typable
    BY <1>4, <1>8, NumbersGoOn DEF Changed
  <2>2. g \in Frames /\ g.seq = last_sequence + 1 /\ g.kind = "changed" /\ g.val = 0
    BY <2>1, EventFrame DEF IpcInv
  <2>3. \A d \in Consumers : Offered(d, g)  BY <1>8 DEF Changed
  <2> HIDE DEF g
  <2>4. ASSUME NEW d \in Consumers
        PROVE  /\ Behind(conn'[d], app'[d], truth)
               /\ Followed(conn'[d], app'[d], last_sequence + 1, previous')
    BY <1>2, <2>1, <2>2, <2>3, OfferFollows
  <2>5. \A d \in Consumers : Behind(conn'[d], app'[d], truth')
    BY <1>1, <2>1, <2>4, LaterIsBehind DEF Typable
  <2> QED BY <1>1, <2>1, <2>4, <2>5 DEF ViewInv
<1>9. ASSUME NEW c \in Consumers, Subscription(c), previous' = previous PROVE ViewInv'
  <2> DEFINE g == Frame("subscribed", next_seq, 0)
             f == Answer("response")
             k == conn[c]
             l == conn'[c]
  <2>1. last_sequence' = last_sequence + 1 /\ next_seq = last_sequence + 1 /\ next_seq # 0
        /\ Typable
    BY <1>4, <1>9, NumbersGoOn DEF Subscription
  <2>2. g \in Frames /\ g.seq = last_sequence + 1 /\ g.kind = "subscribed" /\ g.val = 0
    BY <2>1, EventFrame DEF IpcInv
  <2>3. f \in Frames /\ f.kind = "response" /\ f.val = 0
    BY FrameTypes DEF Kinds
  <2>4. \A d \in Consumers \ {c} : Offered(d, g)  BY <1>9 DEF Subscription
  <2>5. \/ Joined(k, l, app[c], app'[c], f, g)
        \/ Replied(k, l, app[c], app'[c], f) /\ l.closed
    BY <1>9 DEF Subscription
  <2> HIDE DEF f, g
  <2>6. ASSUME NEW d \in Consumers \ {c}
        PROVE  /\ Behind(conn'[d], app'[d], truth)
               /\ Followed(conn'[d], app'[d], last_sequence + 1, previous)
    BY <1>2, <2>1, <2>2, <2>4, OfferFollows
  <2>7. /\ k \in Conn /\ l \in Conn /\ app[c] \in App /\ app'[c] \in App /\ last_sequence \in Nat
        /\ Numbered(k, app[c], last_sequence) /\ Pipe(k) \in Seq(Frames)
    BY <1>4, <2>1, NumbersGoOn, Bounds, ConnFacts, SMTT(60) DEF IpcInv, Typed, Typable, ConnInv
  <2>8. Behind(l, app'[c], truth)
    <3>1. truth <= truth /\ f.val <= truth /\ g.val <= truth  BY <1>1, <2>2, <2>3, SMTT(60)
    <3>2. \A i \in DOMAIN Pipe(k) : Pipe(k)[i].val <= truth /\ app[c].view <= truth
      BY <1>2 DEF Behind
    <3>3. /\ Append(Pipe(k), f) \in Seq(Frames)
          /\ \A i \in DOMAIN Append(Pipe(k), f) : Append(Pipe(k), f)[i].val <= truth
      BY <1>1, <2>3, <2>7, <3>1, <3>2, BehindFacts, AppendFacts
    <3> DEFINE q == Append(Pipe(k), f)
    <3> HIDE DEF q
    <3>4. \A i \in DOMAIN Append(q, g) : Append(q, g)[i].val <= truth
      <4>1. q \in Seq(Frames) /\ \A i \in DOMAIN q : q[i].val <= truth  BY <3>3 DEF q
      <4> QED BY <1>1, <2>2, <3>1, <4>1, BehindFacts
    <3>5. app'[c].view <= truth  BY <1>2, <2>5 DEF Joined, Replied, Behind
    <3> QED BY <2>5, <3>3, <3>4, <3>5 DEF Behind, Joined, Replied, q
  <2>9. Followed(l, app'[c], last_sequence + 1, previous)
    <3>1. CASE Joined(k, l, app[c], app'[c], f, g)
      BY <1>2, <2>1, <2>2, <2>3, <2>7, <3>1, JoinedFollows
    <3>2. CASE l.closed
      BY <3>2 DEF Followed, Live
    <3> QED BY <2>5, <3>1, <3>2
  <2>10. \A d \in Consumers : /\ Behind(conn'[d], app'[d], truth)
                              /\ Followed(conn'[d], app'[d], last_sequence + 1, previous)
    BY <2>6, <2>8, <2>9
  <2>11. \A d \in Consumers : Behind(conn'[d], app'[d], truth')
    BY <1>1, <2>1, <2>10, LaterIsBehind DEF Typable
  <2> QED BY <1>1, <1>9, <2>1, <2>10, <2>11 DEF ViewInv
<1> QED BY <1>1, <1>5, <1>6, <1>7, <1>8, <1>9, Steps

LEMMA ViewInvariance == ASSUME ~Flapping PROVE Spec => []ViewInv
<1>1. Init => ViewInv
  <2> SUFFICES ASSUME Init PROVE ViewInv
    OBVIOUS
  <2>1. previous = 0 /\ truth = 0 /\ \A c \in Consumers : conn[c] = NoConn /\ app[c] = Fresh
    BY DEF Init
  <2>2. Behind(NoConn, Fresh, 0)  BY FreshPipe, SMTT(60) DEF Behind
  <2>3. \A ls, pr : Followed(NoConn, Fresh, ls, pr)  BY FreshPipe DEF Followed, Live
  <2> QED BY <2>1, <2>2, <2>3, SMTT(60) DEF ViewInv
<1>2. IpcInv /\ ViewInv /\ [Next]_vars => ViewInv'
  BY ViewStep
<1> QED BY <1>1, <1>2, IpcInvariance, PTL DEF Spec

\* While numbers remain, a consumer that follows the contract and has nothing more to
\* read holds the observed state: snapshots, events and the rebase rule leave no change
\* unnoticed, provided no state returns between two observations.
THEOREM ViewsConverge == ASSUME ~Flapping PROVE Spec => [](next_seq # 0 => Converged)
<1>1. IpcInv /\ ViewInv => (next_seq # 0 => Converged)
  <2> SUFFICES ASSUME IpcInv, ViewInv, next_seq # 0, NEW c \in Consumers,
                      Subscribed(c), conn[c].out = <<>>, conn[c].sock = <<>>,
                      app[c].baseline, ~app[c].want, previous = truth
               PROVE  app[c].view = truth
    BY DEF Converged
  <2>1. Pipe(conn[c]) = <<>>
    BY EmptyPipe, SMTT(60) DEF Pipe
  <2>2. Events(Pipe(conn[c])) = {}  BY <2>1, EmptyPipe
  <2>3. Live(conn[c]) /\ conn[c].subscribed  BY SubscribedFacts
  <2>4. Followed(conn[c], app[c], last_sequence, previous) /\ app[c].view <= truth
    BY DEF ViewInv, Behind
  <2>5. ~(app[c].view < previous)
    BY <2>2, <2>3, <2>4 DEF Followed, Due
  <2>6. app[c].view \in Nat /\ truth \in Nat
    BY ConnFacts, Bounds, SMTT(60) DEF IpcInv, Typed, Truth
  <2> QED BY <2>4, <2>5, <2>6, SMTT(60)
<1> QED BY <1>1, IpcInvariance, ViewInvariance, PTL

=============================================================================
