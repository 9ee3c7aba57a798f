------------------------ MODULE NetworkIpcInputProofs ------------------------
(***************************************************************************)
(* FrameDecoder, proved: what it makes of a byte stream does not depend on *)
(* where recv cuts it, and is the frames that were sent.  Hence            *)
(* InboxDecodes holds of every client of the server.                       *)
(***************************************************************************)
EXTENDS NetworkIpcInput, SequenceTheorems, WellFoundedInduction, TLAPS

\* A leaf that names no prover is one for Zenon.
USE ZenonT(60)

DecodedFrame == [type : Nat, payload : Seq(Nat)]

Decoder == [frames : Seq(DecodedFrame), error : {"None", "InvalidHeader", "PayloadTooLarge"},
            buffer : Seq(Nat)]

\* A set of numbers that is not empty has a least one.
LEMMA Least ==
    ASSUME NEW S, S \subseteq Nat, S # {}
    PROVE  \E n \in S : \A k \in S : n <= k
<1>1. PICK n \in S : \A k \in S : ~(<<k, n>> \in OpToRel(<, Nat))
  BY NatLessThanWellFounded, WFMin
<1>2. ASSUME NEW k \in S PROVE n <= k
  <2>1. n \in Nat /\ k \in Nat
    OBVIOUS
  <2>2. k < n => <<k, n>> \in OpToRel(<, Nat)
    BY <2>1 DEF OpToRel
  <2>3. ~(k < n)
    BY <1>1, <2>2
  <2> QED BY <2>1, <2>3, SMTT(60)
<1> QED BY <1>2

\* A stretch of a sequence of bytes.
LEMMA Stretch ==
    ASSUME NEW b \in Seq(Nat), NEW m \in Nat, NEW n \in Nat, 1 <= m, m <= n + 1, n <= Len(b)
    PROVE  /\ SubSeq(b, m, n) \in Seq(Nat) /\ Len(SubSeq(b, m, n)) = n - m + 1
           /\ \A i \in 1..(n - m + 1) : SubSeq(b, m, n)[i] = b[m + i - 1]
<1>1. Len(b) \in Nat /\ \A i \in 1..Len(b) : b[i] \in Nat
  BY ElementOfSeq, LenProperties
<1>2. \A i \in m..n : b[i] \in Nat
  BY <1>1, SMTT(60)
<1>3. /\ SubSeq(b, m, n) \in Seq(Nat) /\ Len(SubSeq(b, m, n)) = IF m <= n THEN n - m + 1 ELSE 0
      /\ \A i \in 1..(n - m + 1) : SubSeq(b, m, n)[i] = b[m + i - 1]
  BY <1>2, SubSeqProperties, SMTT(60)
<1> QED BY <1>3, SMTT(60)

LEMMA Prefix ==
    ASSUME NEW b \in Seq(Nat), NEW n \in Nat, n <= Len(b)
    PROVE  /\ SubSeq(b, 1, n) \in Seq(Nat) /\ Len(SubSeq(b, 1, n)) = n
           /\ \A i \in 1..n : SubSeq(b, 1, n)[i] = b[i]
<1>1. /\ SubSeq(b, 1, n) \in Seq(Nat) /\ Len(SubSeq(b, 1, n)) = n - 1 + 1
      /\ \A i \in 1..(n - 1 + 1) : SubSeq(b, 1, n)[i] = b[1 + i - 1]
  <2>1. 1 \in Nat /\ 1 <= 1 /\ 1 <= n + 1
    BY SMTT(60)
  <2> QED BY <2>1, Stretch
<1> QED BY <1>1, SMTT(60)

\* Two sequences of bytes one after the other.
LEMMA Concat ==
    ASSUME NEW s \in Seq(Nat), NEW t \in Seq(Nat)
    PROVE  /\ s \o t \in Seq(Nat) /\ Len(s \o t) = Len(s) + Len(t)
           /\ Len(s) \in Nat /\ Len(t) \in Nat
           /\ \A i \in 1..Len(s) : (s \o t)[i] = s[i]
           /\ \A i \in 1..Len(t) : (s \o t)[Len(s) + i] = t[i]
           /\ <<>> \o s = s /\ s \o <<>> = s
<1>1. Len(s) \in Nat /\ Len(t) \in Nat
  BY LenProperties
<1>2. /\ s \o t \in Seq(Nat) /\ Len(s \o t) = Len(s) + Len(t)
      /\ \A i \in 1..(Len(s) + Len(t)) : (s \o t)[i] = IF i <= Len(s) THEN s[i] ELSE t[i - Len(s)]
  BY ConcatProperties
<1>3. \A i \in 1..Len(s) : (s \o t)[i] = s[i]
  BY <1>1, <1>2, SMTT(60)
<1>4. ASSUME NEW i \in 1..Len(t) PROVE (s \o t)[Len(s) + i] = t[i]
  <2>1. /\ Len(s) + i \in 1..(Len(s) + Len(t)) /\ ~(Len(s) + i <= Len(s))
        /\ (Len(s) + i) - Len(s) = i
    BY <1>1, SMTT(60)
  <2> QED BY <1>2, <2>1
<1>5. <<>> \o s = s /\ s \o <<>> = s
  BY ConcatEmptySeq
<1> QED BY <1>1, <1>2, <1>3, <1>4, <1>5

LEMMA Associative ==
    ASSUME NEW s \in Seq(Nat), NEW t \in Seq(Nat), NEW u \in Seq(Nat)
    PROVE  (s \o t) \o u = s \o (t \o u)
BY ConcatAssociative, SMTT(60)

\* Decoders with the same fields are the same.
LEMMA DecoderEqual ==
    ASSUME NEW d \in Decoder, NEW e \in Decoder,
           d.frames = e.frames, d.error = e.error, d.buffer = e.buffer
    PROVE  d = e
BY SMTT(60) DEF Decoder

\* The fields of a decoder.
LEMMA DecoderFields ==
    ASSUME NEW d \in Decoder
    PROVE  /\ d.frames \in Seq(DecodedFrame) /\ d.buffer \in Seq(Nat) /\ Len(d.buffer) \in Nat
           /\ d.error \in {"None", "InvalidHeader", "PayloadTooLarge"}
           /\ d = [frames |-> d.frames, error |-> d.error, buffer |-> d.buffer]
BY SMTT(60) DEF Decoder

\* A complete frame is at the front of the buffer.
Whole(d) ==
    /\ d.error = "None" /\ Len(d.buffer) >= kHeaderSize
    /\ decode_header(d.buffer) = "None" /\ Len(d.buffer) >= kHeaderSize + d.buffer[2]

\* A bad header is at the front of the buffer.
Bad(d) ==
    d.error = "None" /\ Len(d.buffer) >= kHeaderSize /\ decode_header(d.buffer) # "None"

\* parse_available's loop has nothing left to do.
Settled(d) == parse_one(d) = d

First(buffer) == [type |-> buffer[1], payload |-> SubSeq(buffer, 3, 2 + buffer[2])]
AfterFirst(buffer) == SubSeq(buffer, 3 + buffer[2], Len(buffer))

\* decode_header finds an error or none.
LEMMA HeaderVerdict ==
    ASSUME NEW b \in Seq(Nat), Len(b) >= 2
    PROVE  /\ decode_header(b) \in {"None", "InvalidHeader", "PayloadTooLarge"}
           /\ b[1] \in Nat /\ b[2] \in Nat
           /\ decode_header(b) = "None" <=> (b[1] \in Types /\ b[2] <= MaxPayload)
<1>1. b[1] \in Nat /\ b[2] \in Nat
  BY ElementOfSeq, SMTT(60)
<1> QED BY <1>1, CodecAssumption, SMTT(60) DEF decode_header, is_valid_message_type

\* The first frame and what follows it, cut out of the buffer.
LEMMA FirstRest ==
    ASSUME NEW b \in Seq(Nat), Len(b) >= 2, b[2] \in Nat, Len(b) >= 2 + b[2]
    PROVE  /\ First(b) \in DecodedFrame /\ AfterFirst(b) \in Seq(Nat)
           /\ Len(AfterFirst(b)) = Len(b) - 2 - b[2]
<1>1. \A i \in 1..Len(b) : b[i] \in Nat
  BY ElementOfSeq
<1>2. \A i \in 3..(2 + b[2]) : b[i] \in Nat
  BY <1>1, SMTT(60)
<1>3. SubSeq(b, 3, 2 + b[2]) \in Seq(Nat)
  BY <1>2, SubSeqProperties, SMTT(60)
<1>4. \A i \in (3 + b[2])..Len(b) : b[i] \in Nat
  BY <1>1, SMTT(60)
<1>5. /\ AfterFirst(b) \in Seq(Nat)
      /\ Len(AfterFirst(b)) = IF 3 + b[2] <= Len(b) THEN Len(b) - (3 + b[2]) + 1 ELSE 0
  BY <1>4, SubSeqProperties, SMTT(60) DEF AfterFirst
<1>6. Len(AfterFirst(b)) = Len(b) - 2 - b[2]
  <2> DEFINE l == Len(b)
             k == b[2]
             r == Len(AfterFirst(b))
  <2>1. l \in Nat /\ k \in Nat /\ l >= 2 + k
    BY LenProperties
  <2>2. r = IF 3 + k <= l THEN l - (3 + k) + 1 ELSE 0
    BY <1>5
  <2> HIDE DEF l, k, r
  <2>3. r = l - 2 - k
    BY <2>1, <2>2, SMTT(60)
  <2> QED BY <2>3 DEF l, k, r
<1>7. b[1] \in Nat
  BY <1>1, SMTT(60)
<1>8. First(b) \in DecodedFrame
  BY <1>3, <1>7 DEF First, DecodedFrame
<1> QED BY <1>5, <1>6, <1>8

\* One turn of the loop: it takes the frame at the front, records the error at
\* the front, or does nothing.
LEMMA Turn ==
    ASSUME NEW d \in Decoder
    PROVE  /\ Whole(d) => parse_one(d) = [frames |-> Append(d.frames, First(d.buffer)),
                                          error |-> "None", buffer |-> AfterFirst(d.buffer)]
           /\ Bad(d) => parse_one(d) = [frames |-> d.frames, error |-> decode_header(d.buffer),
                                        buffer |-> d.buffer]
           /\ ~Whole(d) /\ ~Bad(d) => parse_one(d) = d
<1>1. CASE Whole(d)
  <2>1. Len(d.buffer) >= 2 /\ d.buffer[2] \in Nat /\ d.error = "None"
    BY <1>1, DecoderFields, HeaderVerdict DEF Whole, kHeaderSize
  <2>2. parse_one(d) = [d EXCEPT
           !.frames = Append(d.frames, [type |-> d.buffer[1],
                                        payload |-> SubSeq(d.buffer, kHeaderSize + 1, kHeaderSize + d.buffer[2])]),
           !.buffer = SubSeq(d.buffer, kHeaderSize + d.buffer[2] + 1, Len(d.buffer))]
    BY <1>1, <2>1, DecoderFields, SMTT(60) DEF Whole, parse_one, kHeaderSize
  <2>3. kHeaderSize + 1 = 3 /\ kHeaderSize + d.buffer[2] + 1 = 3 + d.buffer[2]
    BY <2>1, SMTT(60) DEF kHeaderSize
  <2> QED BY <1>1, <2>1, <2>2, <2>3, DecoderFields DEF First, AfterFirst, kHeaderSize, Bad, Whole
<1>2. CASE Bad(d)
  BY <1>2, DecoderFields, SMTT(60) DEF Bad, Whole, parse_one, kHeaderSize
<1>3. CASE ~Whole(d) /\ ~Bad(d)
  BY <1>3, DecoderFields, HeaderVerdict, SMTT(60) DEF Bad, Whole, parse_one, kHeaderSize
<1> QED BY <1>1, <1>2, <1>3

\* A turn yields a decoder, and unless it changes nothing or finds an error it
\* shortens the buffer.
LEMMA TurnProgress ==
    ASSUME NEW d \in Decoder
    PROVE  /\ parse_one(d) \in Decoder
           /\ Len(parse_one(d).buffer) <= Len(d.buffer)
           /\ ~Settled(d) => Settled(parse_one(d)) \/ Len(parse_one(d).buffer) < Len(d.buffer)
<1>1. CASE Whole(d)
  <2>1. Len(d.buffer) >= 2 /\ d.buffer[2] \in Nat /\ d.error = "None" /\ Len(d.buffer) >= 2 + d.buffer[2]
    BY <1>1, DecoderFields, HeaderVerdict DEF Whole, kHeaderSize
  <2>2. /\ First(d.buffer) \in DecodedFrame /\ AfterFirst(d.buffer) \in Seq(Nat)
        /\ Len(AfterFirst(d.buffer)) = Len(d.buffer) - 2 - d.buffer[2]
    BY <2>1, DecoderFields, FirstRest
  <2>3. Append(d.frames, First(d.buffer)) \in Seq(DecodedFrame)
    BY <2>2, DecoderFields, AppendProperties
  <2>4. parse_one(d) = [frames |-> Append(d.frames, First(d.buffer)),
                        error |-> "None", buffer |-> AfterFirst(d.buffer)]
    BY <1>1, Turn
  <2>5. parse_one(d) \in Decoder /\ parse_one(d).buffer = AfterFirst(d.buffer)
    BY <2>2, <2>3, <2>4, SMTT(60) DEF Decoder
  <2>6. Len(AfterFirst(d.buffer)) < Len(d.buffer)
    BY <2>1, <2>2, DecoderFields, SMTT(60)
  <2> QED BY <2>2, <2>5, <2>6, DecoderFields, SMTT(60)
<1>2. CASE Bad(d)
  <2>1. decode_header(d.buffer) \in {"InvalidHeader", "PayloadTooLarge"}
    BY <1>2, DecoderFields, HeaderVerdict DEF Bad, kHeaderSize
  <2>2. parse_one(d) = [frames |-> d.frames, error |-> decode_header(d.buffer), buffer |-> d.buffer]
    BY <1>2, Turn
  <2>3. parse_one(d) \in Decoder /\ parse_one(d).buffer = d.buffer /\ parse_one(d).error # "None"
    BY <2>1, <2>2, DecoderFields, SMTT(60) DEF Decoder
  <2>4. Settled(parse_one(d))
    BY <2>3, Turn DEF Settled, Whole, Bad
  <2> QED BY <2>3, <2>4, DecoderFields, SMTT(60)
<1>3. CASE ~Whole(d) /\ ~Bad(d)
  BY <1>3, Turn, DecoderFields, SMTT(60) DEF Settled
<1> QED BY <1>1, <1>2, <1>3

\* The turns of parse_available's loop, counted from 0.
Turns(d) == CHOOSE turn : turn = [n \in Nat |-> IF n = 0 THEN d ELSE parse_one(turn[n - 1])]

\* The first n values of a recursion: g[k] comes from g[k - 1] by the function F.
Unrolled(x, F, D, g, n) ==
    g \in [0..n -> D] /\ g[0] = x /\ \A k \in 1..n : g[k] = F[k][g[k - 1]]

\* However many values are asked for, there are that many.
LEMMA UnrolledExists ==
    ASSUME NEW D, NEW x \in D, NEW F \in [Nat -> [D -> D]]
    PROVE  \A n \in Nat : \E g : Unrolled(x, F, D, g, n)
<1> DEFINE S == {n \in Nat : ~\E g : Unrolled(x, F, D, g, n)}
<1> SUFFICES ASSUME S # {} PROVE FALSE
  OBVIOUS
<1>1. PICK n \in S : \A k \in S : n <= k
  <2>1. S \subseteq Nat
    OBVIOUS
  <2> HIDE DEF S
  <2> QED BY <2>1, Least
<1>2. CASE n = 0
  <2>1. Unrolled(x, F, D, [k \in 0..0 |-> x], 0)
    BY SMTT(60) DEF Unrolled
  <2> QED BY <1>2, <2>1
<1>3. CASE n # 0
  <2>1. n \in Nat /\ n - 1 \in Nat /\ n - 1 \notin S
    <3>1. n \in Nat
      OBVIOUS
    <3> HIDE DEF S
    <3> QED BY <1>1, <1>3, <3>1, SMTT(60)
  <2>2. PICK g : Unrolled(x, F, D, g, n - 1)
    BY <2>1
  <2> DEFINE y == F[n][g[n - 1]]
             h == [k \in 0..n |-> IF k = n THEN y ELSE g[k]]
  <2>3. g[n - 1] \in D
    BY <2>1, <2>2, SMTT(60) DEF Unrolled
  <2>4. y \in D
    BY <2>1, <2>3
  <2>5. \A k \in 0..n : h[k] \in D
    BY <2>1, <2>2, <2>4, SMTT(60) DEF Unrolled
  <2>6. h \in [0..n -> D] /\ h[0] = x
    BY <1>3, <2>1, <2>2, <2>5, SMTT(60) DEF Unrolled
  <2>7. ASSUME NEW k \in 1..n PROVE h[k] = F[k][h[k - 1]]
    <3>1. CASE k = n
      <4>1. h[k] = y /\ h[k - 1] = g[n - 1]
        BY <2>1, <3>1, SMTT(60)
      <4> QED BY <3>1, <4>1
    <3>2. CASE k # n
      <4>1. k \in 1..(n - 1) /\ k - 1 \in 0..(n - 1) /\ k - 1 # n
        BY <2>1, <3>2, SMTT(60)
      <4>2. h[k] = g[k] /\ h[k - 1] = g[k - 1]
        BY <2>1, <3>2, <4>1, SMTT(60)
      <4> QED BY <2>2, <4>1, <4>2 DEF Unrolled
    <3> QED BY <3>1, <3>2
  <2>8. Unrolled(x, F, D, h, n)
    BY <2>6, <2>7 DEF Unrolled
  <2> QED BY <2>8
<1> QED BY <1>2, <1>3

\* Two accounts of the first values agree as far as both go.
LEMMA UnrolledAgree ==
    ASSUME NEW x, NEW F, NEW D, NEW m \in Nat, NEW n \in Nat, m <= n, NEW g, NEW h,
           Unrolled(x, F, D, g, m), Unrolled(x, F, D, h, n)
    PROVE  \A k \in 0..m : g[k] = h[k]
<1> DEFINE S == {k \in 0..m : g[k] # h[k]}
<1> SUFFICES ASSUME S # {} PROVE FALSE
  OBVIOUS
<1>1. PICK k \in S : \A j \in S : k <= j
  <2>1. S \subseteq Nat
    BY SMTT(60)
  <2> HIDE DEF S
  <2> QED BY <2>1, Least
<1>2. k # 0
  BY DEF Unrolled
<1>3. k \in 1..m /\ k \in 1..n /\ k - 1 \in 0..m /\ k - 1 \notin S
  BY <1>1, <1>2, SMTT(60)
<1>4. g[k - 1] = h[k - 1]
  BY <1>3
<1> QED BY <1>3, <1>4 DEF Unrolled

\* A recursion over the numbers that a function F drives has a solution.
LEMMA Recursion ==
    ASSUME NEW D, NEW x \in D, NEW F \in [Nat -> [D -> D]]
    PROVE  \E t \in [Nat -> D] :
             t[0] = x /\ \A n \in Nat : t[n + 1] = F[n + 1][t[n]]
<1> DEFINE G(n) == CHOOSE g : Unrolled(x, F, D, g, n)
           f    == [n \in Nat |-> G(n)[n]]
<1>1. \A n \in Nat : Unrolled(x, F, D, G(n), n)
  BY UnrolledExists
<1>2. f[0] = x
  BY <1>1 DEF Unrolled
<1>3. ASSUME NEW n \in Nat PROVE f[n] \in D
  <2>1. Unrolled(x, F, D, G(n), n) /\ f[n] = G(n)[n]
    BY <1>1
  <2> HIDE DEF G, f
  <2>2. G(n) \in [0..n -> D] /\ n \in 0..n
    BY <2>1, SMTT(60) DEF Unrolled
  <2> QED BY <2>1, <2>2
<1>4. ASSUME NEW n \in Nat PROVE f[n + 1] = F[n + 1][f[n]]
  <2>1. n + 1 \in Nat /\ n + 1 \in 1..(n + 1) /\ n <= n + 1 /\ n \in 0..n /\ (n + 1) - 1 = n
    BY SMTT(60)
  <2>2. Unrolled(x, F, D, G(n), n) /\ Unrolled(x, F, D, G(n + 1), n + 1)
    BY <1>1, <2>1
  <2>3. f[n] = G(n)[n] /\ f[n + 1] = G(n + 1)[n + 1]
    BY <2>1
  <2> HIDE DEF G, f
  <2>4. G(n)[n] = G(n + 1)[n]
    BY <2>1, <2>2, UnrolledAgree, SMTT(60)
  <2>5. G(n + 1)[n + 1] = F[n + 1][G(n + 1)[n]]
    BY <2>1, <2>2 DEF Unrolled
  <2> QED BY <2>3, <2>4, <2>5
<1>5. f \in [Nat -> D]
  BY <1>3
<1> HIDE DEF f
<1> QED BY <1>2, <1>4, <1>5

\* The same for a recursion that stops at N.
LEMMA BoundedRecursion ==
    ASSUME NEW D, NEW x \in D, NEW N \in Nat, NEW F \in [1..N -> [D -> D]]
    PROVE  \E t : Unrolled(x, F, D, t, N)
<1>1. PICK g : Unrolled(x, [n \in Nat |-> IF n \in 1..N THEN F[n] ELSE [y \in D |-> y]], D, g, N)
  <2> DEFINE H == [n \in Nat |-> IF n \in 1..N THEN F[n] ELSE [y \in D |-> y]]
  <2>1. \A n \in Nat : H[n] \in [D -> D]
    OBVIOUS
  <2>2. H \in [Nat -> [D -> D]]
    BY <2>1
  <2> HIDE DEF H
  <2>3. \E g : Unrolled(x, H, D, g, N)
    BY <2>2, UnrolledExists
  <2> QED BY <2>3 DEF H
<1> DEFINE H == [n \in Nat |-> IF n \in 1..N THEN F[n] ELSE [y \in D |-> y]]
<1>2. \A n \in 1..N : H[n] = F[n]
  BY SMTT(60)
<1>3. Unrolled(x, H, D, g, N)
  BY <1>1
<1> HIDE DEF H
<1>4. g \in [0..N -> D] /\ g[0] = x /\ \A n \in 1..N : g[n] = H[n][g[n - 1]]
  BY <1>3 DEF Unrolled
<1>5. \A n \in 1..N : g[n] = F[n][g[n - 1]]
  BY <1>2, <1>4
<1>6. Unrolled(x, F, D, g, N)
  BY <1>4, <1>5 DEF Unrolled
<1> QED BY <1>6

\* The loop's turns are well defined.
LEMMA TurnsDefined ==
    ASSUME NEW d \in Decoder
    PROVE  Turns(d) = [n \in Nat |-> IF n = 0 THEN d ELSE parse_one(Turns(d)[n - 1])]
<1> DEFINE F == [n \in Nat |-> [u \in Decoder |-> parse_one(u)]]
<1>1. F \in [Nat -> [Decoder -> Decoder]]
  BY TurnProgress
<1>2. PICK t \in [Nat -> Decoder] :
             t[0] = d /\ \A n \in Nat : t[n + 1] = F[n + 1][t[n]]
  <2> HIDE DEF F
  <2> QED BY <1>1, Recursion, SMTT(60)
<1>3. ASSUME NEW n \in Nat PROVE t[n] = IF n = 0 THEN d ELSE parse_one(t[n - 1])
  <2>1. CASE n = 0
    BY <1>2, <2>1
  <2>2. CASE n # 0
    <3>1. n - 1 \in Nat /\ (n - 1) + 1 = n
      BY <2>2, SMTT(60)
    <3>2. t[n] = F[n][t[n - 1]]
      BY <1>2, <3>1
    <3>3. t[n - 1] \in Decoder
      BY <3>1
    <3> QED BY <2>2, <3>2, <3>3
  <2> QED BY <2>1, <2>2
<1>4. t = [n \in Nat |-> IF n = 0 THEN d ELSE parse_one(t[n - 1])]
  BY <1>3
<1> QED BY <1>4 DEF Turns

LEMMA TurnsUnfold ==
    ASSUME NEW d \in Decoder
    PROVE  /\ Turns(d)[0] = d
           /\ \A n \in Nat : Turns(d)[n + 1] = parse_one(Turns(d)[n])
<1>1. Turns(d) = [n \in Nat |-> IF n = 0 THEN d ELSE parse_one(Turns(d)[n - 1])]
  BY TurnsDefined
<1>2. ASSUME NEW t, t = [n \in Nat |-> IF n = 0 THEN d ELSE parse_one(t[n - 1])]
      PROVE  t[0] = d /\ \A n \in Nat : t[n + 1] = parse_one(t[n])
  <2>1. t[0] = d
    BY <1>2
  <2>2. ASSUME NEW n \in Nat PROVE t[n + 1] = parse_one(t[n])
    <3>1. n + 1 \in Nat /\ n + 1 # 0 /\ (n + 1) - 1 = n
      BY SMTT(60)
    <3>2. t[n + 1] = IF n + 1 = 0 THEN d ELSE parse_one(t[(n + 1) - 1])
      BY <1>2, <3>1
    <3> QED BY <3>1, <3>2
  <2> QED BY <2>1, <2>2
<1> QED BY <1>1, <1>2

\* Every turn leaves a decoder, and after as many turns as there are bytes the
\* loop has nothing left to do.
LEMMA TurnsSettle ==
    ASSUME NEW d \in Decoder
    PROVE  \A n \in Nat : /\ Turns(d)[n] \in Decoder
                          /\ Settled(Turns(d)[n]) \/ Len(Turns(d)[n].buffer) + n <= Len(d.buffer)
<1> DEFINE t == Turns(d)
           Q(n) == /\ t[n] \in Decoder
                   /\ Settled(t[n]) \/ Len(t[n].buffer) + n <= Len(d.buffer)
           S == {n \in Nat : ~Q(n)}
<1> SUFFICES ASSUME S # {} PROVE FALSE
  OBVIOUS
<1>1. PICK n \in S : \A k \in S : n <= k
  <2>1. S \subseteq Nat
    OBVIOUS
  <2> HIDE DEF S
  <2> QED BY <2>1, Least
<1>2. n \in Nat /\ ~Q(n)
  OBVIOUS
<1>3. t[0] = d /\ \A k \in Nat : t[k + 1] = parse_one(t[k])
  BY TurnsUnfold
<1>4. n # 0
  BY <1>2, <1>3, DecoderFields, SMTT(60)
<1>5. n - 1 \in Nat /\ Q(n - 1)
  <2>1. n - 1 \in Nat /\ n - 1 \notin S
    BY <1>1, <1>2, <1>4, SMTT(60)
  <2> QED BY <2>1
<1>6. t[n] = parse_one(t[n - 1])
  <2>1. (n - 1) + 1 = n
    BY <1>2, SMTT(60)
  <2> QED BY <1>3, <1>5, <2>1
<1> DEFINE u == t[n - 1]
<1>7. u \in Decoder /\ t[n] = parse_one(u)
  BY <1>5, <1>6
<1>8. Settled(u) \/ Len(u.buffer) + (n - 1) <= Len(d.buffer)
  BY <1>5
<1>9. ~(t[n] \in Decoder /\ (Settled(t[n]) \/ Len(t[n].buffer) + n <= Len(d.buffer)))
  BY <1>2
<1> HIDE DEF u, t, S, Q
<1>10. CASE Settled(u)
  BY <1>7, <1>9, <1>10 DEF Settled
<1>11. CASE ~Settled(u)
  <2>1. /\ parse_one(u) \in Decoder
        /\ Settled(parse_one(u)) \/ Len(parse_one(u).buffer) < Len(u.buffer)
    BY <1>7, <1>11, TurnProgress
  <2>2. Len(parse_one(u).buffer) \in Nat /\ Len(u.buffer) \in Nat /\ Len(d.buffer) \in Nat
    BY <1>7, <2>1, DecoderFields
  <2> QED BY <1>2, <1>7, <1>8, <1>9, <1>11, <2>1, <2>2, SMTT(60)
<1> QED BY <1>10, <1>11

\* From there on the turns change nothing.
LEMMA TurnsStay ==
    ASSUME NEW d \in Decoder, NEW m \in Nat, Settled(Turns(d)[m])
    PROVE  \A n \in Nat : n >= m => Turns(d)[n] = Turns(d)[m]
<1> DEFINE t == Turns(d)
           S == {n \in Nat : n >= m /\ t[n] # t[m]}
<1> SUFFICES ASSUME S # {} PROVE FALSE
  OBVIOUS
<1>1. PICK n \in S : \A k \in S : n <= k
  <2>1. S \subseteq Nat
    OBVIOUS
  <2> HIDE DEF S
  <2> QED BY <2>1, Least
<1>2. n \in Nat /\ n >= m /\ n # m /\ t[n] # t[m]
  OBVIOUS
<1>3. n - 1 \in Nat /\ n - 1 >= m /\ (n - 1) + 1 = n /\ n - 1 \notin S
  BY <1>1, <1>2, SMTT(60)
<1>4. t[n - 1] = t[m]
  BY <1>3
<1>5. t[n] = parse_one(t[n - 1])
  BY <1>3, TurnsUnfold, SMTT(60)
<1> QED BY <1>2, <1>4, <1>5 DEF Settled

\* parse_available leaves a decoder whose loop has nothing left to do.
LEMMA Parsed ==
    ASSUME NEW d \in Decoder
    PROVE  /\ parse_available(d) = Turns(d)[Len(d.buffer)]
           /\ parse_available(d) \in Decoder /\ Settled(parse_available(d))
<1>1. parse_available(d) = Turns(d)[Len(d.buffer)]
  BY DEF parse_available, Turns
<1> DEFINE u == Turns(d)[Len(d.buffer)]
           l == Len(d.buffer)
<1>2. l \in Nat
  BY DecoderFields
<1>3. u \in Decoder /\ (Settled(u) \/ Len(u.buffer) + l <= l)
  BY <1>2, TurnsSettle
<1>4. Settled(u)
  <2> HIDE DEF u, l
  <2>1. SUFFICES ASSUME Len(u.buffer) + l <= l PROVE Settled(u)
    BY <1>3
  <2>2. Len(u.buffer) \in Nat
    BY <1>3, DecoderFields
  <2>3. Len(u.buffer) = 0
    BY <1>2, <2>1, <2>2, SMTT(60)
  <2> QED BY <1>3, <2>3, Turn, SMTT(60) DEF Settled, Whole, Bad, kHeaderSize
<1> QED BY <1>1, <1>3, <1>4

\* A turn more or less before the loop makes no difference.
LEMMA ParseTurn ==
    ASSUME NEW d \in Decoder
    PROVE  parse_available(parse_one(d)) = parse_available(d)
<1> DEFINE p == parse_one(d)
           t == Turns(d)
           v == Turns(p)
           S == {n \in Nat : v[n] # t[n + 1]}
<1>1. p \in Decoder /\ Len(p.buffer) <= Len(d.buffer)
  BY TurnProgress
<1>2. Len(p.buffer) \in Nat /\ Len(d.buffer) \in Nat
  BY <1>1, DecoderFields
<1>3. /\ t[0] = d /\ \A k \in Nat : t[k + 1] = parse_one(t[k])
      /\ v[0] = p /\ \A k \in Nat : v[k + 1] = parse_one(v[k])
  <2> HIDE DEF p
  <2> QED BY <1>1, TurnsUnfold
<1>4. S = {}
  <2> SUFFICES ASSUME S # {} PROVE FALSE
    OBVIOUS
  <2>1. PICK n \in S : \A k \in S : n <= k
    <3>1. S \subseteq Nat
      OBVIOUS
    <3> HIDE DEF S
    <3> QED BY <3>1, Least
  <2>2. n \in Nat /\ v[n] # t[n + 1]
    OBVIOUS
  <2> HIDE DEF t, v
  <2>3. n # 0
    BY <1>3, <2>2
  <2>4. n - 1 \in Nat /\ (n - 1) + 1 = n /\ n - 1 \notin S
    BY <2>1, <2>2, <2>3, SMTT(60)
  <2>5. v[n - 1] = t[n]
    BY <2>4
  <2>6. v[n] = parse_one(v[n - 1])
    BY <1>3, <2>4
  <2>7. t[n + 1] = parse_one(t[n])
    BY <1>3, <2>2
  <2> QED BY <2>2, <2>5, <2>6, <2>7
<1>5. v[Len(d.buffer)] = t[Len(d.buffer) + 1]
  BY <1>2, <1>4
<1>6. t[Len(d.buffer) + 1] = t[Len(d.buffer)]
  <2>1. t[Len(d.buffer) + 1] = parse_one(t[Len(d.buffer)])
    BY <1>2, <1>3
  <2>2. Settled(t[Len(d.buffer)])
    BY Parsed
  <2> QED BY <2>1, <2>2 DEF Settled
<1>7. v[Len(d.buffer)] = v[Len(p.buffer)]
  <2>1. Settled(v[Len(p.buffer)])
    BY <1>1, Parsed
  <2> HIDE DEF p
  <2> QED BY <1>1, <1>2, <2>1, TurnsStay
<1> QED BY <1>1, <1>5, <1>6, <1>7, Parsed

\* A loop with nothing to do does nothing.
LEMMA ParseSettled ==
    ASSUME NEW d \in Decoder, Settled(d)
    PROVE  parse_available(d) = d
<1>1. Turns(d)[0] = d /\ 0 \in Nat
  BY TurnsUnfold
<1>2. Settled(Turns(d)[0])
  BY <1>1
<1>3. Len(d.buffer) \in Nat /\ Len(d.buffer) >= 0
  BY DecoderFields, SMTT(60)
<1> QED BY <1>1, <1>2, <1>3, TurnsStay, Parsed

\* The decoder once more bytes are in the buffer.
Plus(d, data) == [frames |-> d.frames, error |-> d.error, buffer |-> d.buffer \o data]

LEMMA PlusFields ==
    ASSUME NEW d \in Decoder, NEW data \in Seq(Nat)
    PROVE  /\ Plus(d, data) \in Decoder
           /\ Plus(d, data).frames = d.frames /\ Plus(d, data).error = d.error
           /\ Plus(d, data).buffer = d.buffer \o data
           /\ Len(Plus(d, data).buffer) = Len(d.buffer) + Len(data)
<1>1. d.buffer \o data \in Seq(Nat) /\ Len(d.buffer \o data) = Len(d.buffer) + Len(data)
  BY DecoderFields, ConcatProperties
<1> QED BY <1>1, DecoderFields DEF Plus, Decoder

\* The front of a sequence does not depend on what follows it.
LEMMA FrontKept ==
    ASSUME NEW b \in Seq(Nat), NEW data \in Seq(Nat), NEW n \in Nat, n + 2 <= Len(b)
    PROVE  SubSeq(b \o data, 3, 2 + n) = SubSeq(b, 3, 2 + n)
<1> DEFINE c == b \o data
           x == SubSeq(c, 3, 2 + n)
           y == SubSeq(b, 3, 2 + n)
<1>1. /\ c \in Seq(Nat) /\ Len(b) \in Nat /\ Len(c) = Len(b) + Len(data) /\ Len(data) \in Nat
      /\ \A i \in 1..Len(b) : c[i] = b[i] /\ b[i] \in Nat
  BY ConcatProperties, ElementOfSeq, LenProperties, SMTT(60)
<1> HIDE DEF c
<1>2. /\ \A i \in 3..(2 + n) : c[i] \in Nat /\ b[i] \in Nat /\ c[i] = b[i]
      /\ 3 \in Int /\ 2 + n \in Int /\ (2 + n) - 3 + 1 = n
  <2>1. \A i \in 3..(2 + n) : i \in 1..Len(b)
    BY <1>1, SMTT(60)
  <2>2. 3 \in Int /\ 2 + n \in Int /\ (2 + n) - 3 + 1 = n
    BY SMTT(60)
  <2> QED BY <1>1, <2>1, <2>2
<1>3. /\ x \in Seq(Nat) /\ Len(x) = IF 3 <= 2 + n THEN (2 + n) - 3 + 1 ELSE 0
      /\ \A i \in 1..((2 + n) - 3 + 1) : x[i] = c[3 + i - 1]
  BY <1>2, SubSeqProperties, SMTT(60)
<1>4. /\ y \in Seq(Nat) /\ Len(y) = IF 3 <= 2 + n THEN (2 + n) - 3 + 1 ELSE 0
      /\ \A i \in 1..((2 + n) - 3 + 1) : y[i] = b[3 + i - 1]
  BY <1>2, SubSeqProperties, SMTT(60)
<1>5. Len(x) = n /\ Len(y) = n
  BY <1>3, <1>4, SMTT(60)
<1>6. ASSUME NEW i \in 1..n PROVE x[i] = y[i]
  <2>1. 3 + i - 1 \in 3..(2 + n) /\ i \in 1..((2 + n) - 3 + 1)
    BY SMTT(60)
  <2> QED BY <1>2, <1>3, <1>4, <2>1
<1> HIDE DEF x, y
<1>7. x = y
  BY <1>3, <1>4, <1>5, <1>6, SeqEqual
<1> QED BY <1>7 DEF x, y, c

\* What follows the front of a sequence keeps what is appended.
LEMMA TailKept ==
    ASSUME NEW b \in Seq(Nat), NEW data \in Seq(Nat), NEW n \in Nat, n + 2 <= Len(b)
    PROVE  SubSeq(b \o data, 3 + n, Len(b \o data)) = SubSeq(b, 3 + n, Len(b)) \o data
<1> DEFINE c == b \o data
           l == Len(b)
           k == Len(data)
           x == SubSeq(c, 3 + n, l + k)
           r == SubSeq(b, 3 + n, l)
           y == r \o data
<1>1. /\ c \in Seq(Nat) /\ l \in Nat /\ k \in Nat /\ Len(c) = l + k
      /\ \A i \in 1..(l + k) : c[i] \in Nat /\ c[i] = IF i <= l THEN b[i] ELSE data[i - l]
      /\ \A i \in 1..l : b[i] \in Nat
  <2>1. /\ c \in Seq(Nat) /\ l \in Nat /\ k \in Nat /\ Len(c) = l + k
        /\ \A i \in 1..(l + k) : c[i] = IF i <= l THEN b[i] ELSE data[i - l]
    BY ConcatProperties, LenProperties
  <2>2. \A i \in 1..l : b[i] \in Nat
    BY ElementOfSeq
  <2> HIDE DEF c
  <2>3. \A i \in 1..(l + k) : c[i] \in Nat
    <3>1. \A i \in 1..Len(c) : c[i] \in Nat
      BY <2>1, ElementOfSeq
    <3> QED BY <2>1, <3>1
  <2> QED BY <2>1, <2>2, <2>3
<1>2. /\ \A i \in (3 + n)..(l + k) : c[i] \in Nat
      /\ \A i \in (3 + n)..l : b[i] \in Nat
      /\ 3 + n \in Int /\ l + k \in Int /\ l \in Int /\ n + 2 <= l
  <2> HIDE DEF c, k
  <2> QED BY <1>1, SMTT(60)
<1>3. /\ x \in Seq(Nat) /\ Len(x) = IF 3 + n <= l + k THEN (l + k) - (3 + n) + 1 ELSE 0
      /\ \A i \in 1..((l + k) - (3 + n) + 1) : x[i] = c[(3 + n) + i - 1]
  <2> HIDE DEF c, l, k
  <2> QED BY <1>2, SubSeqProperties, SMTT(60)
<1>4. /\ r \in Seq(Nat) /\ Len(r) = IF 3 + n <= l THEN l - (3 + n) + 1 ELSE 0
      /\ \A i \in 1..(l - (3 + n) + 1) : r[i] = b[(3 + n) + i - 1]
  <2> HIDE DEF c, l, k
  <2> QED BY <1>2, SubSeqProperties, SMTT(60)
<1>5. Len(r) = l - 2 - n
  <2> HIDE DEF l, r
  <2> QED BY <1>1, <1>2, <1>4, SMTT(60)
<1>6. /\ y \in Seq(Nat) /\ Len(y) = Len(r) + k
      /\ \A i \in 1..(Len(r) + k) : y[i] = IF i <= Len(r) THEN r[i] ELSE data[i - Len(r)]
  <2> HIDE DEF r
  <2> QED BY <1>4, ConcatProperties
<1> HIDE DEF c, l, k, x, y, r
<1>7. Len(x) = Len(y)
  BY <1>1, <1>2, <1>3, <1>5, <1>6, SMTT(60)
<1>8. ASSUME NEW i \in 1..Len(x) PROVE x[i] = y[i]
  <2>1. /\ i \in 1..((l + k) - (3 + n) + 1) /\ i \in 1..(Len(r) + k)
        /\ (3 + n) + i - 1 = n + i + 2 /\ n + i + 2 \in 1..(l + k)
    BY <1>1, <1>2, <1>5, <1>6, <1>7, SMTT(60)
  <2>2. x[i] = c[n + i + 2]
    BY <1>3, <2>1
  <2>3. CASE i <= Len(r)
    <3>1. i \in 1..(l - (3 + n) + 1) /\ n + i + 2 <= l
      BY <1>1, <1>2, <1>5, <2>3, SMTT(60)
    <3> QED BY <1>1, <1>4, <1>6, <2>1, <2>2, <2>3, <3>1
  <2>4. CASE ~(i <= Len(r))
    <3>1. ~(n + i + 2 <= l) /\ (n + i + 2) - l = i - Len(r)
      BY <1>1, <1>2, <1>5, <2>4, SMTT(60)
    <3> QED BY <1>1, <1>6, <2>1, <2>2, <2>4, <3>1
  <2> QED BY <2>3, <2>4
<1>9. x = y
  BY <1>3, <1>6, <1>7, <1>8, SeqEqual
<1>10. Len(b \o data) = l + k
  BY <1>1 DEF c
<1> QED BY <1>9, <1>10 DEF x, y, r, c, l

\* What a turn does to the front of the buffer does not depend on what follows.
LEMMA TurnPlus ==
    ASSUME NEW d \in Decoder, NEW data \in Seq(Nat), ~Settled(d)
    PROVE  parse_one(Plus(d, data)) = Plus(parse_one(d), data)
<1> DEFINE b == d.buffer
           c == d.buffer \o data
           e == Plus(d, data)
<1>1. /\ e \in Decoder /\ e.frames = d.frames /\ e.error = d.error /\ e.buffer = c
      /\ b \in Seq(Nat) /\ c \in Seq(Nat) /\ Len(b) \in Nat /\ Len(data) \in Nat
      /\ Len(c) = Len(b) + Len(data)
  <2>1. /\ e \in Decoder /\ e.frames = d.frames /\ e.error = d.error /\ e.buffer = c
        /\ Len(e.buffer) = Len(b) + Len(data)
    BY PlusFields
  <2>2. b \in Seq(Nat) /\ e.buffer \in Seq(Nat) /\ Len(b) \in Nat
    BY <2>1, DecoderFields
  <2>3. Len(data) \in Nat
    BY LenProperties
  <2> HIDE DEF b, c, e
  <2> QED BY <2>1, <2>2, <2>3
<1>2. \A i \in 1..Len(b) : c[i] = b[i]
  BY <1>1, ConcatProperties, SMTT(60)
<1>3. Whole(d) \/ Bad(d)
  BY Turn DEF Settled
<1>4. d.error = "None" /\ Len(b) >= 2
  BY <1>3 DEF Whole, Bad, kHeaderSize
<1>5. c[1] = b[1] /\ c[2] = b[2] /\ b[2] \in Nat
  BY <1>1, <1>2, <1>4, HeaderVerdict, SMTT(60)
<1>6. decode_header(c) = decode_header(b)
  BY <1>5 DEF decode_header
<1>7. CASE Whole(d)
  <2>1. Len(b) >= 2 + b[2]
    BY <1>7 DEF Whole, kHeaderSize
  <2>2. Whole(e)
    BY <1>1, <1>4, <1>5, <1>6, <1>7, <2>1, SMTT(60) DEF Whole, kHeaderSize
  <2>3. First(c) = First(b)
    <3>1. b[2] + 2 <= Len(b)
      BY <1>1, <1>5, <2>1, SMTT(60)
    <3>2. SubSeq(c, 3, 2 + b[2]) = SubSeq(b, 3, 2 + b[2])
      BY <1>1, <1>5, <3>1, FrontKept
    <3> QED BY <1>5, <3>2 DEF First
  <2>4. AfterFirst(c) = AfterFirst(b) \o data
    <3>1. b[2] + 2 <= Len(b)
      BY <1>1, <1>5, <2>1, SMTT(60)
    <3>2. SubSeq(c, 3 + b[2], Len(c)) = SubSeq(b, 3 + b[2], Len(b)) \o data
      BY <1>1, <1>5, <3>1, TailKept
    <3> QED BY <1>5, <3>2 DEF AfterFirst
  <2>5. parse_one(d) = [frames |-> Append(d.frames, First(b)), error |-> "None", buffer |-> AfterFirst(b)]
    BY <1>7, Turn
  <2>6. parse_one(e) = [frames |-> Append(d.frames, First(b)), error |-> "None",
                        buffer |-> AfterFirst(b) \o data]
    BY <1>1, <2>2, <2>3, <2>4, Turn
  <2>7. Plus(parse_one(d), data) = [frames |-> Append(d.frames, First(b)), error |-> "None",
                                    buffer |-> AfterFirst(b) \o data]
    BY <2>5, SMTT(60) DEF Plus
  <2> QED BY <2>6, <2>7
<1>8. CASE Bad(d)
  <2>1. Bad(e)
    BY <1>1, <1>4, <1>6, <1>8, SMTT(60) DEF Bad, kHeaderSize
  <2>2. parse_one(d) = [frames |-> d.frames, error |-> decode_header(b), buffer |-> b]
    BY <1>8, Turn
  <2>3. parse_one(e) = [frames |-> d.frames, error |-> decode_header(b), buffer |-> c]
    BY <1>1, <1>6, <2>1, Turn
  <2> QED BY <2>2, <2>3, SMTT(60) DEF Plus
<1> QED BY <1>3, <1>7, <1>8

\* Bytes that arrive after the loop has run, or before: the loop comes to the same.
LEMMA ParsePlus ==
    ASSUME NEW d \in Decoder, NEW data \in Seq(Nat)
    PROVE  parse_available(Plus(parse_available(d), data)) = parse_available(Plus(d, data))
<1> DEFINE t == Turns(d)
           R(n) == parse_available(Plus(t[n], data))
           S == {n \in Nat : R(n) # parse_available(Plus(d, data))}
<1>1. t[0] = d /\ \A k \in Nat : t[k + 1] = parse_one(t[k]) /\ t[k] \in Decoder
  BY TurnsUnfold, TurnsSettle
<1>2. ASSUME NEW k \in Nat PROVE R(k + 1) = R(k)
  <2> DEFINE u == t[k]
  <2>1. u \in Decoder /\ t[k + 1] = parse_one(u)
    BY <1>1
  <2> HIDE DEF u, t
  <2>2. CASE Settled(u)
    BY <2>1, <2>2 DEF Settled, u
  <2>3. CASE ~Settled(u)
    <3>1. parse_one(Plus(u, data)) = Plus(parse_one(u), data) /\ Plus(u, data) \in Decoder
      BY <2>1, <2>3, TurnPlus, PlusFields
    <3>2. parse_available(parse_one(Plus(u, data))) = parse_available(Plus(u, data))
      BY <3>1, ParseTurn
    <3> QED BY <2>1, <3>1, <3>2 DEF u
  <2> QED BY <2>2, <2>3
<1>3. R(0) = parse_available(Plus(d, data))
  BY <1>1
<1>4. S = {}
  <2> SUFFICES ASSUME S # {} PROVE FALSE
    OBVIOUS
  <2> HIDE DEF R
  <2>1. PICK n \in S : \A k \in S : n <= k
    <3>1. S \subseteq Nat
      OBVIOUS
    <3> HIDE DEF S
    <3> QED BY <3>1, Least
  <2>2. n \in Nat /\ R(n) # parse_available(Plus(d, data))
    OBVIOUS
  <2>3. n # 0
    BY <1>3, <2>2
  <2>4. n - 1 \in Nat /\ (n - 1) + 1 = n
    BY <2>2, <2>3, SMTT(60)
  <2>5. n - 1 \notin S
    <3> HIDE DEF S
    <3> QED BY <2>1, <2>2, <2>4, SMTT(60)
  <2>6. R(n) = R(n - 1)
    BY <1>2, <2>4
  <2> QED BY <2>2, <2>4, <2>5, <2>6
<1>5. Len(d.buffer) \in Nat
  BY DecoderFields
<1>6. R(Len(d.buffer)) = parse_available(Plus(d, data))
  <2> HIDE DEF R
  <2> QED BY <1>4, <1>5
<1> QED BY <1>6, Parsed

\* feed in terms of the loop.
LEMMA Fed ==
    ASSUME NEW d \in Decoder, NEW data \in Seq(Nat)
    PROVE  /\ feed(d, data) \in Decoder /\ Settled(feed(d, data))
           /\ d.error # "None" => feed(d, data) = d
           /\ d.error = "None" => feed(d, data) = parse_available(Plus(d, data))
<1>1. [d EXCEPT !.buffer = @ \o data] = Plus(d, data)
  BY PlusFields, SMTT(60) DEF Decoder
<1>2. Plus(d, data) \in Decoder
  BY PlusFields
<1>3. d.error # "None" => feed(d, data) = d /\ Settled(d)
  BY Turn DEF feed, Settled, Whole, Bad
<1>4. d.error = "None" => feed(d, data) = parse_available(Plus(d, data))
  BY <1>1 DEF feed
<1> QED BY <1>2, <1>3, <1>4, Parsed

\* Two decoders have come to the same: the same frames and the same error, and
\* while there is no error the same bytes still to decode.
SameOutcome(d, e) ==
    d.frames = e.frames /\ d.error = e.error /\ (d.error = "None" => d.buffer = e.buffer)

\* FrameDecoder::feed does not notice where recv cuts the stream: two chunks fed
\* one after the other leave the frames, the error and, while there is none, the
\* pending bytes that the two fed at once leave.
THEOREM TwoChunks ==
    ASSUME NEW d \in Decoder, NEW a \in Seq(Nat), NEW b \in Seq(Nat)
    PROVE  SameOutcome(feed(feed(d, a), b), feed(d, a \o b))
<1>1. a \o b \in Seq(Nat)
  BY ConcatProperties
<1>2. CASE d.error # "None"
  <2>1. feed(d, a) = d /\ feed(d, b) = d /\ feed(d, a \o b) = d
    BY <1>1, <1>2, Fed
  <2> QED BY <2>1 DEF SameOutcome
<1>3. CASE d.error = "None"
  <2> DEFINE e == Plus(d, a)
             x == parse_available(e)
  <2>1. e \in Decoder /\ e.frames = d.frames /\ e.error = d.error /\ e.buffer = d.buffer \o a
    BY PlusFields
  <2>2. x \in Decoder /\ Settled(x) /\ feed(d, a) = x
    BY <1>3, <2>1, Parsed, Fed
  <2>3. Plus(e, b) = Plus(d, a \o b)
    <3>1. (d.buffer \o a) \o b = d.buffer \o (a \o b)
      BY DecoderFields, Associative
    <3> QED BY <2>1, <3>1 DEF Plus
  <2>4. parse_available(Plus(x, b)) = parse_available(Plus(d, a \o b))
    BY <2>1, <2>3, ParsePlus
  <2>5. feed(d, a \o b) = parse_available(Plus(x, b))
    BY <1>1, <1>3, <2>4, Fed
  <2> HIDE DEF e, x
  <2>6. CASE x.error = "None"
    BY <2>2, <2>5, <2>6, Fed DEF SameOutcome
  <2>7. CASE x.error # "None"
    <3>1. feed(x, b) = x
      BY <2>2, <2>7, Fed
    <3>2. Plus(x, b) \in Decoder /\ Plus(x, b).error = x.error /\ Plus(x, b).frames = x.frames
      BY <2>2, PlusFields
    <3>3. Settled(Plus(x, b))
      BY <2>7, <3>2, Turn DEF Settled, Whole, Bad
    <3>4. parse_available(Plus(x, b)) = Plus(x, b)
      BY <3>2, <3>3, ParseSettled
    <3> QED BY <2>2, <2>5, <2>7, <3>1, <3>2, <3>4 DEF SameOutcome
  <2> QED BY <2>6, <2>7
<1> QED BY <1>2, <1>3

\* Frames that encode_frame accepts.
ValidFrame == {f \in DecodedFrame : f.type \in Types /\ Len(f.payload) <= MaxPayload}

\* The bytes of a valid frame.
LEMMA EncodedFrame ==
    ASSUME NEW f \in ValidFrame
    PROVE  /\ encode_frame(f) \in Seq(Nat) /\ Len(encode_frame(f)) = 2 + Len(f.payload)
           /\ encode_frame(f)[1] = f.type /\ encode_frame(f)[2] = Len(f.payload)
           /\ \A i \in 1..Len(f.payload) : encode_frame(f)[2 + i] = f.payload[i]
           /\ f.type \in Nat /\ f.type \in Types /\ f.payload \in Seq(Nat)
           /\ Len(f.payload) \in Nat /\ Len(f.payload) <= MaxPayload
           /\ f = [type |-> f.type, payload |-> f.payload]
<1> DEFINE h == <<f.type, Len(f.payload)>>
           y == f.payload
<1>1. /\ f.type \in Nat /\ f.type \in Types /\ y \in Seq(Nat) /\ Len(y) \in Nat
      /\ Len(y) <= MaxPayload /\ f = [type |-> f.type, payload |-> y]
  BY LenProperties DEF ValidFrame, DecodedFrame
<1>2. h \in Seq(Nat) /\ Len(h) = 2 /\ h[1] = f.type /\ h[2] = Len(y)
  BY <1>1, SMTT(60)
<1>3. encode_frame(f) = h \o y
  BY DEF encode_frame
<1> HIDE DEF h, y
<1>4. /\ h \o y \in Seq(Nat) /\ Len(h \o y) = Len(h) + Len(y)
      /\ \A i \in 1..Len(h) : (h \o y)[i] = h[i]
      /\ \A i \in 1..Len(y) : (h \o y)[Len(h) + i] = y[i]
  BY <1>1, <1>2, Concat
<1>5. (h \o y)[1] = h[1] /\ (h \o y)[2] = h[2]
  BY <1>2, <1>4, SMTT(60)
<1>6. \A i \in 1..Len(y) : (h \o y)[2 + i] = y[i]
  BY <1>2, <1>4
<1> QED BY <1>1, <1>2, <1>3, <1>4, <1>5, <1>6 DEF y

\* The bytes of a frame are the frame and nothing else.
LEMMA EncodedParts ==
    ASSUME NEW f \in ValidFrame
    PROVE  First(encode_frame(f)) = f /\ AfterFirst(encode_frame(f)) = <<>>
<1> DEFINE w == encode_frame(f)
           y == f.payload
           k == Len(f.payload)
           z == SubSeq(w, 3, 2 + k)
<1>1. /\ w \in Seq(Nat) /\ Len(w) = 2 + k /\ k \in Nat
      /\ w[1] = f.type /\ w[2] = k /\ y \in Seq(Nat) /\ Len(y) = k
      /\ f = [type |-> f.type, payload |-> y]
      /\ \A i \in 1..k : w[2 + i] = y[i]
  BY EncodedFrame
<1> HIDE DEF w, y, k
<1>3. 3 \in Nat /\ 2 + k \in Nat /\ 1 <= 3 /\ 3 <= (2 + k) + 1 /\ 2 + k <= Len(w)
  BY <1>1, SMTT(60)
<1>4. /\ z \in Seq(Nat) /\ Len(z) = (2 + k) - 3 + 1
      /\ \A i \in 1..((2 + k) - 3 + 1) : z[i] = w[3 + i - 1]
  BY <1>1, <1>3, Stretch
<1> HIDE DEF z
<1>5. Len(z) = k
  BY <1>1, <1>4, SMTT(60)
<1>6. ASSUME NEW i \in 1..k PROVE z[i] = y[i]
  <2>1. i \in 1..((2 + k) - 3 + 1) /\ 3 + i - 1 = 2 + i
    BY <1>1, SMTT(60)
  <2> QED BY <1>1, <1>4, <2>1
<1>7. z = y
  BY <1>1, <1>4, <1>5, <1>6, SeqEqual
<1>8. First(w) = f
  BY <1>1, <1>7 DEF First, z
<1>9. AfterFirst(w) = <<>>
  <2>1. 3 + k \in Int /\ Len(w) \in Int /\ Len(w) < 3 + k
    BY <1>1, SMTT(60)
  <2>2. SubSeq(w, 3 + k, Len(w)) = <<>>
    BY <2>1, SubSeqEmpty
  <2> QED BY <1>1, <2>2 DEF AfterFirst
<1> QED BY <1>8, <1>9 DEF w

\* What encode_frame writes, FrameDecoder reads: with nothing pending, the bytes of
\* a valid frame yield that frame, whatever follows them, and what follows is
\* decoded as if it were all there was.
THEOREM FrameRead ==
    ASSUME NEW d \in Decoder, d.error = "None", d.buffer = <<>>,
           NEW f \in ValidFrame, NEW rest \in Seq(Nat)
    PROVE  feed(d, encode_frame(f) \o rest) = feed([d EXCEPT !.frames = Append(@, f)], rest)
<1> DEFINE w == encode_frame(f)
           e == Plus(d, w)
           g == [frames |-> Append(d.frames, f), error |-> "None", buffer |-> <<>>]
<1>1. /\ w \in Seq(Nat) /\ Len(w) \in Nat /\ Len(w) = 2 + w[2] /\ w[2] \in Nat
      /\ w[1] \in Types /\ w[2] <= MaxPayload
  BY EncodedFrame, SMTT(60)
<1>2. First(w) = f /\ AfterFirst(w) = <<>>
  BY EncodedParts
<1> HIDE DEF w
<1>3. e \in Decoder /\ e.frames = d.frames /\ e.error = "None" /\ e.buffer = w
  <2>1. <<>> \o w = w
    BY <1>1, ConcatEmptySeq
  <2> QED BY <1>1, <2>1, PlusFields
<1>4. g \in Decoder
  <2>1. Append(d.frames, f) \in Seq(DecodedFrame)
    BY DecoderFields, AppendProperties DEF ValidFrame
  <2> HIDE DEF e
  <2> QED BY <2>1 DEF Decoder
<1>5. [d EXCEPT !.frames = Append(@, f)] = g
  <2>1. g.frames = Append(d.frames, f) /\ g.error = "None" /\ g.buffer = <<>>
    OBVIOUS
  <2> HIDE DEF g
  <2> QED BY <1>4, <2>1 DEF Decoder
<1> HIDE DEF e
<1>6. parse_one(e) = g
  <2>1. Len(w) >= 2
    BY <1>1, SMTT(60)
  <2>2. decode_header(w) = "None"
    BY <1>1, <2>1, HeaderVerdict
  <2>3. Whole(e)
    BY <1>1, <1>3, <2>1, <2>2, SMTT(60) DEF Whole, kHeaderSize
  <2> QED BY <1>2, <1>3, <2>3, Turn
<1>7. ~Settled(e)
  <2>1. w # <<>>
    BY <1>1, SMTT(60)
  <2>2. g.buffer = <<>>
    OBVIOUS
  <2> QED BY <1>3, <1>6, <2>1, <2>2 DEF Settled
<1>8. Plus(e, rest) = Plus(d, w \o rest)
  <2>1. (d.buffer \o w) \o rest = d.buffer \o (w \o rest)
    BY <1>1, DecoderFields, Associative, SMTT(60)
  <2> QED BY <2>1 DEF Plus, e
<1>9. parse_one(Plus(e, rest)) = Plus(g, rest)
  BY <1>3, <1>6, <1>7, TurnPlus
<1>10. Plus(e, rest) \in Decoder
  BY <1>3, PlusFields
<1>11. parse_available(Plus(g, rest)) = parse_available(Plus(e, rest))
  BY <1>9, <1>10, ParseTurn
<1>12. feed(g, rest) = parse_available(Plus(g, rest))
  <2>1. g.error = "None"
    OBVIOUS
  <2> HIDE DEF g
  <2> QED BY <1>4, <2>1, Fed
<1>13. feed(d, w \o rest) = parse_available(Plus(e, rest))
  <2>1. w \o rest \in Seq(Nat)
    BY <1>1, ConcatProperties
  <2> QED BY <1>8, <2>1, Fed
<1> HIDE DEF g
<1> QED BY <1>5, <1>11, <1>12, <1>13 DEF w

\* Nothing comes from the bytes of a frame that is still incomplete: they are kept
\* for the next recv.
THEOREM PartialFrameWaits ==
    ASSUME NEW d \in Decoder, d.error = "None", d.buffer = <<>>,
           NEW f \in ValidFrame, NEW n \in 0..(Len(encode_frame(f)) - 1)
    PROVE  feed(d, SubSeq(encode_frame(f), 1, n))
             = [d EXCEPT !.buffer = SubSeq(encode_frame(f), 1, n)]
<1> DEFINE w == encode_frame(f)
           b == SubSeq(w, 1, n)
           e == Plus(d, b)
<1>1. /\ w \in Seq(Nat) /\ Len(w) \in Nat /\ Len(w) = 2 + w[2] /\ w[2] \in Nat
      /\ w[1] \in Types /\ w[2] <= MaxPayload /\ n \in Nat /\ n < Len(w)
  BY EncodedFrame, SMTT(60)
<1> HIDE DEF w
<1>2. n <= Len(w)
  BY <1>1, SMTT(60)
<1>3. b \in Seq(Nat) /\ Len(b) = n /\ \A i \in 1..n : b[i] = w[i]
  BY <1>1, <1>2, Prefix
<1> HIDE DEF b
<1>4. Len(b) = n
  BY <1>3
<1>5. e \in Decoder /\ e.frames = d.frames /\ e.error = "None" /\ e.buffer = b
  <2>1. <<>> \o b = b
    BY <1>3, ConcatEmptySeq
  <2> QED BY <1>3, <2>1, PlusFields
<1>6. e = [d EXCEPT !.buffer = b]
  BY <1>5 DEF Decoder
<1> HIDE DEF e
<1>7. Settled(e)
  <2>1. CASE n < 2
    BY <1>4, <1>5, <2>1, Turn, SMTT(60) DEF Settled, Whole, Bad, kHeaderSize
  <2>2. CASE ~(n < 2)
    <3>1. 1 \in 1..n /\ 2 \in 1..n /\ n >= 2
      BY <1>1, <2>2, SMTT(60)
    <3>2. b[1] = w[1] /\ b[2] = w[2]
      BY <1>3, <3>1
    <3>3. decode_header(b) = "None"
      BY <1>1, <1>3, <1>4, <3>1, <3>2, HeaderVerdict
    <3>4. ~(n >= 2 + b[2])
      BY <1>1, <3>2, SMTT(60)
    <3> QED BY <1>4, <1>5, <3>3, <3>4, Turn DEF Settled, Whole, Bad, kHeaderSize
  <2> QED BY <2>1, <2>2
<1>8. feed(d, b) = parse_available(e)
  BY <1>3, Fed DEF e
<1> QED BY <1>5, <1>6, <1>7, <1>8, ParseSettled DEF b, w

\* At a bad header the decoder stops for good: whatever follows, no frame is added
\* and the error stays.
THEOREM BadHeaderStops ==
    ASSUME NEW d \in Decoder, d.error = "None", d.buffer = <<>>,
           NEW b \in Seq(Nat), Len(b) >= kHeaderSize, decode_header(b) # "None"
    PROVE  feed(d, b).frames = d.frames /\ feed(d, b).error = decode_header(b)
<1> DEFINE e == Plus(d, b)
<1>1. e \in Decoder /\ e.frames = d.frames /\ e.error = "None" /\ e.buffer = b
  <2>1. <<>> \o b = b
    BY ConcatEmptySeq
  <2> QED BY <2>1, PlusFields
<1>2. feed(d, b) = parse_available(e)
  BY Fed
<1> HIDE DEF e
<1>3. parse_one(e) = [frames |-> d.frames, error |-> decode_header(b), buffer |-> b]
  BY <1>1, Turn DEF Bad
<1>4. parse_one(e) \in Decoder
  BY <1>1, TurnProgress
<1>5. Settled(parse_one(e))
  BY <1>3, <1>4, Turn DEF Settled, Whole, Bad
<1>6. parse_available(e) = parse_one(e)
  BY <1>1, <1>4, <1>5, ParseTurn, ParseSettled
<1> QED BY <1>2, <1>3, <1>6, SMTT(60)

\* A decoder and the bytes recv has not returned yet.
Receiving == [decoder : Decoder, chunk : Seq(Nat)]
Start == [decoder |-> reset, chunk |-> <<>>]
After(stream, cuts) ==
    CHOOSE after : after = [n \in 0..Len(stream) |->
        IF n = 0 THEN [decoder |-> reset, chunk |-> <<>>]
        ELSE receive(after[n - 1], stream[n], n \in cuts \/ n = Len(stream))]

LEMMA ResetDecoder == reset \in Decoder /\ Start \in Receiving
<1>1. <<>> \in Seq(Nat) /\ <<>> \in Seq(DecodedFrame)
  BY SMTT(60)
<1> QED BY <1>1 DEF reset, Decoder, Start, Receiving

\* A byte is fed at once or joins the chunk.
LEMMA OneByte ==
    ASSUME NEW u \in Receiving, NEW byte \in Nat, NEW cut
    PROVE  /\ u.decoder \in Decoder /\ u.chunk \in Seq(Nat)
           /\ Append(u.chunk, byte) \in Seq(Nat) /\ Append(u.chunk, byte) = u.chunk \o <<byte>>
           /\ receive(u, byte, cut) \in Receiving
           /\ cut => /\ receive(u, byte, cut).decoder = feed(u.decoder, Append(u.chunk, byte))
                     /\ receive(u, byte, cut).chunk = <<>>
           /\ ~cut => /\ receive(u, byte, cut).decoder = u.decoder
                      /\ receive(u, byte, cut).chunk = Append(u.chunk, byte)
<1>1. u.decoder \in Decoder /\ u.chunk \in Seq(Nat)
  BY DEF Receiving
<1> DEFINE chunk == Append(u.chunk, byte)
<1>2. chunk \in Seq(Nat) /\ chunk = u.chunk \o <<byte>>
  BY <1>1, AppendProperties, AppendIsConcat
<1> HIDE DEF chunk
<1>3. feed(u.decoder, chunk) \in Decoder /\ <<>> \in Seq(Nat)
  <2>1. feed(u.decoder, chunk) \in Decoder
    BY <1>1, <1>2, Fed
  <2> QED BY <2>1, SMTT(60)
<1>4. CASE cut
  <2>1. receive(u, byte, cut) = [decoder |-> feed(u.decoder, chunk), chunk |-> <<>>]
    BY <1>4 DEF receive, chunk
  <2>2. receive(u, byte, cut) \in Receiving
    BY <1>3, <2>1, SMTT(60) DEF Receiving
  <2>3. receive(u, byte, cut).decoder = feed(u.decoder, chunk) /\ receive(u, byte, cut).chunk = <<>>
    BY <2>1, SMTT(60)
  <2> QED BY <1>1, <1>2, <1>4, <2>2, <2>3 DEF chunk
<1>5. CASE ~cut
  <2>1. receive(u, byte, cut) = [decoder |-> u.decoder, chunk |-> chunk]
    BY <1>5 DEF receive, chunk
  <2>2. receive(u, byte, cut) \in Receiving
    BY <1>1, <1>2, <2>1, SMTT(60) DEF Receiving
  <2>3. receive(u, byte, cut).decoder = u.decoder /\ receive(u, byte, cut).chunk = chunk
    BY <2>1, SMTT(60)
  <2> QED BY <1>1, <1>2, <1>5, <2>2, <2>3 DEF chunk
<1> QED BY <1>4, <1>5

\* What has been received after each byte is well defined.
LEMMA AfterDefined ==
    ASSUME NEW stream \in Seq(Nat), NEW cuts
    PROVE  /\ After(stream, cuts) \in [0..Len(stream) -> Receiving]
           /\ After(stream, cuts)[0] = Start
           /\ \A n \in 1..Len(stream) :
                After(stream, cuts)[n] = receive(After(stream, cuts)[n - 1], stream[n],
                                                 n \in cuts \/ n = Len(stream))
<1> DEFINE N == Len(stream)
           F == [n \in 1..N |-> [u \in Receiving |-> receive(u, stream[n], n \in cuts \/ n = N)]]
<1>1. N \in Nat /\ \A n \in 1..N : stream[n] \in Nat
  BY ElementOfSeq, LenProperties
<1> HIDE DEF N
<1>2. \A n \in 1..N, u \in Receiving : receive(u, stream[n], n \in cuts \/ n = N) \in Receiving
  BY <1>1, OneByte
<1>3. F \in [1..N -> [Receiving -> Receiving]]
  BY <1>2
<1>4. \A n \in 1..N, u \in Receiving : F[n][u] = receive(u, stream[n], n \in cuts \/ n = N)
  OBVIOUS
<1> HIDE DEF F
<1>5. PICK t \in [0..N -> Receiving] :
              t[0] = Start /\ \A n \in 1..N : t[n] = F[n][t[n - 1]]
  <2>1. Start \in Receiving /\ N \in Nat
    BY <1>1, ResetDecoder
  <2>2. \E t : Unrolled(Start, F, Receiving, t, N)
    BY <1>3, <2>1, BoundedRecursion
  <2> QED BY <2>2 DEF Unrolled
<1>6. \A n \in 1..N : t[n] = receive(t[n - 1], stream[n], n \in cuts \/ n = N)
  <2> TAKE n \in 1..N
  <2>1. n - 1 \in 0..N
    BY <1>1, SMTT(60)
  <2>2. t[n - 1] \in Receiving
    BY <2>1
  <2> QED BY <1>4, <1>5, <2>2
<1>7. t = [n \in 0..N |-> IF n = 0 THEN [decoder |-> reset, chunk |-> <<>>]
                          ELSE receive(t[n - 1], stream[n], n \in cuts \/ n = N)]
  BY <1>1, <1>5, <1>6, SMTT(60) DEF Start
<1> DEFINE A == After(stream, cuts)
<1>8. A = [n \in 0..N |-> IF n = 0 THEN [decoder |-> reset, chunk |-> <<>>]
                          ELSE receive(A[n - 1], stream[n], n \in cuts \/ n = N)]
  BY <1>7 DEF After, N
<1> HIDE DEF A
<1>9. A[0] = Start /\ \A n \in 1..N : A[n] = receive(A[n - 1], stream[n], n \in cuts \/ n = N)
  BY <1>1, <1>8, SMTT(60) DEF Start
<1>10. ASSUME NEW n \in 0..N PROVE A[n] = t[n]
  <2> DEFINE S == {k \in 0..N : A[k] # t[k]}
  <2>1. S = {}
    <3> SUFFICES ASSUME S # {} PROVE FALSE
      OBVIOUS
    <3>1. PICK k \in S : \A j \in S : k <= j
      <4>1. S \subseteq Nat
        BY <1>1, SMTT(60)
      <4> HIDE DEF S
      <4> QED BY <4>1, Least
    <3>2. k \in 0..N /\ A[k] # t[k]
      OBVIOUS
    <3>3. k # 0
      BY <1>5, <1>9, <3>2
    <3>4. k \in 1..N /\ k - 1 \in 0..N
      BY <1>1, <3>2, <3>3, SMTT(60)
    <3>5. k - 1 \notin S
      <4> HIDE DEF S
      <4> QED BY <1>1, <3>1, <3>4, SMTT(60)
    <3>6. A[k - 1] = t[k - 1]
      BY <3>4, <3>5
    <3> QED BY <1>6, <1>9, <3>2, <3>4, <3>6
  <2> QED BY <2>1
<1>11. A = t
  BY <1>8, <1>10
<1> QED BY <1>5, <1>9, <1>11 DEF A, N

\* Decoders that have come to the same come to the same with more bytes.
LEMMA FeedSame ==
    ASSUME NEW d \in Decoder, NEW e \in Decoder, SameOutcome(d, e), NEW data \in Seq(Nat)
    PROVE  SameOutcome(feed(d, data), feed(e, data))
<1>1. CASE d.error = "None"
  <2>1. d = e
    BY <1>1, DecoderEqual DEF SameOutcome
  <2> QED BY <2>1 DEF SameOutcome
<1>2. CASE d.error # "None"
  <2>1. e.error # "None"
    BY <1>2 DEF SameOutcome
  <2> QED BY <1>2, <2>1, Fed
<1> QED BY <1>1, <1>2

\* Feeding nothing to a decoder that has been fed changes nothing.
LEMMA FeedNothing ==
    ASSUME NEW d \in Decoder, Settled(d)
    PROVE  feed(d, <<>>) = d
<1>1. <<>> \in Seq(Nat) /\ d.buffer \in Seq(Nat)
  BY DecoderFields, SMTT(60)
<1>2. d.buffer \o <<>> = d.buffer
  BY <1>1, Concat
<1>3. Plus(d, <<>>) = d
  BY <1>2, DecoderFields DEF Plus
<1> QED BY <1>1, <1>3, Fed, ParseSettled

\* The chunks of a byte stream do not matter: wherever recv cuts it, and however
\* often, the decoder of receive_client ends with the frames and the error, and
\* while there is none the pending bytes, of the stream fed at once.
THEOREM CutsUnseen ==
    ASSUME NEW stream \in Seq(Nat), NEW cuts
    PROVE  SameOutcome(Received(stream, cuts), feed(reset, stream))
<1> DEFINE N == Len(stream)
           A == After(stream, cuts)
           P(n) == SubSeq(stream, 1, n)
           Q(n) == SameOutcome(feed(A[n].decoder, A[n].chunk), feed(reset, P(n)))
           S == {n \in 0..N : ~Q(n)}
<1>1. N \in Nat /\ \A n \in 1..N : stream[n] \in Nat
  BY ElementOfSeq, LenProperties
<1>2. /\ A \in [0..N -> Receiving] /\ A[0] = Start
      /\ \A n \in 1..N : A[n] = receive(A[n - 1], stream[n], n \in cuts \/ n = N)
  BY AfterDefined
<1>3. \A n \in 0..N : P(n) \in Seq(Nat)
  BY <1>1, Prefix, SMTT(60)
<1>4. \A n \in 1..N : P(n) = P(n - 1) \o <<stream[n]>>
  <2> TAKE n \in 1..N
  <2>1. 1 \in 1..Len(stream) /\ n \in 1..Len(stream)
    BY <1>1, SMTT(60)
  <2> QED BY <2>1, SubSeqRecursiveSecond
<1>5. P(0) = <<>>
  BY SubSeqEmpty, SMTT(60)
<1>6. Received(stream, cuts) = A[N].decoder
  BY DEF Received, After
<1>7. P(N) = stream
  BY SubSeqFull
<1> HIDE DEF N, A, P
<1>8. ASSUME NEW n \in 1..N, Q(n - 1)
      PROVE  /\ Q(n)
             /\ n = N => SameOutcome(A[n].decoder, feed(reset, P(n)))
  <2> DEFINE u == A[n - 1]
             byte == stream[n]
             cut == n \in cuts \/ n = N
             v == A[n]
             d == feed(u.decoder, u.chunk)
             r == feed(reset, P(n - 1))
             new == feed(reset, P(n))
             x == feed(u.decoder, Append(u.chunk, byte))
  <2>1. n - 1 \in 0..N /\ n \in 0..N
    BY <1>1, SMTT(60)
  <2>2. u \in Receiving /\ v = receive(u, byte, cut) /\ byte \in Nat
    BY <1>1, <1>2, <2>1
  <2>3. /\ u.decoder \in Decoder /\ u.chunk \in Seq(Nat)
        /\ Append(u.chunk, byte) \in Seq(Nat) /\ Append(u.chunk, byte) = u.chunk \o <<byte>>
        /\ cut => v.decoder = x /\ v.chunk = <<>>
        /\ ~cut => v.decoder = u.decoder /\ v.chunk = Append(u.chunk, byte)
    <3> HIDE DEF u, byte, cut, v
    <3> QED BY <2>2, OneByte
  <2>4. <<byte>> \in Seq(Nat) /\ P(n) = P(n - 1) \o <<byte>> /\ P(n - 1) \in Seq(Nat)
    <3>1. P(n) = P(n - 1) \o <<byte>> /\ P(n - 1) \in Seq(Nat)
      BY <1>3, <1>4, <2>1
    <3> HIDE DEF byte
    <3>2. <<byte>> \in Seq(Nat)
      BY <2>2, SMTT(60)
    <3> QED BY <3>1, <3>2
  <2> HIDE DEF u, byte, cut, v
  <2>5. SameOutcome(feed(d, <<byte>>), x)
    BY <2>3, <2>4, TwoChunks
  <2>6. SameOutcome(feed(r, <<byte>>), new)
    BY <2>4, TwoChunks, ResetDecoder
  <2>7. d \in Decoder /\ r \in Decoder /\ SameOutcome(d, r)
    BY <1>8, <2>3, <2>4, Fed, ResetDecoder DEF u
  <2>8. SameOutcome(feed(d, <<byte>>), feed(r, <<byte>>))
    BY <2>4, <2>7, FeedSame
  <2>9. SameOutcome(x, new)
    BY <2>5, <2>6, <2>8 DEF SameOutcome
  <2>10. x \in Decoder /\ Settled(x)
    BY <2>3, Fed
  <2>11. CASE cut
    <3>1. feed(v.decoder, v.chunk) = x
      BY <2>3, <2>10, <2>11, FeedNothing
    <3> QED BY <2>3, <2>9, <2>11, <3>1 DEF v
  <2>12. CASE ~cut
    <3>1. feed(v.decoder, v.chunk) = x /\ n # N
      BY <2>3, <2>12 DEF cut
    <3> QED BY <2>9, <3>1 DEF v
  <2> QED BY <2>11, <2>12
<1>9. Q(0)
  <2>1. feed(A[0].decoder, A[0].chunk) = feed(reset, <<>>)
    BY <1>2, SMTT(60) DEF Start
  <2> QED BY <1>5, <2>1 DEF SameOutcome
<1>10. S = {}
  <2> SUFFICES ASSUME S # {} PROVE FALSE
    OBVIOUS
  <2> HIDE DEF Q
  <2>1. PICK k \in S : \A j \in S : k <= j
    <3>1. S \subseteq Nat
      BY <1>1, SMTT(60)
    <3> HIDE DEF S
    <3> QED BY <3>1, Least
  <2>2. k \in 0..N /\ ~Q(k)
    OBVIOUS
  <2>3. k # 0
    BY <1>9, <2>2
  <2>4. k \in 1..N /\ k - 1 \in 0..N
    BY <1>1, <2>2, <2>3, SMTT(60)
  <2>5. k - 1 \notin S
    <3> HIDE DEF S
    <3> QED BY <1>1, <2>1, <2>4, SMTT(60)
  <2>6. Q(k - 1)
    BY <2>4, <2>5
  <2> QED BY <1>8, <2>2, <2>4, <2>6
<1>11. CASE N = 0
  <2>1. A[N].decoder = reset /\ reset \in Decoder
    BY <1>2, <1>11, ResetDecoder, SMTT(60) DEF Start
  <2>2. Len(reset.buffer) = 0
    BY DEF reset
  <2>3. Settled(reset)
    BY <2>1, <2>2, Turn, SMTT(60) DEF Settled, Whole, Bad, kHeaderSize
  <2>4. feed(reset, stream) = reset
    BY <1>5, <1>7, <1>11, <2>1, <2>3, FeedNothing
  <2> QED BY <1>6, <2>1, <2>4 DEF SameOutcome
<1>12. CASE N # 0
  <2>1. N \in 1..N /\ N - 1 \in 0..N
    BY <1>1, <1>12, SMTT(60)
  <2> HIDE DEF Q
  <2>2. Q(N - 1)
    BY <1>10, <2>1
  <2> QED BY <1>6, <1>7, <1>8, <2>1, <2>2
<1> QED BY <1>11, <1>12

\* What has been sent after each of N messages, given the bytes of each.
Sends(sent, wire, N) ==
    /\ sent \in [0..N -> Seq(Nat)] /\ sent[0] = <<>>
    /\ \A k \in 1..N : sent[k] = sent[k - 1] \o wire[k]

Begins(s, t) == \E r \in Seq(Nat) : t = s \o r

\* The first n messages begin with the first k.
LEMMA SentGrows ==
    ASSUME NEW N \in Nat, NEW wire \in [1..N -> Seq(Nat)], NEW sent, Sends(sent, wire, N),
           NEW k \in 0..N, NEW n \in 0..N, k <= n
    PROVE  Begins(sent[k], sent[n])
<1> DEFINE Q(m) == \E r \in Seq(Nat) : sent[m] = sent[k] \o r
           S == {m \in k..N : ~Q(m)}
<1> SUFFICES ASSUME S # {} PROVE FALSE
  <2>1. n \in k..N
    BY SMTT(60)
  <2>2. n \in S \/ Q(n)
    BY <2>1
  <2> HIDE DEF S
  <2> QED BY <2>2 DEF Begins
<1>1. /\ \A j \in 0..N : sent[j] \in Seq(Nat)
      /\ \A j \in 1..N : sent[j] = sent[j - 1] \o wire[j] /\ wire[j] \in Seq(Nat)
  BY DEF Sends
<1>2. Q(k)
  <2>1. sent[k] \in Seq(Nat) /\ <<>> \in Seq(Nat)
    BY <1>1, SMTT(60)
  <2>2. sent[k] = sent[k] \o <<>>
    BY <2>1, Concat
  <2> QED BY <2>1, <2>2
<1> HIDE DEF Q
<1>3. PICK m \in S : \A j \in S : m <= j
  <2>1. S \subseteq Nat
    BY SMTT(60)
  <2> HIDE DEF S
  <2> QED BY <2>1, Least
<1>4. m \in k..N /\ ~Q(m)
  OBVIOUS
<1>5. m # k
  BY <1>2, <1>4
<1>6. m \in 1..N /\ m - 1 \in k..N
  BY <1>4, <1>5, SMTT(60)
<1>7. m - 1 \notin S
  <2> HIDE DEF S
  <2> QED BY <1>3, <1>4, <1>6, SMTT(60)
<1>8. PICK r \in Seq(Nat) : sent[m - 1] = sent[k] \o r
  BY <1>6, <1>7 DEF Q
<1>9. wire[m] \in Seq(Nat) /\ sent[m] = sent[m - 1] \o wire[m] /\ sent[k] \in Seq(Nat)
  BY <1>1, <1>6
<1>10. r \o wire[m] \in Seq(Nat) /\ sent[m] = sent[k] \o (r \o wire[m])
  <2>1. (sent[k] \o r) \o wire[m] = sent[k] \o (r \o wire[m])
    BY <1>9, Associative
  <2>2. r \o wire[m] \in Seq(Nat)
    BY <1>9, Concat
  <2> QED BY <1>8, <1>9, <2>1, <2>2
<1> QED BY <1>4, <1>10 DEF Q

\* The first bytes of two sequences one after the other.
LEMMA FirstOfConcat ==
    ASSUME NEW s \in Seq(Nat), NEW t \in Seq(Nat), NEW n \in Nat, n <= Len(s) + Len(t)
    PROVE  /\ n <= Len(s) => SubSeq(s \o t, 1, n) = SubSeq(s, 1, n)
           /\ n >= Len(s) => /\ SubSeq(s \o t, 1, n) = s \o SubSeq(t, 1, n - Len(s))
                             /\ SubSeq(t, 1, n - Len(s)) \in Seq(Nat)
                             /\ Len(SubSeq(t, 1, n - Len(s))) = n - Len(s)
<1> DEFINE c == s \o t
           l == Len(s)
           k == Len(t)
           x == SubSeq(c, 1, n)
<1>1. /\ c \in Seq(Nat) /\ Len(c) = l + k /\ l \in Nat /\ k \in Nat
      /\ \A i \in 1..l : c[i] = s[i]
      /\ \A i \in 1..k : c[l + i] = t[i]
  BY Concat
<1> HIDE DEF c
<1>2. x \in Seq(Nat) /\ Len(x) = n /\ \A i \in 1..n : x[i] = c[i]
  BY <1>1, Prefix
<1> HIDE DEF x
<1>3. ASSUME n <= l PROVE x = SubSeq(s, 1, n)
  <2> DEFINE y == SubSeq(s, 1, n)
  <2>1. y \in Seq(Nat) /\ Len(y) = n /\ \A i \in 1..n : y[i] = s[i]
    BY <1>3, Prefix
  <2> HIDE DEF y, l
  <2>2. ASSUME NEW i \in 1..n PROVE x[i] = y[i]
    <3>1. i \in 1..l
      BY <1>1, <1>3, SMTT(60)
    <3> QED BY <1>1, <1>2, <2>1, <3>1
  <2>3. x = y
    BY <1>2, <2>1, <2>2, SeqEqual
  <2> QED BY <2>3 DEF y
<1>4. ASSUME n >= l
      PROVE  /\ x = s \o SubSeq(t, 1, n - l)
             /\ SubSeq(t, 1, n - l) \in Seq(Nat) /\ Len(SubSeq(t, 1, n - l)) = n - l
  <2> DEFINE m == n - l
             y == SubSeq(t, 1, m)
             z == s \o y
  <2>1. m \in Nat /\ m <= k /\ n = l + m
    <3> HIDE DEF l, k
    <3> QED BY <1>1, <1>4, SMTT(60) DEF l, k
  <2> HIDE DEF m
  <2>2. y \in Seq(Nat) /\ Len(y) = m /\ \A i \in 1..m : y[i] = t[i]
    BY <2>1, Prefix
  <2> HIDE DEF y
  <2>3. /\ z \in Seq(Nat) /\ Len(z) = l + m
        /\ \A i \in 1..l : z[i] = s[i]
        /\ \A i \in 1..m : z[l + i] = y[i]
    BY <2>2, Concat
  <2> HIDE DEF z, l, k
  <2>4. ASSUME NEW i \in 1..n PROVE x[i] = z[i]
    <3>1. CASE i <= l
      BY <1>1, <1>2, <2>1, <2>3, <3>1, SMTT(60)
    <3>2. CASE ~(i <= l)
      <4> DEFINE j == i - l
      <4>1. j \in 1..m /\ j \in 1..k /\ i = l + j
        BY <1>1, <2>1, <3>2, SMTT(60)
      <4> HIDE DEF j
      <4>2. x[i] = t[j]
        BY <1>1, <1>2, <4>1
      <4>3. z[i] = t[j]
        BY <2>2, <2>3, <4>1
      <4> QED BY <4>2, <4>3
    <3> QED BY <3>1, <3>2
  <2>5. x = z
    BY <1>2, <2>1, <2>3, <2>4, SeqEqual
  <2> QED BY <2>2, <2>5 DEF y, z, m
<1> QED BY <1>3, <1>4 DEF x, c

\* A decoder that has the first k of the frames, with nothing pending.
Has(frame, k) == [frames |-> [j \in 1..k |-> frame[j]], error |-> "None", buffer |-> <<>>]

LEMMA HasDecoder ==
    ASSUME NEW N \in Nat, NEW frame \in [1..N -> ValidFrame], NEW k \in 0..N
    PROVE  /\ Has(frame, k) \in Decoder /\ Has(frame, k).error = "None"
           /\ Has(frame, k).buffer = <<>> /\ Has(frame, k).frames = [j \in 1..k |-> frame[j]]
<1> DEFINE q == [j \in 1..k |-> frame[j]]
<1>1. \A j \in 1..k : frame[j] \in DecodedFrame
  BY SMTT(60) DEF ValidFrame
<1>2. q \in Seq(DecodedFrame)
  BY <1>1, SMTT(60)
<1>3. <<>> \in Seq(Nat)
  BY SMTT(60)
<1> HIDE DEF q
<1>4. Has(frame, k) = [frames |-> q, error |-> "None", buffer |-> <<>>]
  BY DEF Has, q
<1>5. Has(frame, k) \in Decoder
  BY <1>2, <1>3, <1>4, SMTT(60) DEF Decoder
<1> QED BY <1>4, <1>5, SMTT(60) DEF q

\* Frames sent one after the other are decoded one after the other, and what
\* follows them as if it were all there was.
LEMMA GoodStream ==
    ASSUME NEW N \in Nat, NEW wire \in [1..N -> Seq(Nat)], NEW sent, Sends(sent, wire, N),
           NEW frame \in [1..N -> ValidFrame], NEW k \in 0..N,
           \A j \in 1..k : wire[j] = encode_frame(frame[j]),
           NEW rest \in Seq(Nat)
    PROVE  feed(reset, sent[k] \o rest) = feed(Has(frame, k), rest)
<1> DEFINE Q(m) == \A s \in Seq(Nat) : feed(reset, sent[m] \o s) = feed(Has(frame, m), s)
           S == {m \in 0..k : ~Q(m)}
<1>1. /\ \A j \in 0..N : sent[j] \in Seq(Nat)
      /\ \A j \in 1..N : sent[j] = sent[j - 1] \o wire[j] /\ wire[j] \in Seq(Nat)
      /\ sent[0] = <<>>
  BY DEF Sends
<1>2. Q(0)
  <2>1. \A s \in Seq(Nat) : <<>> \o s = s
    BY Concat
  <2>2. [j \in 1..0 |-> frame[j]] = <<>>
    BY SMTT(60)
  <2>3. Has(frame, 0) = reset
    BY <2>2 DEF Has, reset
  <2> QED BY <1>1, <2>1, <2>3
<1>3. ASSUME NEW m \in 1..k, Q(m - 1) PROVE Q(m)
  <2> SUFFICES ASSUME NEW s \in Seq(Nat)
               PROVE  feed(reset, sent[m] \o s) = feed(Has(frame, m), s)
    OBVIOUS
  <2> DEFINE f == frame[m]
             h == Has(frame, m - 1)
  <2>1. m \in 1..N /\ m - 1 \in 0..N /\ m \in 0..N
    BY SMTT(60)
  <2>2. /\ sent[m - 1] \in Seq(Nat) /\ wire[m] \in Seq(Nat) /\ sent[m] = sent[m - 1] \o wire[m]
        /\ f \in ValidFrame /\ wire[m] = encode_frame(f)
    BY <1>1, <2>1
  <2>3. sent[m] \o s = sent[m - 1] \o (wire[m] \o s) /\ wire[m] \o s \in Seq(Nat)
    <3>1. (sent[m - 1] \o wire[m]) \o s = sent[m - 1] \o (wire[m] \o s)
      BY <2>2, Associative
    <3>2. wire[m] \o s \in Seq(Nat)
      BY <2>2, Concat
    <3> QED BY <2>2, <3>1, <3>2
  <2>4. feed(reset, sent[m] \o s) = feed(h, wire[m] \o s)
    BY <1>3, <2>3
  <2>5. /\ h \in Decoder /\ h.error = "None" /\ h.buffer = <<>>
        /\ h.frames = [j \in 1..(m - 1) |-> frame[j]]
    BY <2>1, HasDecoder
  <2>6. feed(h, encode_frame(f) \o s) = feed([h EXCEPT !.frames = Append(@, f)], s)
    <3> HIDE DEF h, f
    <3> QED BY <2>2, <2>5, FrameRead
  <2>7. [h EXCEPT !.frames = Append(@, f)] = Has(frame, m)
    <3> DEFINE q == [j \in 1..(m - 1) |-> frame[j]]
    <3>1. Append(q, f) = [j \in 1..m |-> frame[j]]
      <4>1. q \in Seq(ValidFrame) /\ Len(q) = m - 1
        BY <2>1, SMTT(60)
      <4>2. [j \in 1..m |-> frame[j]] \in Seq(ValidFrame)
        BY <2>1, SMTT(60)
      <4> QED BY <2>1, <4>1, <4>2, SMTT(60)
    <3> DEFINE e == Has(frame, m)
    <3>2. /\ e \in Decoder /\ e.error = "None" /\ e.buffer = <<>>
          /\ e.frames = [j \in 1..m |-> frame[j]]
      BY <2>1, HasDecoder
    <3>3. e.frames = Append(h.frames, f)
      BY <2>5, <3>1, <3>2
    <3> HIDE DEF e, h
    <3>4. e = [h EXCEPT !.frames = Append(@, f)]
      BY <2>5, <3>2, <3>3 DEF Decoder
    <3> QED BY <3>4 DEF e
  <2> QED BY <2>2, <2>4, <2>6, <2>7
<1> HIDE DEF Q
<1>4. S = {}
  <2> SUFFICES ASSUME S # {} PROVE FALSE
    OBVIOUS
  <2>1. PICK m \in S : \A j \in S : m <= j
    <3>1. S \subseteq Nat
      BY SMTT(60)
    <3> HIDE DEF S
    <3> QED BY <3>1, Least
  <2>2. m \in 0..k /\ ~Q(m)
    OBVIOUS
  <2>3. m # 0
    BY <1>2, <2>2
  <2>4. m \in 1..k /\ m - 1 \in 0..k
    BY <2>2, <2>3, SMTT(60)
  <2>5. m - 1 \notin S
    <3> HIDE DEF S
    <3> QED BY <2>1, <2>2, <2>4, SMTT(60)
  <2> QED BY <1>3, <2>2, <2>4, <2>5
<1>5. Q(k)
  BY <1>4, SMTT(60)
<1> QED BY <1>5 DEF Q

\* Less than a header is kept for the next recv.
LEMMA ShortWaits ==
    ASSUME NEW d \in Decoder, d.error = "None", d.buffer = <<>>, NEW b \in Seq(Nat), Len(b) < 2
    PROVE  feed(d, b).frames = d.frames /\ feed(d, b).error = "None"
<1> DEFINE e == Plus(d, b)
<1>1. e \in Decoder /\ e.frames = d.frames /\ e.error = "None" /\ e.buffer = b
  <2>1. <<>> \o b = b
    BY Concat
  <2> QED BY <2>1, PlusFields
<1>2. feed(d, b) = parse_available(e)
  BY Fed
<1> HIDE DEF e
<1>3. Len(b) \in Nat /\ ~(Len(b) >= 2)
  BY LenProperties, SMTT(60)
<1>4. Settled(e)
  BY <1>1, <1>3, Turn DEF Settled, Whole, Bad, kHeaderSize
<1> QED BY <1>1, <1>2, <1>4, ParseSettled

\* N messages: frames, and bad headers.
Messages(wire, frame, good, N) ==
    /\ wire \in [1..N -> Seq(Nat)] /\ frame \in [1..N -> ValidFrame] /\ good \in SUBSET (1..N)
    /\ \A j \in good : wire[j] = encode_frame(frame[j])
    /\ \A j \in (1..N) \ good : Len(wire[j]) = 2 /\ decode_header(wire[j]) # "None"

\* Of these messages the first k end within n bytes; then comes a bad header, or one
\* that does not end there, or nothing.
EndWithin(sent, good, N, n, k) ==
    /\ k \in 0..N /\ 1..k \subseteq good /\ Len(sent[k]) <= n
    /\ k < N => k + 1 \notin good \/ n < Len(sent[k + 1])

\* The decoder has the first k frames, and an error if a bad header has come.
Yields(d, frame, sent, N, n, k) ==
    /\ d.frames = [j \in 1..k |-> frame[j]]
    /\ (d.error = "None") <=> ~(k < N /\ Len(sent[k + 1]) <= n)

\* What FrameDecoder makes of the first n bytes of any stream of messages, frames
\* or bad headers, however recv cuts them: exactly the frames that have ended
\* before the first bad header, in order and nothing from the bytes of a message
\* that has not ended, and an error if and only if a bad header has.
THEOREM StreamDecoded ==
    ASSUME NEW N \in Nat, NEW wire, NEW frame, NEW good, Messages(wire, frame, good, N),
           NEW sent, Sends(sent, wire, N), NEW n \in Nat, n <= Len(sent[N]),
           NEW k, EndWithin(sent, good, N, n, k), NEW cuts
    PROVE  Yields(Received(SubSeq(sent[N], 1, n), cuts), frame, sent, N, n, k)
<1>0. /\ wire \in [1..N -> Seq(Nat)] /\ frame \in [1..N -> ValidFrame] /\ good \in SUBSET (1..N)
      /\ \A j \in good : wire[j] = encode_frame(frame[j])
      /\ \A j \in (1..N) \ good : Len(wire[j]) = 2 /\ decode_header(wire[j]) # "None"
      /\ k \in 0..N /\ 1..k \subseteq good /\ Len(sent[k]) <= n
      /\ k < N => k + 1 \notin good \/ n < Len(sent[k + 1])
  BY DEF Messages, EndWithin
<1> USE <1>0
<1> DEFINE b == SubSeq(sent[N], 1, n)
           d == Received(b, cuts)
           h == Has(frame, k)
<1>1. /\ \A j \in 0..N : sent[j] \in Seq(Nat) /\ Len(sent[j]) \in Nat
      /\ \A j \in 1..N : sent[j] = sent[j - 1] \o wire[j] /\ wire[j] \in Seq(Nat)
  <2>1. sent \in [0..N -> Seq(Nat)] /\ \A j \in 1..N : sent[j] = sent[j - 1] \o wire[j]
    BY DEF Sends
  <2>2. ASSUME NEW j \in 0..N PROVE sent[j] \in Seq(Nat) /\ Len(sent[j]) \in Nat
    <3>1. sent[j] \in Seq(Nat)
      BY <2>1
    <3> QED BY <3>1, LenProperties
  <2>3. ASSUME NEW j \in 1..N PROVE wire[j] \in Seq(Nat)
    OBVIOUS
  <2> QED BY <2>1, <2>2, <2>3
<1>2. b \in Seq(Nat)
  <2>1. N \in 0..N
    BY SMTT(60)
  <2>2. sent[N] \in Seq(Nat) /\ Len(sent[N]) \in Nat /\ n \in 0..Len(sent[N])
    BY <1>1, <2>1, SMTT(60)
  <2> HIDE DEF b
  <2> QED BY <2>2, Prefix DEF b
<1>3. SameOutcome(d, feed(reset, b))
  <2> HIDE DEF b
  <2> QED BY <1>2, CutsUnseen
<1>4. /\ h \in Decoder /\ h.error = "None" /\ h.buffer = <<>>
      /\ h.frames = [j \in 1..k |-> frame[j]]
  BY HasDecoder
<1>5. \A j \in 1..k : wire[j] = encode_frame(frame[j])
  OBVIOUS
<1> SUFFICES ASSUME NEW rest \in Seq(Nat), b = sent[k] \o rest,
                    Len(rest) = n - Len(sent[k]),
                    k < N => \E r \in Seq(Nat) :
                               /\ Len(rest) <= Len(wire[k + 1]) + Len(r)
                               /\ rest = SubSeq(wire[k + 1] \o r, 1, Len(rest))
             PROVE  /\ d.frames = h.frames
                    /\ (d.error = "None") <=> ~(k < N /\ Len(sent[k + 1]) <= n)
  <2>1. PICK r \in Seq(Nat) : sent[N] = sent[k] \o r
    <3>1. N \in 0..N /\ k <= N
      BY SMTT(60)
    <3>2. Begins(sent[k], sent[N])
      BY <3>1, SentGrows
    <3> QED BY <3>2 DEF Begins
  <2> DEFINE s == sent[k]
             rest == SubSeq(r, 1, n - Len(s))
  <2>2. s \in Seq(Nat) /\ Len(s) \in Nat /\ Len(r) \in Nat /\ sent[N] = s \o r
        /\ Len(sent[N]) = Len(s) + Len(r) /\ n <= Len(s) + Len(r) /\ n >= Len(s)
    <3>1. s \in Seq(Nat) /\ Len(s) \in Nat /\ sent[N] = s \o r
      BY <1>1, <2>1
    <3>2. Len(s \o r) = Len(s) + Len(r) /\ Len(r) \in Nat
      BY <3>1, Concat
    <3> QED BY <3>1, <3>2
  <2>3. b = s \o rest /\ rest \in Seq(Nat) /\ Len(rest) = n - Len(s)
    <3> HIDE DEF s
    <3>1. SubSeq(s \o r, 1, n) = s \o SubSeq(r, 1, n - Len(s))
          /\ SubSeq(r, 1, n - Len(s)) \in Seq(Nat) /\ Len(SubSeq(r, 1, n - Len(s))) = n - Len(s)
      BY <2>2, FirstOfConcat
    <3>2. b = SubSeq(s \o r, 1, n)
      BY <2>2
    <3> HIDE DEF b
    <3> QED BY <3>1, <3>2
  <2>4. ASSUME k < N
        PROVE  \E r2 \in Seq(Nat) : /\ Len(rest) <= Len(wire[k + 1]) + Len(r2)
                                     /\ rest = SubSeq(wire[k + 1] \o r2, 1, Len(rest))
    <3> DEFINE w == wire[k + 1]
    <3>1. k + 1 \in 1..N /\ k + 1 \in 0..N /\ (k + 1) - 1 = k /\ N \in 0..N /\ k + 1 <= N
      <4>1. k \in Nat /\ k < N
        BY <2>4, SMTT(60)
      <4> QED BY <4>1, SMTT(60)
    <3>2. w \in Seq(Nat) /\ sent[k + 1] = s \o w
      BY <1>1, <3>1
    <3>3. PICK r2 \in Seq(Nat) : sent[N] = sent[k + 1] \o r2
      <4>1. Begins(sent[k + 1], sent[N])
        BY <3>1, SentGrows
      <4> QED BY <4>1 DEF Begins
    <3> HIDE DEF s, w
    <3>4. (s \o w) \o r2 = s \o (w \o r2) /\ w \o r2 \in Seq(Nat)
      <4>1. (s \o w) \o r2 = s \o (w \o r2)
        BY <2>2, <3>2, Associative
      <4>2. w \o r2 \in Seq(Nat)
        BY <3>2, Concat
      <4> QED BY <4>1, <4>2
    <3>5. s \o r = s \o (w \o r2)
      BY <2>2, <3>2, <3>3, <3>4
    <3>6. r = w \o r2
      BY <2>2, <3>4, <3>5, ConcatSimplifications
    <3>7. Len(r) = Len(w) + Len(r2)
      BY <3>2, <3>6, Concat
    <3>8. Len(rest) <= Len(w) + Len(r2)
      BY <2>2, <2>3, <3>7, SMTT(60)
    <3>9. rest = SubSeq(w \o r2, 1, Len(rest))
      BY <2>3, <3>6
    <3> QED BY <3>8, <3>9 DEF w
  <2> HIDE DEF rest, s, d, b
  <2>5. d.frames = h.frames /\ ((d.error = "None") <=> ~(k < N /\ Len(sent[k + 1]) <= n))
    BY <2>3, <2>4 DEF s
  <2> QED BY <1>4, <2>5 DEF Yields, d, b
<1>6. feed(reset, b) = feed(h, rest)
  <2> HIDE DEF b
  <2> QED BY <1>5, GoodStream
<1> DEFINE e == feed(h, rest)
<1>7. d.frames = e.frames /\ d.error = e.error
  BY <1>3, <1>6 DEF SameOutcome
<1> HIDE DEF b, d, h
<1>8. CASE k = N
  <2>1. Len(rest) = 0
    BY <1>1, <1>8, SMTT(60)
  <2>2. e.frames = h.frames /\ e.error = "None"
    <3>1. Len(rest) < 2
      BY <2>1, SMTT(60)
    <3> QED BY <1>4, <3>1, ShortWaits
  <2> QED BY <1>7, <1>8, <2>2, SMTT(60)
<1>9. CASE k # N
  <2> DEFINE w == wire[k + 1]
             m == Len(rest)
  <2>1. k < N /\ k + 1 \in 1..N /\ k + 1 \in 0..N /\ (k + 1) - 1 = k /\ k \in 0..N
    BY <1>9, SMTT(60)
  <2>2. PICK r \in Seq(Nat) : m <= Len(w) + Len(r) /\ rest = SubSeq(w \o r, 1, m)
    BY <2>1
  <2>3. w \in Seq(Nat) /\ sent[k + 1] = sent[k] \o w /\ sent[k] \in Seq(Nat)
    BY <1>1, <2>1
  <2>4. /\ Len(sent[k + 1]) = Len(sent[k]) + Len(w) /\ Len(w) \in Nat /\ m \in Nat
        /\ Len(sent[k]) \in Nat /\ Len(r) \in Nat
    <3> HIDE DEF w
    <3>1. Len(sent[k] \o w) = Len(sent[k]) + Len(w) /\ Len(w) \in Nat /\ Len(sent[k]) \in Nat
      BY <2>3, Concat
    <3> QED BY <2>3, <3>1, LenProperties
  <2>5. Len(sent[k + 1]) <= n <=> Len(w) <= m
    <3> HIDE DEF w
    <3> QED BY <2>4, SMTT(60)
  <2>6. CASE Len(w) <= m
    <3>1. k + 1 \in (1..N) \ good
      <4> HIDE DEF w, m
      <4>1. ~(n < Len(sent[k + 1]))
        BY <2>4, <2>5, <2>6, SMTT(60)
      <4> QED BY <2>1, <4>1
    <3>2. Len(w) = 2 /\ decode_header(w) # "None"
      BY <3>1
    <3> DEFINE v == SubSeq(r, 1, m - Len(w))
    <3> HIDE DEF w, m
    <3>3. rest = w \o v /\ v \in Seq(Nat)
      <4>1. m \in Nat /\ m >= Len(w) /\ m <= Len(w) + Len(r)
        BY <2>2, <2>4, <2>6
      <4>2. SubSeq(w \o r, 1, m) = w \o v /\ v \in Seq(Nat)
        BY <2>3, <4>1, FirstOfConcat
      <4> QED BY <2>2, <4>2
    <3> HIDE DEF v
    <3>4. rest[1] = w[1] /\ rest[2] = w[2] /\ Len(rest) >= 2
      <4>1. 1 \in 1..Len(w) /\ 2 \in 1..Len(w)
        BY <3>2, SMTT(60)
      <4>2. (w \o v)[1] = w[1] /\ (w \o v)[2] = w[2]
            /\ Len(w \o v) = Len(w) + Len(v) /\ Len(v) \in Nat
        <5>1. /\ \A i \in 1..Len(w) : (w \o v)[i] = w[i]
              /\ Len(w \o v) = Len(w) + Len(v) /\ Len(v) \in Nat
          BY <2>3, <3>3, Concat
        <5> QED BY <4>1, <5>1
      <4>3. Len(w) + Len(v) >= 2
        BY <3>2, <4>2, SMTT(60)
      <4> QED BY <3>3, <4>2, <4>3
    <3>5. decode_header(rest) # "None"
      BY <3>2, <3>4 DEF decode_header
    <3>6. e.frames = h.frames /\ e.error # "None"
      BY <1>4, <3>4, <3>5, BadHeaderStops DEF kHeaderSize
    <3> QED BY <1>7, <2>1, <2>5, <2>6, <3>6
  <2>7. CASE ~(Len(w) <= m)
    <3>1. m < Len(w) /\ m <= Len(w)
      <4> HIDE DEF w, m
      <4> QED BY <2>4, <2>7, SMTT(60)
    <3>2. rest = SubSeq(w, 1, m)
      <4> HIDE DEF w, m
      <4> QED BY <2>2, <2>3, <2>4, <3>1, FirstOfConcat, SMTT(60)
    <3>3. e.frames = h.frames /\ e.error = "None"
      <4>1. CASE k + 1 \in good
        <5> DEFINE f == frame[k + 1]
        <5>1. f \in ValidFrame /\ w = encode_frame(f)
          BY <2>1, <4>1
        <5>2. m \in 0..(Len(encode_frame(f)) - 1)
          <6> HIDE DEF w, m, f
          <6> QED BY <2>4, <3>1, <5>1, SMTT(60)
        <5>3. feed(h, SubSeq(encode_frame(f), 1, m)) = [h EXCEPT !.buffer = SubSeq(encode_frame(f), 1, m)]
          <6> HIDE DEF w, m, f
          <6>1. \A i \in 0..(Len(encode_frame(f)) - 1) :
                   feed(h, SubSeq(encode_frame(f), 1, i)) = [h EXCEPT !.buffer = SubSeq(encode_frame(f), 1, i)]
            BY <1>4, <5>1, PartialFrameWaits
          <6> QED BY <5>2, <6>1
        <5>4. e = [h EXCEPT !.buffer = rest]
          <6> HIDE DEF m, f
          <6> QED BY <3>2, <5>1, <5>3
        <5> HIDE DEF e
        <5> QED BY <1>4, <5>4 DEF Decoder
      <4>2. CASE k + 1 \notin good
        <5>1. Len(w) = 2
          BY <2>1, <4>2
        <5>2. Len(rest) < 2
          <6> HIDE DEF w
          <6> QED BY <3>1, <5>1
        <5> QED BY <1>4, <5>2, ShortWaits
      <4> QED BY <4>1, <4>2
    <3> QED BY <1>7, <2>1, <2>5, <2>7, <3>3
  <2> QED BY <2>6, <2>7
<1> QED BY <1>8, <1>9

\* More messages are at least as many bytes.
LEMMA SentRises ==
    ASSUME NEW N \in Nat, NEW wire \in [1..N -> Seq(Nat)], NEW sent, Sends(sent, wire, N),
           NEW k \in 0..N, NEW n \in 0..N, k <= n
    PROVE  Len(sent[k]) \in Nat /\ Len(sent[n]) \in Nat /\ Len(sent[k]) <= Len(sent[n])
<1>1. Begins(sent[k], sent[n])
  BY SentGrows
<1>2. PICK r \in Seq(Nat) : sent[n] = sent[k] \o r
  BY <1>1 DEF Begins
<1>3. sent[k] \in Seq(Nat)
  BY DEF Sends
<1>4. Len(sent[k] \o r) = Len(sent[k]) + Len(r) /\ Len(sent[k]) \in Nat /\ Len(r) \in Nat
  BY <1>3, Concat
<1>5. Len(sent[n]) = Len(sent[k]) + Len(r)
  BY <1>2, <1>4
<1> QED BY <1>4, <1>5, SMTT(60)

-----------------------------------------------------------------------------
(* The messages of NetworkIpcInput. *)

\* The bytes of a message: a frame with a valid header, or a bad header.
LEMMA MessageBytes ==
    ASSUME NEW m \in Requests
    PROVE  /\ ~IsGarbage(m) => FrameOf(m) \in ValidFrame /\ Wire(m) = encode_frame(FrameOf(m))
           /\ IsGarbage(m) => Len(Wire(m)) = 2 /\ decode_header(Wire(m)) # "None"
           /\ Wire(m) \in Seq(Nat)
<1>1. CASE IsGarbage(m)
  <2>1. Wire(m) = <<9, 0>>
    BY <1>1 DEF Wire
  <2>2. <<9, 0>> \in Seq(Nat) /\ Len(<<9, 0>>) = 2 /\ <<9, 0>>[1] = 9
    BY SMTT(60)
  <2>3. decode_header(<<9, 0>>) = "InvalidHeader"
    BY <2>2, InputAssumption DEF decode_header, is_valid_message_type
  <2> QED BY <1>1, <2>1, <2>2, <2>3
<1>2. CASE ~IsGarbage(m)
  <2> DEFINE b == CHOOSE x \in Types : TRUE
             f == FrameOf(m)
  <2>1. b \in Types /\ b \in Nat
    BY InputAssumption, CodecAssumption
  <2>2. m \in {"hello", "subscribe", "snapshot", "ping", "command", "refused"}
    BY <1>2 DEF Requests, IsGarbage
  <2>3. Payload[m] \in Seq(Nat) /\ Len(Payload[m]) <= 2 /\ Len(Payload[m]) \in Nat
    <3>1. /\ <<>> \in Seq(Nat) /\ <<1>> \in Seq(Nat) /\ <<9>> \in Seq(Nat)
          /\ <<1, 0>> \in Seq(Nat) /\ <<1, 1>> \in Seq(Nat) /\ <<9, 1>> \in Seq(Nat)
      BY SMTT(60)
    <3>2. /\ Len(<<>>) <= 2 /\ Len(<<1>>) <= 2 /\ Len(<<9>>) <= 2
          /\ Len(<<1, 0>>) <= 2 /\ Len(<<1, 1>>) <= 2 /\ Len(<<9, 1>>) <= 2
      BY SMTT(60)
    <3>3. \/ Payload[m] = <<>> \/ Payload[m] = <<1>> \/ Payload[m] = <<9>>
          \/ Payload[m] = <<1, 0>> \/ Payload[m] = <<1, 1>> \/ Payload[m] = <<9, 1>>
      BY <2>2, SMTT(60) DEF Payload
    <3>4. Payload[m] \in Seq(Nat) /\ Len(Payload[m]) <= 2
      BY <3>1, <3>2, <3>3
    <3> QED BY <3>4, LenProperties
  <2>4. Len(Payload[m]) <= MaxPayload
    BY <2>3, InputAssumption, CodecAssumption, SMTT(60)
  <2>5. f = [type |-> b, payload |-> Payload[m]]
    BY DEF FrameOf
  <2> HIDE DEF b
  <2>6. f \in DecodedFrame /\ f.type = b /\ f.payload = Payload[m]
    BY <2>1, <2>3, <2>5, SMTT(60) DEF DecodedFrame
  <2>7. f \in ValidFrame
    BY <2>1, <2>4, <2>6 DEF ValidFrame
  <2>8. Wire(m) = encode_frame(f)
    BY <1>2 DEF Wire
  <2>9. encode_frame(f) \in Seq(Nat)
    <3> HIDE DEF f
    <3> QED BY <2>7, EncodedFrame
  <2> QED BY <1>2, <2>7, <2>8, <2>9
<1> QED BY <1>1, <1>2

\* The bytes of the first messages, as Decodes counts them.
Prefixes(msgs) ==
    CHOOSE sent : sent = [k \in 0..Len(msgs) |->
        IF k = 0 THEN <<>> ELSE sent[k - 1] \o Wire(msgs[k])]

\* That recursion is well defined.
LEMMA PrefixesDefined ==
    ASSUME NEW msgs \in Seq(Requests)
    PROVE  Sends(Prefixes(msgs), [j \in 1..Len(msgs) |-> Wire(msgs[j])], Len(msgs))
<1> DEFINE N == Len(msgs)
           D == Seq(Nat)
           wire == [j \in 1..N |-> Wire(msgs[j])]
           F == [n \in 1..N |-> [s \in D |-> s \o wire[n]]]
<1>1. N \in Nat /\ \A n \in 1..N : msgs[n] \in Requests
  BY ElementOfSeq, LenProperties
<1> HIDE DEF N
<1>2. \A n \in 1..N : wire[n] \in D /\ wire[n] = Wire(msgs[n])
  BY <1>1, MessageBytes
<1> HIDE DEF wire
<1>3. \A n \in 1..N, s \in D : s \o wire[n] \in D
  BY <1>2, Concat
<1>4. F \in [1..N -> [D -> D]]
  BY <1>3
<1>5. \A n \in 1..N, s \in D : F[n][s] = s \o wire[n]
  OBVIOUS
<1> HIDE DEF F
<1>6. PICK t \in [0..N -> D] : t[0] = <<>> /\ \A n \in 1..N : t[n] = F[n][t[n - 1]]
  <2>1. <<>> \in D /\ N \in Nat
    BY <1>1, SMTT(60)
  <2> HIDE DEF D
  <2>2. \E t : Unrolled(<<>>, F, D, t, N)
    BY <1>4, <2>1, BoundedRecursion
  <2> QED BY <2>2 DEF Unrolled
<1>7. ASSUME NEW n \in 1..N PROVE t[n] = t[n - 1] \o wire[n]
  <2>1. n - 1 \in 0..N
    BY <1>1, SMTT(60)
  <2>2. t[n - 1] \in D
    BY <2>1
  <2> QED BY <1>5, <1>6, <2>2
<1>8. t = [n \in 0..N |-> IF n = 0 THEN <<>> ELSE t[n - 1] \o Wire(msgs[n])]
  <2>1. ASSUME NEW n \in 0..N
        PROVE  t[n] = IF n = 0 THEN <<>> ELSE t[n - 1] \o Wire(msgs[n])
    <3>1. CASE n = 0
      BY <1>6, <3>1
    <3>2. CASE n # 0
      <4>1. n \in 1..N
        BY <1>1, <3>2, SMTT(60)
      <4> QED BY <1>2, <1>7, <3>2, <4>1
    <3> QED BY <3>1, <3>2
  <2> QED BY <2>1
<1> DEFINE A == Prefixes(msgs)
<1>9. A = [n \in 0..N |-> IF n = 0 THEN <<>> ELSE A[n - 1] \o Wire(msgs[n])]
  BY <1>8 DEF Prefixes, N
<1> HIDE DEF A
<1>10. A[0] = <<>> /\ \A n \in 1..N : A[n] = A[n - 1] \o wire[n]
  <2>1. 0 \in 0..N /\ \A n \in 1..N : n \in 0..N /\ n # 0
    BY <1>1, SMTT(60)
  <2> QED BY <1>2, <1>9, <2>1
<1>11. \A n \in 0..N : A[n] = t[n]
  <2> DEFINE S == {k \in 0..N : A[k] # t[k]}
  <2> SUFFICES ASSUME S # {} PROVE FALSE
    OBVIOUS
  <2>1. PICK k \in S : \A j \in S : k <= j
    <3>1. S \subseteq Nat
      BY <1>1, SMTT(60)
    <3> HIDE DEF S
    <3> QED BY <3>1, Least
  <2>2. k \in 0..N /\ A[k] # t[k]
    OBVIOUS
  <2>3. k \in 1..N /\ k - 1 \in 0..N /\ ~(k <= k - 1)
    BY <1>1, <1>6, <1>10, <2>2, SMTT(60)
  <2>4. A[k - 1] = t[k - 1]
    BY <2>1, <2>3
  <2> QED BY <1>7, <1>10, <2>2, <2>3, <2>4
<1>12. A \in [0..N -> D]
  <2>1. \A n \in 0..N : A[n] \in D
    BY <1>6, <1>11
  <2>2. A = [n \in 0..N |-> A[n]]
    BY <1>9
  <2> HIDE DEF D
  <2> QED BY <2>1, <2>2
<1> QED BY <1>10, <1>12 DEF Sends, A, N, wire

\* A set of numbers up to N that is not empty has a greatest one.
LEMMA Greatest ==
    ASSUME NEW N \in Nat, NEW S, S \subseteq 0..N, S # {}
    PROVE  \E n \in S : \A k \in S : k <= n
<1> DEFINE T == {x \in 0..N : N - x \in S}
<1>1. PICK s \in S : TRUE
  OBVIOUS
<1>2. s \in 0..N /\ N - s \in 0..N /\ N - (N - s) = s
  BY SMTT(60)
<1>3. N - s \in T
  BY <1>1, <1>2
<1>4. T \subseteq Nat /\ T # {}
  BY <1>3, SMTT(60)
<1>5. \A x \in T : x \in Nat /\ N - x \in S
  BY SMTT(60)
<1>6. ASSUME NEW k \in S PROVE k \in 0..N /\ N - k \in T
  <2>1. k \in 0..N /\ N - k \in 0..N /\ N - (N - k) = k
    BY SMTT(60)
  <2> QED BY <2>1
<1> HIDE DEF T
<1>7. PICK x \in T : \A k \in T : x <= k
  BY <1>4, Least
<1>8. x \in Nat /\ N - x \in S
  BY <1>5
<1>9. ASSUME NEW k \in S PROVE k <= N - x
  <2>1. k \in Nat /\ x <= N - k
    BY <1>6, <1>7, SMTT(60)
  <2> QED BY <1>8, <2>1, SMTT(60)
<1> QED BY <1>8, <1>9

\* What a client sends decodes: the messages of NetworkIpcInput for StreamDecoded.
LEMMA MessagesDecoded ==
    ASSUME NEW msgs \in Seq(Requests)
    PROVE  Decodes(msgs)
<1> DEFINE N == Len(msgs)
           sent == Prefixes(msgs)
           Good(i) == \A j \in 1..i : ~IsGarbage(msgs[j])
<1> SUFFICES ASSUME NEW n \in 0..Len(sent[N]), NEW cuts \in SUBSET (1..(n - 1))
             PROVE  LET d    == Received(SubSeq(sent[N], 1, n), cuts)
                        ends == {i \in 0..N : Len(sent[i]) <= n}
                    IN  /\ \E k \in ends : /\ Good(k) /\ \A j \in ends : Good(j) => j <= k
                                           /\ d.frames = [j \in 1..k |-> FrameOf(msgs[j])]
                        /\ (d.error = "None") <=> (\A j \in ends : Good(j))
  BY DEF Decodes, Prefixes
<1> DEFINE wire == [j \in 1..N |-> Wire(msgs[j])]
           frame == [j \in 1..N |-> IF IsGarbage(msgs[j]) THEN FrameOf("hello") ELSE FrameOf(msgs[j])]
           good == {j \in 1..N : ~IsGarbage(msgs[j])}
           d == Received(SubSeq(sent[N], 1, n), cuts)
           ends == {i \in 0..N : Len(sent[i]) <= n}
<1>1. N \in Nat /\ \A j \in 1..N : msgs[j] \in Requests
  BY ElementOfSeq, LenProperties
<1>2. Sends(sent, wire, N)
  BY PrefixesDefined
<1>3. FrameOf("hello") \in ValidFrame
  <2>1. "hello" \in Requests /\ ~IsGarbage("hello")
    BY DEF Requests, IsGarbage
  <2> QED BY <2>1, MessageBytes
<1> HIDE DEF N, sent
<1>4. /\ wire \in [1..N -> Seq(Nat)]
      /\ \A j \in 1..N : wire[j] = Wire(msgs[j])
  BY <1>1, MessageBytes
<1>5. /\ frame \in [1..N -> ValidFrame]
      /\ \A j \in good : frame[j] = FrameOf(msgs[j])
  BY <1>1, <1>3, MessageBytes
<1>6. /\ good \in SUBSET (1..N)
      /\ \A j \in 1..N : j \in good <=> ~IsGarbage(msgs[j])
  OBVIOUS
<1> HIDE DEF wire, frame, good
<1>7. \A j \in good : wire[j] = encode_frame(frame[j])
  <2> TAKE j \in good
  <2>1. j \in 1..N /\ ~IsGarbage(msgs[j]) /\ msgs[j] \in Requests
    BY <1>1, <1>6
  <2> QED BY <1>4, <1>5, <2>1, MessageBytes
<1>8. \A j \in (1..N) \ good : Len(wire[j]) = 2 /\ decode_header(wire[j]) # "None"
  <2> TAKE j \in (1..N) \ good
  <2>1. j \in 1..N /\ IsGarbage(msgs[j]) /\ msgs[j] \in Requests
    BY <1>1, <1>6
  <2> QED BY <1>4, <2>1, MessageBytes
<1>9. \A i \in 0..N : Good(i) <=> 1..i \subseteq good
  <2> TAKE i \in 0..N
  <2>1. \A j \in 1..i : j \in 1..N
    BY <1>1, SMTT(60)
  <2> QED BY <1>6, <2>1
<1>10. \A i \in 0..N : i \in ends <=> Len(sent[i]) <= n
  OBVIOUS
<1>11. Len(sent[N]) \in Nat /\ n \in Nat /\ n <= Len(sent[N]) /\ Len(sent[0]) <= n
  <2>1. 0 \in 0..N /\ N \in 0..N /\ N <= N
    BY <1>1, SMTT(60)
  <2>2. Len(sent[N]) \in Nat
    BY <1>1, <1>2, <1>4, <2>1, SentRises
  <2>3. sent[0] = <<>>
    BY <1>2 DEF Sends
  <2> QED BY <2>2, <2>3, SMTT(60)
<1>12. PICK k \in {i \in ends : Good(i)} : \A j \in {i \in ends : Good(i)} : j <= k
  <2> DEFINE S == {i \in ends : Good(i)}
  <2>1. S \subseteq 0..N
    OBVIOUS
  <2>2. 0 \in 0..N /\ 1..0 \subseteq good
    BY <1>1, SMTT(60)
  <2>3. 0 \in S
    BY <1>9, <1>10, <1>11, <2>2
  <2>4. S # {}
    BY <2>3
  <2> HIDE DEF S
  <2>5. \E i \in S : \A j \in S : j <= i
    BY <1>1, <2>1, <2>4, Greatest
  <2> QED BY <2>5 DEF S
<1>13. k \in ends /\ k \in 0..N /\ Len(sent[k]) <= n /\ Good(k) /\ 1..k \subseteq good
  BY <1>9, <1>10, <1>12
<1>14. \A j \in ends : Good(j) => j <= k
  BY <1>12
<1>15. \A j \in ends : j \in 0..N
  OBVIOUS
<1> HIDE DEF ends
<1>16. ASSUME k < N PROVE /\ k + 1 \in 0..N /\ k + 1 \in 1..N
                          /\ ~(Good(k + 1) /\ k + 1 \in ends)
  <2>1. k + 1 \in 0..N /\ k + 1 \in 1..N /\ ~(k + 1 <= k)
    BY <1>13, <1>16, <1>1, SMTT(60)
  <2> QED BY <1>14, <2>1
<1>17. k < N => k + 1 \notin good \/ n < Len(sent[k + 1])
  <2> SUFFICES ASSUME k < N, k + 1 \in good PROVE n < Len(sent[k + 1])
    OBVIOUS
  <2>1. k + 1 \in 0..N /\ k + 1 \in 1..N /\ ~(Good(k + 1) /\ k + 1 \in ends)
    BY <1>16
  <2>2. 1..(k + 1) \subseteq good
    <3>1. \A j \in 1..(k + 1) : j \in 1..k \/ j = k + 1
      BY <1>13, SMTT(60)
    <3> QED BY <1>13, <3>1
  <2>3. Good(k + 1)
    BY <1>9, <2>1, <2>2
  <2>4. ~(Len(sent[k + 1]) <= n)
    BY <1>10, <2>1, <2>3
  <2>5. k + 1 <= k + 1
    BY <2>1, SMTT(60)
  <2>6. Len(sent[k + 1]) \in Nat
    BY <1>1, <1>2, <1>4, <2>1, <2>5, SentRises
  <2> QED BY <1>11, <2>4, <2>6, SMTT(60)
<1>18. /\ d.frames = [j \in 1..k |-> frame[j]]
       /\ (d.error = "None") <=> ~(k < N /\ Len(sent[k + 1]) <= n)
  <2>1. Messages(wire, frame, good, N)
    BY <1>4, <1>5, <1>6, <1>7, <1>8 DEF Messages
  <2>2. EndWithin(sent, good, N, n, k)
    BY <1>13, <1>17 DEF EndWithin
  <2>3. Yields(d, frame, sent, N, n, k)
    BY <1>1, <1>2, <1>11, <2>1, <2>2, StreamDecoded
  <2> HIDE DEF d
  <2> QED BY <2>3 DEF Yields
<1> HIDE DEF d
<1>19. d.frames = [j \in 1..k |-> FrameOf(msgs[j])]
  <2>1. \A j \in 1..k : frame[j] = FrameOf(msgs[j])
    BY <1>5, <1>13
  <2> QED BY <1>18, <2>1
<1>20. ASSUME k < N, Len(sent[k + 1]) <= n PROVE ~(\A j \in ends : Good(j))
  <2>1. k + 1 \in ends /\ ~Good(k + 1)
    BY <1>10, <1>16, <1>20
  <2> QED BY <2>1
<1>21. ASSUME NEW j \in ends, ~Good(j) PROVE k < N /\ Len(sent[k + 1]) <= n
  <2>1. j \in 0..N /\ Len(sent[j]) <= n
    BY <1>10, <1>15
  <2>2. ~(j <= k)
    <3> SUFFICES ASSUME j <= k PROVE Good(j)
      BY <1>21
    <3>1. \A i \in 1..j : i \in 1..k
      BY <1>13, <2>1, SMTT(60)
    <3> QED BY <1>13, <3>1
  <2>3. k < N /\ k + 1 \in 0..N /\ k + 1 <= j
    BY <1>1, <1>13, <2>1, <2>2, SMTT(60)
  <2>4. Len(sent[k + 1]) \in Nat /\ Len(sent[j]) \in Nat /\ Len(sent[k + 1]) <= Len(sent[j])
    BY <1>1, <1>2, <1>4, <2>1, <2>3, SentRises
  <2> QED BY <1>11, <2>1, <2>3, <2>4, SMTT(60)
<1>22. (d.error = "None") <=> (\A j \in ends : Good(j))
  BY <1>18, <1>20, <1>21
<1> QED BY <1>13, <1>14, <1>19, <1>22 DEF d, ends

-----------------------------------------------------------------------------
(* A client has at most MaxInbox messages under way. *)

\* A session record with such an inbox.
Shaped(k) == DOMAIN k = DOMAIN NoConn /\ k.inbox \in Inboxes

InboxInv == DOMAIN conn = Consumers /\ \A c \in Consumers : Shaped(conn[c])

LEMMA InboxSeq ==
    \A i : i \in Inboxes <=> i \in Seq(Requests) /\ Len(i) <= MaxInbox
<1>1. MaxInbox \in Nat
  BY BoundAssumption
<1>2. ASSUME NEW i \in Inboxes PROVE i \in Seq(Requests) /\ Len(i) <= MaxInbox
  <2>1. PICK n \in 0..MaxInbox : i \in [1..n -> Requests]
    BY DEF Inboxes
  <2>2. i \in Seq(Requests) /\ Len(i) = n
    BY <1>1, <2>1, SMTT(60)
  <2> QED BY <1>1, <2>2, SMTT(60)
<1>3. ASSUME NEW i \in Seq(Requests), Len(i) <= MaxInbox PROVE i \in Inboxes
  <2>1. Len(i) \in 0..MaxInbox /\ i \in [1..Len(i) -> Requests]
    BY <1>1, <1>3, SMTT(60)
  <2> QED BY <2>1 DEF Inboxes
<1> QED BY <1>2, <1>3

\* One message less, one more.
LEMMA InboxMoves ==
    ASSUME NEW i \in Inboxes
    PROVE  /\ i # <<>> => Tail(i) \in Inboxes
           /\ \A m \in Requests : Len(i) < MaxInbox => Append(i, m) \in Inboxes
           /\ <<>> \in Inboxes
<1>1. MaxInbox \in Nat /\ i \in Seq(Requests) /\ Len(i) \in Nat /\ Len(i) <= MaxInbox
  BY BoundAssumption, InboxSeq, LenProperties
<1>2. ASSUME i # <<>> PROVE Tail(i) \in Inboxes
  <2>1. Tail(i) \in Seq(Requests) /\ Len(Tail(i)) = Len(i) - 1
    BY <1>1, <1>2, HeadTailProperties
  <2>2. Len(Tail(i)) <= MaxInbox
    BY <1>1, <2>1, SMTT(60)
  <2> QED BY <2>1, <2>2, InboxSeq
<1>3. ASSUME NEW m \in Requests, Len(i) < MaxInbox PROVE Append(i, m) \in Inboxes
  <2>1. Append(i, m) \in Seq(Requests) /\ Len(Append(i, m)) = Len(i) + 1
    BY <1>1, AppendProperties
  <2>2. Len(Append(i, m)) <= MaxInbox
    BY <1>1, <1>3, <2>1, SMTT(60)
  <2> QED BY <2>1, <2>2, InboxSeq
<1>4. <<>> \in Inboxes
  <2>1. <<>> \in Seq(Requests) /\ Len(<<>>) <= MaxInbox
    BY <1>1, SMTT(60)
  <2> QED BY <2>1, InboxSeq
<1> QED BY <1>2, <1>3, <1>4

\* Queueing and flushing leave the inbox alone.
LEMMA FieldsKept ==
    ASSUME NEW k, Shaped(k)
    PROVE  /\ \A x : Shaped([k EXCEPT !.out = x])
           /\ \A x : Shaped([k EXCEPT !.sock = x])
           /\ \A x : Shaped([k EXCEPT !.closed = x])
           /\ \A x : Shaped([k EXCEPT !.phase = x])
           /\ \A x : Shaped([k EXCEPT !.subscribed = x])
           /\ \A x : Shaped([k EXCEPT !.close_after_flush = x])
           /\ \A x \in Inboxes : Shaped([k EXCEPT !.inbox = x])
<1>1. DOMAIN NoConn = {"out", "phase", "subscribed", "inbox", "sock", "close_after_flush", "closed"}
  BY DEF NoConn
<1>2. DOMAIN k = {"out", "phase", "subscribed", "inbox", "sock", "close_after_flush", "closed"}
      /\ k.inbox \in Inboxes
  BY <1>1 DEF Shaped
<1> QED BY <1>1, <1>2 DEF Shaped

LEMMA SessionKept ==
    ASSUME NEW k, Shaped(k)
    PROVE  /\ \A f : Shaped(enqueue_frame(k, f))
           /\ Shaped(flush_client(k))
<1>1. \A f : Shaped(enqueue_frame(k, f))
  BY FieldsKept DEF enqueue_frame
<1>2. Shaped(flush_client(k))
  <2> DEFINE room == SockCap - Len(k.sock)
             n    == IF Len(k.out) < room THEN Len(k.out) ELSE room
             s    == k.sock \o SubSeq(k.out, 1, n)
             o    == consume(k.out, n)
             one  == [k EXCEPT !.sock = s]
             sent == [one EXCEPT !.out = o]
             x    == k.close_after_flush /\ sent.out = <<>>
             last == [sent EXCEPT !.closed = x]
  <2>1. flush_client(k) = IF k.closed THEN k ELSE last
    BY DEF flush_client
  <2> HIDE DEF room, n, s, o, x
  <2>2. Shaped(one)
    BY FieldsKept
  <2> HIDE DEF one
  <2>3. Shaped(sent)
    BY <2>2, FieldsKept
  <2> HIDE DEF sent
  <2>4. Shaped(last)
    BY <2>3, FieldsKept
  <2> QED BY <2>1, <2>4
<1> QED BY <1>1, <1>2

\* One session moves on; the others stay as they are.
LEMMA OneSession ==
    ASSUME InboxInv, NEW c \in Consumers, NEW l, Shaped(l), conn' = [conn EXCEPT ![c] = l]
    PROVE  InboxInv'
BY DEF InboxInv

\* A session that takes its next message.
LEMMA NextTaken ==
    ASSUME InboxInv, NEW c \in Consumers, Serviceable(c)
    PROVE  Shaped(Rest(c))
<1> DEFINE k == conn[c]
           i == Tail(k.inbox)
<1>1. Shaped(k) /\ k.inbox \in Inboxes /\ k.inbox # <<>>
  BY DEF InboxInv, Shaped, Serviceable
<1>2. i \in Inboxes
  <2> HIDE DEF k
  <2> QED BY <1>1, InboxMoves
<1>3. Rest(c) = [k EXCEPT !.inbox = i]
  BY DEF Rest
<1> HIDE DEF k, i
<1>4. \A x \in Inboxes : Shaped([k EXCEPT !.inbox = x])
  BY <1>1, FieldsKept
<1> QED BY <1>2, <1>3, <1>4

\* Every handler that answers or ends one session.
LEMMA ServiceKeeps ==
    ASSUME InboxInv, NEW c \in Consumers, Service(c)
    PROVE  InboxInv'
<1> DEFINE r == Rest(c)
<1>1. Serviceable(c)
  BY DEF Service, HandleV0, HandleGarbage, HandleHello, HandleRefused, HandlePing,
               HandleBusiness, HandleSnapshot, HandleSubscribe, Took
<1>2. Shaped(r)
  BY <1>1, NextTaken
<1>3. \A f : Shaped(enqueue_frame(r, f)) /\ Shaped(flush_client(enqueue_frame(r, f)))
  <2> HIDE DEF r
  <2> QED BY <1>2, SessionKept
<1>4. Shaped([r EXCEPT !.closed = TRUE])
  <2> HIDE DEF r
  <2> QED BY <1>2, FieldsKept
<1>5. \A f, p : Shaped(flush_client([enqueue_frame(r, f) EXCEPT !.phase = p]))
  <2> HIDE DEF r
  <2> QED BY <1>3, FieldsKept, SessionKept
<1>6. ASSUME NEW f, NEW p
      PROVE  Shaped(flush_client([enqueue_frame(r, f) EXCEPT !.phase = p,
                                                          !.close_after_flush = TRUE]))
  <2> DEFINE e == enqueue_frame(r, f)
             g == [e EXCEPT !.phase = p]
             h == [g EXCEPT !.close_after_flush = TRUE]
  <2>1. [e EXCEPT !.phase = p, !.close_after_flush = TRUE] = h
    OBVIOUS
  <2>2. Shaped(e)
    BY <1>3
  <2> HIDE DEF e
  <2>3. Shaped(g)
    BY <2>2, FieldsKept
  <2> HIDE DEF g
  <2>4. Shaped(h)
    BY <2>3, FieldsKept
  <2> HIDE DEF h
  <2>5. Shaped(flush_client(h))
    BY <2>4, SessionKept
  <2> QED BY <2>1, <2>5 DEF e
<1>7. ASSUME NEW l, Shaped(l), conn' = [conn EXCEPT ![c] = l] PROVE InboxInv'
  BY <1>7, OneSession
<1> HIDE DEF r
<1>8. CASE HandleV0(c)
  BY <1>6, <1>7, <1>8 DEF HandleV0, r
<1>9. CASE HandleGarbage(c)
  BY <1>4, <1>7, <1>9 DEF HandleGarbage, r
<1>10. CASE HandleHello(c)
  BY <1>5, <1>7, <1>10 DEF HandleHello, r
<1>11. CASE HandleRefused(c)
  BY <1>6, <1>7, <1>11 DEF HandleRefused, r
<1>12. CASE HandlePing(c)
  BY <1>3, <1>7, <1>12 DEF HandlePing, r
<1>13. CASE HandleBusiness(c)
  BY <1>3, <1>4, <1>7, <1>13 DEF HandleBusiness, r
<1>14. CASE HandleSnapshot(c)
  BY <1>3, <1>7, <1>14 DEF HandleSnapshot, r
<1>15. CASE HandleSubscribe(c)
  <2> DEFINE k  == [enqueue_frame(r, Answer("response")) EXCEPT !.subscribed = TRUE]
             cs == [conn EXCEPT ![c] = k]
             sent == broadcast_event(cs, "subscribed")
  <2>1. Shaped(k)
    BY <1>3, FieldsKept
  <2>2. \/ conn' = [cs EXCEPT ![c] = flush_client(k)]
        \/ conn' = [sent EXCEPT ![c] = flush_client(sent[c])]
        \/ conn' = [cs EXCEPT ![c] = [cs[c] EXCEPT !.closed = TRUE]]
    BY <1>15 DEF HandleSubscribe, r
  <2> HIDE DEF k
  <2>3. DOMAIN cs = Consumers /\ cs[c] = k /\ \A d \in Consumers : Shaped(cs[d])
    BY <2>1 DEF InboxInv
  <2> HIDE DEF cs
  <2>4. DOMAIN sent = Consumers /\ \A d \in Consumers : Shaped(sent[d])
    BY <2>3, SessionKept DEF broadcast_event
  <2> HIDE DEF sent
  <2>5. Shaped(flush_client(k)) /\ Shaped(flush_client(sent[c])) /\ Shaped([k EXCEPT !.closed = TRUE])
    BY <2>1, <2>4, SessionKept, FieldsKept
  <2>6. CASE conn' = [cs EXCEPT ![c] = flush_client(k)]
    BY <2>3, <2>5, <2>6 DEF InboxInv
  <2>7. CASE conn' = [sent EXCEPT ![c] = flush_client(sent[c])]
    BY <2>4, <2>5, <2>7 DEF InboxInv
  <2>8. CASE conn' = [cs EXCEPT ![c] = [cs[c] EXCEPT !.closed = TRUE]]
    <3> DEFINE l == [k EXCEPT !.closed = TRUE]
    <3>1. conn' = [cs EXCEPT ![c] = l]
      BY <2>3, <2>8
    <3> HIDE DEF l
    <3>2. Shaped(l)
      BY <2>5 DEF l
    <3> QED BY <2>3, <3>1, <3>2 DEF InboxInv
  <2> QED BY <2>2, <2>6, <2>7, <2>8
<1> QED BY <1>8, <1>9, <1>10, <1>11, <1>12, <1>13, <1>14, <1>15 DEF Service

\* Everything else leaves the inboxes alone, empties one, or sends a message while
\* there is room for it.
LEMMA InboxStep == InboxInv /\ [Next]_vars => InboxInv'
<1> SUFFICES ASSUME InboxInv, [Next]_vars PROVE InboxInv'
  OBVIOUS
<1>1. ASSUME conn' = conn PROVE InboxInv'
  BY <1>1 DEF InboxInv
<1>2. CASE observe_state
  <2>1. CASE next_seq = 0
    BY <1>1, <1>2, <2>1 DEF observe_state
  <2>2. CASE next_seq # 0
    <3>1. conn' = broadcast_event(conn, "changed")
      BY <1>2, <2>2 DEF observe_state
    <3> QED BY <3>1, SessionKept DEF broadcast_event, InboxInv
  <2> QED BY <2>1, <2>2
<1>3. CASE TruthChanges \/ UNCHANGED vars
  BY <1>1, <1>3 DEF TruthChanges, vars
<1>4. ASSUME NEW c \in Consumers,
             \/ Service(c) \/ Flush(c) \/ apply_deadlines(c) \/ cleanup_clients(c)
             \/ Accept(c) \/ ReceivePrefix(c) \/ Send(c) \/ SendStray(c) \/ Hangup(c)
             \/ ReadEvent(c) \/ ReadAnswer(c)
      PROVE  InboxInv'
  <2> DEFINE k == conn[c]
  <2>1. Shaped(k) /\ k.inbox \in Inboxes
    BY DEF InboxInv, Shaped
  <2>2. ASSUME NEW l, Shaped(l), conn' = [conn EXCEPT ![c] = l] PROVE InboxInv'
    BY <2>2, OneSession
  <2> HIDE DEF k
  <2>3. CASE Service(c)
    BY <2>3, ServiceKeeps
  <2>4. CASE Flush(c)
    <3>1. conn' = [conn EXCEPT ![c] = flush_client(k)]
      BY <2>4 DEF Flush, k
    <3> QED BY <2>1, <2>2, <3>1, SessionKept
  <2>5. CASE apply_deadlines(c) \/ Hangup(c)
    <3>1. conn' = [conn EXCEPT ![c] = [k EXCEPT !.closed = TRUE]]
      BY <2>5 DEF apply_deadlines, Hangup, k
    <3> QED BY <2>1, <2>2, <3>1, FieldsKept
  <2>6. CASE cleanup_clients(c)
    <3>1. Shaped(NoConn)
      BY <2>1, InboxMoves DEF Shaped, NoConn
    <3> QED BY <2>2, <2>6, <3>1 DEF cleanup_clients
  <2>7. CASE Accept(c)
    <3>1. conn' = conn \/ conn' = [conn EXCEPT ![c] = [k EXCEPT !.phase = "undecided"]]
      BY <2>7 DEF Accept, k
    <3> QED BY <1>1, <2>1, <2>2, <3>1, FieldsKept
  <2>8. CASE ReceivePrefix(c)
    <3>1. conn' = [conn EXCEPT ![c] = [k EXCEPT !.phase = "await_hello"]]
      BY <2>8 DEF ReceivePrefix, k
    <3> QED BY <2>1, <2>2, <3>1, FieldsKept
  <2>9. CASE Send(c) \/ SendStray(c)
    <3>1. PICK m \in Requests : Put(c, m)
      BY <2>9 DEF Send, SendStray, Requests
    <3> DEFINE i == Append(k.inbox, m)
    <3>2. conn' = [conn EXCEPT ![c] = [k EXCEPT !.inbox = i]] /\ Len(k.inbox) < MaxInbox
      BY <3>1 DEF Put, k
    <3>3. i \in Inboxes
      BY <2>1, <3>2, InboxMoves
    <3> HIDE DEF i
    <3>4. \A x \in Inboxes : Shaped([k EXCEPT !.inbox = x])
      BY <2>1, FieldsKept
    <3> QED BY <2>2, <3>2, <3>3, <3>4
  <2>10. CASE ReadEvent(c) \/ ReadAnswer(c)
    <3>1. conn' = [conn EXCEPT ![c] = [k EXCEPT !.sock = Tail(k.sock)]]
      BY <2>10 DEF ReadEvent, ReadAnswer, k
    <3> QED BY <2>1, <2>2, <3>1, FieldsKept
  <2> QED BY <1>4, <2>3, <2>4, <2>5, <2>6, <2>7, <2>8, <2>9, <2>10
<1> QED BY <1>2, <1>3, <1>4 DEF Next

\* Whatever a client has under way in the running server, and however recv cuts its
\* bytes, FrameDecoder hands the session exactly those messages, for every set of
\* clients, every inbox bound, every set of frame types and every payload limit.
THEOREM ClientsDecoded == Spec => []InboxDecodes
<1>1. Init => InboxInv
  <2> SUFFICES ASSUME Init PROVE InboxInv
    OBVIOUS
  <2>1. MaxInbox \in Nat /\ <<>> \in Seq(Requests) /\ Len(<<>>) = 0
    BY BoundAssumption, SMTT(60)
  <2>2. Len(<<>>) <= MaxInbox
    BY <2>1, SMTT(60)
  <2>3. <<>> \in Inboxes
    BY <2>1, <2>2, InboxSeq
  <2>4. Shaped(NoConn)
    BY <2>3 DEF Shaped, NoConn
  <2>5. conn = [c \in Consumers |-> NoConn]
    BY DEF Init
  <2> QED BY <2>4, <2>5 DEF InboxInv
<1>2. InboxInv => InboxDecodes
  <2> SUFFICES ASSUME InboxInv, NEW c \in Consumers PROVE conn[c].inbox \in Decoding
    BY DEF InboxDecodes
  <2> DEFINE i == conn[c].inbox
  <2>1. i \in Inboxes
    BY DEF InboxInv, Shaped
  <2> HIDE DEF i
  <2>2. Decodes(i)
    BY <2>1, InboxSeq, MessagesDecoded
  <2>3. i \in Decoding
    BY <2>1, <2>2 DEF Decoding
  <2> QED BY <2>3 DEF i
<1> QED BY <1>1, <1>2, InboxStep, PTL DEF Spec
=============================================================================
