--------------------------- MODULE NetworkIpcInput ---------------------------
(***************************************************************************)
(* The bytes behind the messages of NetworkIpcServer: what receive_client  *)
(* hands to a session when the stream of a client goes through             *)
(* FrameDecoder, cut anywhere.                                             *)
(***************************************************************************)
EXTENDS NetworkIpcServer, FrameDecoder

\* A frame has room for the payloads below, and 9 begins no frame.
ASSUME InputAssumption == Types # {} /\ 9 \notin Types /\ MaxPayload >= 2

\* The bytes of a message; payloads may look like headers, valid or not.
Payload == [hello |-> <<>>, subscribe |-> <<1>>, snapshot |-> <<9>>,
            ping |-> <<1, 0>>, command |-> <<1, 1>>, refused |-> <<9, 1>>]
FrameOf(m) == [type |-> CHOOSE b \in Types : TRUE, payload |-> Payload[m]]
Wire(m) == IF IsGarbage(m) THEN <<9, 0>> ELSE encode_frame(FrameOf(m))

\* Of the first n bytes of msgs, cut anywhere, FrameDecoder makes the frames
\* that end there, and an error if a bad header does.
Decodes(msgs) ==
    LET N == Len(msgs)
        sent[k \in 0..N] == IF k = 0 THEN <<>> ELSE sent[k - 1] \o Wire(msgs[k])
        Good(k) == \A j \in 1..k : ~IsGarbage(msgs[j])
    IN  \A n \in 0..Len(sent[N]) : \A cuts \in SUBSET (1..(n - 1)) :
          LET d    == Received(SubSeq(sent[N], 1, n), cuts)
              ends == {k \in 0..N : Len(sent[k]) <= n}
          IN  /\ \E k \in ends : /\ Good(k) /\ \A j \in ends : Good(j) => j <= k
                                 /\ d.frames = [j \in 1..k |-> FrameOf(msgs[j])]
              /\ (d.error = "None") <=> (\A j \in ends : Good(j))

Inboxes  == UNION {[1..n -> Requests] : n \in 0..MaxInbox}
Decoding == {msgs \in Inboxes : Decodes(msgs)}

\* Messages are whole frames to a session: whatever a client has under way, and
\* however recv cuts it, FrameDecoder yields exactly those messages in order,
\* nothing from the bytes of one that is still incomplete, and stops at the first
\* bad header.
InboxDecodes == \A c \in Consumers : conn[c].inbox \in Decoding
=============================================================================
