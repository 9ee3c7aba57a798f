---------------------------- MODULE FrameDecoder -----------------------------
(***************************************************************************)
(* ipc_v1::FrameDecoder (src/src/ipc/network_ipc_v1_codec.cpp): frames cut *)
(* out of a byte stream that recv delivers in arbitrary chunks.            *)
(*                                                                         *)
(* A header is two bytes: one that stands for magic, version, type and     *)
(* flags and is in Types when all four are valid, and the payload length.  *)
(***************************************************************************)
EXTENDS Naturals, Sequences

CONSTANTS
    Types,         \* header bytes of valid frames
    MaxPayload     \* kMaxPayloadBytes

ASSUME CodecAssumption == Types \subseteq Nat /\ MaxPayload \in Nat

kHeaderSize == 2

is_valid_message_type(b) == b \in Types

decode_header(data) ==
    CASE ~is_valid_message_type(data[1]) -> "InvalidHeader"
      [] is_valid_message_type(data[1]) /\ data[2] > MaxPayload -> "PayloadTooLarge"
      [] OTHER -> "None"

encode_frame(frame) == <<frame.type, Len(frame.payload)>> \o frame.payload

\* FrameDecoder::reset.
reset == [frames |-> <<>>, error |-> "None", buffer |-> <<>>]

\* One turn of parse_available's loop.
parse_one(d) ==
    IF d.error # "None" \/ Len(d.buffer) < kHeaderSize THEN d
    ELSE LET error == decode_header(d.buffer)
             size  == kHeaderSize + d.buffer[2]
         IN  IF error # "None" THEN [d EXCEPT !.error = error]
             ELSE IF Len(d.buffer) < size THEN d
             ELSE [d EXCEPT
                     !.frames = Append(@, [type |-> d.buffer[1],
                                           payload |-> SubSeq(d.buffer, kHeaderSize + 1, size)]),
                     !.buffer = SubSeq(@, size + 1, Len(@))]

\* Mutant: one frame per call.
parse_available_Once(d) == parse_one(d)

\* Every turn takes a byte or is the last.
parse_available(d) ==
    LET turn[n \in Nat] == IF n = 0 THEN d ELSE parse_one(turn[n - 1])
    IN  turn[Len(d.buffer)]

feed(d, data) ==
    IF d.error # "None" THEN d ELSE parse_available([d EXCEPT !.buffer = @ \o data])

\* One more byte of the stream; recv returns what it has at a cut.
receive(u, byte, cut) ==
    LET chunk == Append(u.chunk, byte)
    IN  IF cut THEN [decoder |-> feed(u.decoder, chunk), chunk |-> <<>>]
        ELSE [decoder |-> u.decoder, chunk |-> chunk]

\* A fresh decoder after a stream that recv cuts at the positions in cuts.
Received(stream, cuts) ==
    LET after[n \in 0..Len(stream)] ==
            IF n = 0 THEN [decoder |-> reset, chunk |-> <<>>]
            ELSE receive(after[n - 1], stream[n], n \in cuts \/ n = Len(stream))
    IN  after[Len(stream)].decoder
=============================================================================
