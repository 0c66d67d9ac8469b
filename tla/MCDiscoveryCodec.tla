--------------------------- MODULE MCDiscoveryCodec ---------------------------
(* A buffer that grows cell by cell, so that every short sequence of cells  *)
(* is read by both decoders, and the round trip of small values through     *)
(* both pairs.                                                              *)
EXTENDS DiscoveryCodec

CONSTANTS MaxCell,   \* bound on the cells of a buffer
          MaxLen     \* bound on the length of a buffer

(* A cell that is read as a length has the width of one, and the short     *)
(* strings below are short enough for theirs.                              *)
ASSUME BufferAssumption ==
  /\ MaxCell \in Nat
  /\ MaxLen \in Nat
  /\ MaxCell < LenMod
  /\ 2 < LenMod

VARIABLE buffer

BufferInit == buffer = <<>>

BufferNext ==
  /\ Len(buffer) < MaxLen
  /\ \E c \in 0..MaxCell : buffer' = Append(buffer, c)

BufferSpec == BufferInit /\ [][BufferNext]_buffer

ShortStrings == {<<>>, <<1>>, <<2, 0>>}

ShortMessages ==
  [type : 1..3, from_node_id : {<<1>>, <<2, 0>>}, to_node_id : ShortStrings,
   correlation_id : ShortStrings, payload : ShortStrings]

ShortAnnouncements ==
  [node_id : {<<1>>, <<2, 0>>}, host : {<<1>>, <<2, 0>>},
   port : 1..2, timestamp : 1..2]

(* A buffer is a message, or an announcement, only if it is exactly what   *)
(* the encoder writes for it (decode_message, decode_announcement).        *)
MessagesCanonical == MessageIsCanonical(buffer)

AnnouncementsCanonical == AnnouncementIsCanonical(buffer)

(* No proper beginning of a message is a message, so a receive buffer that *)
(* is too small loses datagrams and never changes them (recv_datagram).    *)
CutsRejected == \A k \in 0..(Len(buffer) - 1) : CutIsRejected(buffer, k)

(* "DiscoveryDecoder is the inverse of DiscoveryEncoder", for messages and *)
(* for announcements, when the buffer is what the encoder wrote.           *)
RoundTrip ==
  /\ \A m \in ShortMessages :
       buffer = EncodeMessage(m) => DecodeMessage(buffer) = m
  /\ \A a \in ShortAnnouncements :
       buffer = EncodeAnnouncement(a) => DecodeAnnouncement(buffer) = a
=============================================================================
