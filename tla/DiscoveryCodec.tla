---------------------------- MODULE DiscoveryCodec ----------------------------
(***************************************************************************)
(* The wire format: encoding/DiscoveryEncoder.hpp and DiscoveryDecoder.hpp *)
(* for messages, and the pair in engine/DiscoveryEngine.hpp for the        *)
(* announcement inside a message's payload.  Pure operators, no state.     *)
(*                                                                         *)
(* A buffer is a sequence of cells.  A byte of a string is a cell, and so  *)
(* is each integer the Serializer writes, whatever its width: an integer   *)
(* is read whole or not at all, and a buffer that ends inside one is       *)
(* rejected as one that ends before it.  Lengths keep their width: a u32   *)
(* is a number below LenMod.                                               *)
(***************************************************************************)
EXTENDS Integers, Sequences

CONSTANTS
  LenMod,      \* 2^32, the modulus of a length
  NoMessage,   \* std::nullopt for a message
  NoAnn        \* std::nullopt for an announcement

ASSUME LenAssumption == LenMod \in Nat \ {0}

(***************************************************************************)
(* Messages carry their type as the number that is on the wire: 1 to 3 are *)
(* Announce, Probe and Reply, everything else is not valid.                *)
(***************************************************************************)
WireMessage == [type : Nat, from_node_id : Seq(Nat), to_node_id : Seq(Nat),
                correlation_id : Seq(Nat), payload : Seq(Nat)]

WireAnnouncement == [node_id : Seq(Nat), host : Seq(Nat),
                     port : Nat, timestamp : Nat]

ASSUME NoneAssumption ==
  NoMessage \notin WireMessage /\ NoAnn \notin WireAnnouncement

IsValidWireMessage(m) == m.type \in 1..3 /\ m.from_node_id # <<>>

IsValidWireAnn(a) ==
  a.node_id # <<>> /\ a.host # <<>> /\ a.port # 0 /\ a.timestamp # 0

-----------------------------------------------------------------------------
(* Writers *)

Sized(s) == <<Len(s) % LenMod>> \o s

(* Faulty: the recipient and the correlation id change places. *)
EncodeMessage_Swapped(m) ==
  IF IsValidWireMessage(m)
  THEN <<m.type>> \o (Sized(m.from_node_id) \o (Sized(m.correlation_id)
         \o (Sized(m.to_node_id) \o Sized(m.payload))))
  ELSE <<>>

EncodeMessage(m) ==
  IF IsValidWireMessage(m)
  THEN <<m.type>> \o (Sized(m.from_node_id) \o (Sized(m.to_node_id)
         \o (Sized(m.correlation_id) \o Sized(m.payload))))
  ELSE <<>>

EncodeAnnouncement(a) ==
  IF IsValidWireAnn(a)
  THEN Sized(a.node_id) \o (Sized(a.host) \o <<a.port, a.timestamp>>)
  ELSE <<>>

-----------------------------------------------------------------------------
(* Readers: o is the number of cells consumed so far. *)

(* Faulty: a field may not end where the buffer ends. *)
Fits_Strict(b, o) == o < Len(b) /\ b[o + 1] < Len(b) - (o + 1)

Fits(b, o) == o < Len(b) /\ b[o + 1] =< Len(b) - (o + 1)

Field(b, o) == SubSeq(b, o + 2, o + 1 + b[o + 1])

After(b, o) == o + 1 + b[o + 1]

(* Faulty: cells left over are ignored. *)
DecodeMessage_Loose(b) ==
  LET o2 == After(b, 1)
      o3 == After(b, o2)
      o4 == After(b, o3)
      m == [type |-> b[1], from_node_id |-> Field(b, 1),
            to_node_id |-> Field(b, o2), correlation_id |-> Field(b, o3),
            payload |-> Field(b, o4)]
  IN IF /\ Len(b) >= 5
        /\ Fits(b, 1) /\ Fits(b, o2) /\ Fits(b, o3) /\ Fits(b, o4)
        /\ IsValidWireMessage(m)
     THEN m ELSE NoMessage

(* Faulty: the payload is whatever is left. *)
DecodeMessage_TakesRest(b) ==
  LET o2 == After(b, 1)
      o3 == After(b, o2)
      o4 == After(b, o3)
      m == [type |-> b[1], from_node_id |-> Field(b, 1),
            to_node_id |-> Field(b, o2), correlation_id |-> Field(b, o3),
            payload |-> SubSeq(b, o4 + 2, Len(b))]
  IN IF /\ Len(b) >= 5
        /\ Fits(b, 1) /\ Fits(b, o2) /\ Fits(b, o3) /\ o4 < Len(b)
        /\ IsValidWireMessage(m)
     THEN m ELSE NoMessage

DecodeMessage(b) ==
  LET o2 == After(b, 1)
      o3 == After(b, o2)
      o4 == After(b, o3)
      m == [type |-> b[1], from_node_id |-> Field(b, 1),
            to_node_id |-> Field(b, o2), correlation_id |-> Field(b, o3),
            payload |-> Field(b, o4)]
  IN IF /\ Len(b) >= 5
        /\ Fits(b, 1) /\ Fits(b, o2) /\ Fits(b, o3) /\ Fits(b, o4)
        /\ After(b, o4) = Len(b)
        /\ IsValidWireMessage(m)
     THEN m ELSE NoMessage

(* Faulty: cells left over are ignored. *)
DecodeAnnouncement_NoTail(b) ==
  LET o2 == After(b, 0)
      o3 == After(b, o2)
      a == [node_id |-> Field(b, 0), host |-> Field(b, o2),
            port |-> b[o3 + 1], timestamp |-> b[o3 + 2]]
  IN IF Fits(b, 0) /\ Fits(b, o2) /\ o3 + 2 =< Len(b) /\ IsValidWireAnn(a)
     THEN a ELSE NoAnn

DecodeAnnouncement(b) ==
  LET o2 == After(b, 0)
      o3 == After(b, o2)
      a == [node_id |-> Field(b, 0), host |-> Field(b, o2),
            port |-> b[o3 + 1], timestamp |-> b[o3 + 2]]
  IN IF Fits(b, 0) /\ Fits(b, o2) /\ o3 + 2 = Len(b) /\ IsValidWireAnn(a)
     THEN a ELSE NoAnn

-----------------------------------------------------------------------------
(* What the format promises, of a buffer b that arrived from anywhere.     *)

(* A buffer is accepted only when it is, cell for cell, what the encoder   *)
(* writes for the message read from it: nothing is skipped, nothing is     *)
(* left over, and two different buffers never mean the same message.       *)
MessageIsCanonical(b) ==
  DecodeMessage(b) # NoMessage => EncodeMessage(DecodeMessage(b)) = b

(* The same of the announcement in a payload. *)
AnnouncementIsCanonical(b) ==
  DecodeAnnouncement(b) # NoAnn =>
    EncodeAnnouncement(DecodeAnnouncement(b)) = b

(* The decoder is the inverse of the encoder, for m a valid message.       *)
MessageSurvives(m) == DecodeMessage(EncodeMessage(m)) = m

AnnouncementSurvives(a) == DecodeAnnouncement(EncodeAnnouncement(a)) = a

(* A datagram cut short by a receive buffer of k cells is never taken for  *)
(* another message.                                                        *)
CutIsRejected(b, k) ==
  DecodeMessage(b) # NoMessage /\ k < Len(b) =>
    DecodeMessage(SubSeq(b, 1, k)) = NoMessage
=============================================================================
