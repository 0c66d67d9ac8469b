------------------------- MODULE DiscoveryCodec_proofs -------------------------
(***************************************************************************)
(* The wire format for messages of every length below the width of its     *)
(* length fields: the decoder inverts the encoder, accepts nothing else,   *)
(* and never accepts the beginning of a message.                           *)
(*                                                                         *)
(* A reader at offset o sees one sized field.  FieldShape says what it     *)
(* reads from any buffer, FieldWritten what it reads where a writer wrote, *)
(* FieldCut what it reads from a buffer cut short; the theorems apply one  *)
(* of them to each of the four fields in turn.  The properties of the run, *)
(* whose buffer grows cell by cell, follow from the theorems.              *)
(***************************************************************************)
EXTENDS MCDiscoveryCodec, SequenceTheorems, TLAPS

(* A cell that is read as a length is one: a decoder reads it from 32 bits. *)
(* In a buffer shorter than 2^32 cells only such lengths are accepted.     *)
LengthsFit(b) == Len(b) < LenMod \/ \A i \in 1..Len(b) : b[i] < LenMod

(* Writing a field: its length, then its cells. *)
LEMMA SizedShape ==
  ASSUME NEW s \in Seq(Nat), Len(s) < LenMod
  PROVE  /\ Sized(s) = <<Len(s)>> \o s
         /\ Sized(s) \in Seq(Nat)
         /\ Len(Sized(s)) = Len(s) + 1
  <1>1. Len(s) \in Nat
    BY LenProperties
  <1>2. Len(s) % LenMod = Len(s)
    BY <1>1, LenAssumption, SMT
  <1>3. <<Len(s)>> \in Seq(Nat) /\ Len(<<Len(s)>>) = 1
    BY <1>1
  <1> QED
    BY <1>1, <1>2, <1>3, ConcatProperties DEF Sized

(* Reading a field of any buffer. *)
LEMMA FieldShape ==
  ASSUME NEW b \in Seq(Nat), NEW o \in Nat, Fits(b, o)
  PROVE  /\ Field(b, o) \in Seq(Nat)
         /\ Len(Field(b, o)) = b[o + 1]
         /\ b[o + 1] \in Nat
         /\ After(b, o) \in Nat
         /\ o < After(b, o) /\ After(b, o) =< Len(b)
         /\ SubSeq(b, o + 1, After(b, o)) = <<b[o + 1]>> \o Field(b, o)
  <1>1. Len(b) \in Nat /\ o + 1 \in 1..Len(b)
    BY LenProperties DEF Fits
  <1>2. b[o + 1] \in Nat
    BY <1>1, ElementOfSeq
  <1>3. After(b, o) \in Nat /\ o < After(b, o) /\ After(b, o) =< Len(b)
    BY <1>1, <1>2 DEF After, Fits
  <1>4. \A i \in (o + 2)..After(b, o) : b[i] \in Nat
    BY <1>1, <1>3, ElementOfSeq
  <1>5. Field(b, o) = SubSeq(b, o + 2, After(b, o))
    BY DEF Field, After
  <1>6. /\ Field(b, o) \in Seq(Nat)
        /\ Len(Field(b, o)) =
             IF o + 2 <= After(b, o) THEN After(b, o) - (o + 2) + 1 ELSE 0
    BY <1>3, <1>4, <1>5, SubSeqProperties, o + 2 \in Int, After(b, o) \in Int
  <1>7. Len(Field(b, o)) = b[o + 1]
    BY <1>2, <1>6 DEF After
  <1>8. SubSeq(b, o + 1, After(b, o)) = <<b[o + 1]>> \o Field(b, o)
    <2>1. After(b, o) \in (o + 1)..Len(b)
      BY <1>3
    <2>2. SubSeq(b, o + 1, After(b, o))
            = <<b[o + 1]>> \o SubSeq(b, (o + 1) + 1, After(b, o))
      BY <1>1, <2>1, SubSeqRecursiveFirst
    <2>3. (o + 1) + 1 = o + 2
      OBVIOUS
    <2> QED
      BY <2>2, <2>3, <1>5
  <1> QED
    BY <1>2, <1>3, <1>6, <1>7, <1>8

(* What was read is what a writer would have written there. *)
LEMMA FieldResized ==
  ASSUME NEW b \in Seq(Nat), NEW o \in Nat, Fits(b, o), LengthsFit(b)
  PROVE  /\ After(b, o) \in Nat
         /\ o < After(b, o) /\ After(b, o) =< Len(b)
         /\ SubSeq(b, o + 1, After(b, o)) = Sized(Field(b, o))
  <1>1. /\ Field(b, o) \in Seq(Nat) /\ Len(Field(b, o)) = b[o + 1]
        /\ b[o + 1] \in Nat
        /\ After(b, o) \in Nat
        /\ o < After(b, o) /\ After(b, o) =< Len(b)
        /\ SubSeq(b, o + 1, After(b, o)) = <<b[o + 1]>> \o Field(b, o)
    BY FieldShape
  <1>2. Len(b) \in Nat
    BY LenProperties
  <1>3. Len(Field(b, o)) < LenMod
    <2>1. CASE Len(b) < LenMod
      BY <2>1, <1>1, <1>2, LenAssumption DEF Fits
    <2>2. CASE \A i \in 1..Len(b) : b[i] < LenMod
      <3>1. o + 1 \in 1..Len(b)
        BY <1>2 DEF Fits
      <3>2. b[o + 1] < LenMod
        BY ONLY <2>2, <3>1, Zenon
      <3> QED
        BY <1>1, <3>2
    <2> QED
      BY <2>1, <2>2 DEF LengthsFit
  <1>4. Sized(Field(b, o)) = <<b[o + 1]>> \o Field(b, o)
    BY <1>1, <1>3, SizedShape, Zenon
  <1> QED
    BY <1>1, <1>4

(* Writing three pieces in order, whichever two are joined first. *)
LEMMA BufferAssociative ==
  ASSUME NEW p \in Seq(Nat), NEW w \in Seq(Nat), NEW t \in Seq(Nat)
  PROVE  (p \o w) \o t = p \o (w \o t)
BY ConcatAssociative, SMT

(* Reading a field where a writer put s, after p and before t. *)
LEMMA FieldWritten ==
  ASSUME NEW p \in Seq(Nat), NEW s \in Seq(Nat), NEW t \in Seq(Nat),
         Len(s) < LenMod
  PROVE  LET b == p \o (Sized(s) \o t)
         IN  /\ b \in Seq(Nat)
             /\ b = (p \o Sized(s)) \o t
             /\ p \o Sized(s) \in Seq(Nat)
             /\ Fits(b, Len(p))
             /\ Field(b, Len(p)) = s
             /\ After(b, Len(p)) = Len(p \o Sized(s))
  <1> DEFINE w == Sized(s)
             b == p \o (w \o t)
  <1>1. w = <<Len(s)>> \o s /\ w \in Seq(Nat) /\ Len(w) = Len(s) + 1
    BY SizedShape
  <1>2. Len(p) \in Nat /\ Len(s) \in Nat /\ Len(t) \in Nat
    BY LenProperties
  <1>3. \A i \in 1..(1 + Len(s)) :
          w[i] = IF i <= 1 THEN Len(s) ELSE s[i - 1]
    <2>1. <<Len(s)>> \in Seq(Nat) /\ Len(<<Len(s)>>) = 1
      BY <1>2
    <2>2. \A i \in 1..(1 + Len(s)) :
            w[i] = IF i <= 1 THEN <<Len(s)>>[i] ELSE s[i - 1]
      BY <1>1, <2>1, ConcatProperties
    <2> QED
      BY <2>2, <1>2
  <1> HIDE DEF w
  <1>w. w \in Seq(Nat) /\ Len(w) = Len(s) + 1
    BY <1>1
  <1>4. /\ w \o t \in Seq(Nat)
        /\ Len(w \o t) = Len(w) + Len(t)
        /\ \A i \in 1..(Len(w) + Len(t)) :
             (w \o t)[i] = IF i <= Len(w) THEN w[i] ELSE t[i - Len(w)]
    BY <1>w, ConcatProperties, Zenon
  <1>5. /\ b \in Seq(Nat)
        /\ Len(b) = Len(p) + Len(w \o t)
        /\ \A i \in 1..(Len(p) + Len(w \o t)) :
             b[i] = IF i <= Len(p) THEN p[i] ELSE (w \o t)[i - Len(p)]
    BY <1>4, ConcatProperties, Zenon
  <1>6. b = (p \o w) \o t
    <2>1. (p \o w) \o t = p \o (w \o t)
      BY <1>w, BufferAssociative, Zenon
    <2> QED
      BY <2>1
  <1>p. p \o w \in Seq(Nat) /\ Len(p \o w) = Len(p) + Len(w)
    BY <1>w, ConcatProperties, Zenon
  <1> DEFINE lp == Len(p)
             ls == Len(s)
             lt == Len(t)
             wt == w \o t
  <1>n. /\ lp \in Nat /\ ls \in Nat /\ lt \in Nat
        /\ Len(w) = ls + 1 /\ Len(wt) = ls + 1 + lt
        /\ Len(b) = lp + (ls + 1 + lt) /\ Len(p \o w) = lp + ls + 1
    BY <1>2, <1>w, <1>4, <1>5, <1>p
  <1>a. \A i \in 1..(ls + 1) : wt[i] = w[i]
    BY <1>4, <1>n
  <1>b. \A i \in 1..(ls + 1) : b[lp + i] = wt[i]
    <2> HIDE DEF b, wt
    <2>1. \A i \in 1..(ls + 1) :
            lp + i \in 1..(lp + Len(wt)) /\ ~ (lp + i <= lp) /\ (lp + i) - lp = i
      BY <1>n
    <2>2. \A i \in 1..(lp + Len(wt)) :
            b[i] = IF i <= lp THEN p[i] ELSE wt[i - lp]
      BY <1>5 DEF wt
    <2> HIDE DEF lp, ls
    <2> QED
      BY <2>1, <2>2
  <1>7. \A i \in 1..(ls + 1) : b[lp + i] = IF i <= 1 THEN ls ELSE s[i - 1]
    <2> TAKE i \in 1..(ls + 1)
    <2>1. i \in 1..(1 + Len(s))
      BY <1>n
    <2>2. w[i] = IF i <= 1 THEN ls ELSE s[i - 1]
      BY <2>1, <1>3
    <2>3. b[lp + i] = w[i]
      <3> HIDE DEF b, wt, lp, ls
      <3> QED
        BY <1>a, <1>b
    <2> HIDE DEF b, wt, lp, ls
    <2> QED
      BY <2>2, <2>3
  <1> HIDE DEF b, wt
  <1>8. b[lp + 1] = ls
    <2> HIDE DEF lp, ls
    <2>1. 1 \in 1..(ls + 1)
      BY <1>n
    <2> QED
      BY <2>1, <1>7
  <1>9. Fits(b, lp) /\ After(b, lp) = lp + ls + 1
    <2> HIDE DEF lp, ls, lt
    <2> QED
      BY <1>8, <1>n DEF Fits, After
  <1>10. Field(b, lp) = s
    <2> DEFINE x == lp + 2
               y == lp + 1 + ls
               f == SubSeq(b, x, y)
    <2>1. Field(b, lp) = f
      BY <1>8 DEF Field
    <2>2. x \in Int /\ y \in Int /\ y - x + 1 = ls
          /\ (IF x <= y THEN y - x + 1 ELSE 0) = ls
      <3> HIDE DEF lp, ls
      <3> QED
        BY <1>n
    <2>3. \A i \in x..y : b[i] \in Nat
      <3>1. \A i \in x..y : i \in 1..Len(b)
        <4> HIDE DEF lp, ls, lt
        <4> QED
          BY <1>n
      <3>2. b \in Seq(Nat)
        BY <1>5
      <3> QED
        BY <3>1, <3>2, ElementOfSeq
    <2>4. /\ f \in Seq(Nat)
          /\ Len(f) = ls
          /\ \A i \in 1..ls : f[i] = b[x + i - 1]
      <3> HIDE DEF x, y, ls
      <3> QED
        BY <2>2, <2>3, SubSeqProperties
    <2>5. \A i \in 1..ls : b[x + i - 1] = s[i]
      <3>1. \A i \in 1..ls :
              /\ x + i - 1 = lp + (i + 1)
              /\ i + 1 \in 1..(ls + 1)
              /\ ~ (i + 1 <= 1) /\ (i + 1) - 1 = i
        <4> HIDE DEF lp, ls
        <4> QED
          BY <1>n
      <3> HIDE DEF x, lp, ls
      <3> QED
        BY <3>1, <1>7
    <2>6. \A i \in 1..Len(s) : f[i] = s[i]
      <3> HIDE DEF f, x
      <3> QED
        BY <2>4, <2>5 DEF ls
    <2> HIDE DEF f
    <2> QED
      BY <2>1, <2>4, <2>6, SeqEqual DEF ls
  <1>11. After(b, lp) = Len(p \o w)
    BY <1>9, <1>n
  <1> QED
    BY <1>5, <1>6, <1>p, <1>9, <1>10, <1>11 DEF b, w, lp

(* In b, a field s was written after p, and t follows: what FieldWritten   *)
(* says, of a buffer that has a name.                                      *)
WrittenAt(b, p, s, t) ==
  /\ b \in Seq(Nat)
  /\ b = (p \o Sized(s)) \o t
  /\ p \o Sized(s) \in Seq(Nat)
  /\ Fits(b, Len(p))
  /\ Field(b, Len(p)) = s
  /\ After(b, Len(p)) = Len(p \o Sized(s))
  /\ Len(p) < Len(p \o Sized(s))

LEMMA FieldAt ==
  \A b : \A p \in Seq(Nat), s \in Seq(Nat), t \in Seq(Nat) :
    Len(s) < LenMod /\ b = p \o (Sized(s) \o t) => WrittenAt(b, p, s, t)
  <1> TAKE b
  <1> TAKE p \in Seq(Nat), s \in Seq(Nat), t \in Seq(Nat)
  <1> HAVE Len(s) < LenMod /\ b = p \o (Sized(s) \o t)
  <1>1. Len(p) < Len(p \o Sized(s))
    <2>1. Sized(s) \in Seq(Nat) /\ Len(Sized(s)) = Len(s) + 1
      BY SizedShape
    <2>2. Len(p \o Sized(s)) = Len(p) + Len(Sized(s))
      BY <2>1, ConcatProperties
    <2>3. Len(p) \in Nat /\ Len(s) \in Nat
      BY LenProperties
    <2> DEFINE lp == Len(p)
               ls == Len(s)
               lw == Len(Sized(s))
               lpw == Len(p \o Sized(s))
    <2>4. lpw = lp + lw /\ lw = ls + 1 /\ lp \in Nat /\ ls \in Nat
      BY <2>1, <2>2, <2>3, Zenon
    <2> HIDE DEF lp, ls, lw, lpw
    <2>5. lp < lpw
      BY ONLY <2>4, SMT
    <2> QED
      BY <2>5, Zenon DEF lp, lpw
  <1> DEFINE c == p \o (Sized(s) \o t)
  <1>2. /\ c \in Seq(Nat)
        /\ c = (p \o Sized(s)) \o t
        /\ p \o Sized(s) \in Seq(Nat)
        /\ Fits(c, Len(p))
        /\ Field(c, Len(p)) = s
        /\ After(c, Len(p)) = Len(p \o Sized(s))
    BY FieldWritten, Zenon
  <1>3. b = c
    OBVIOUS
  <1> HIDE DEF c
  <1> QED
    BY <1>1, <1>2, <1>3, Zenon DEF WrittenAt

(* Reading a field of a buffer of which only the first k cells arrived. *)
LEMMA FieldCut ==
  ASSUME NEW b \in Seq(Nat), NEW k \in 1..Len(b), NEW o \in Nat,
         Fits(SubSeq(b, 1, k), o)
  PROVE  After(SubSeq(b, 1, k), o) = After(b, o) /\ After(b, o) \in Nat
  <1> DEFINE c == SubSeq(b, 1, k)
  <1>1. Len(b) \in Nat
    BY LenProperties
  <1>2. /\ c \in Seq(Nat)
        /\ Len(c) = k
        /\ \A i \in 1..k : c[i] = b[i]
    <2>1. \A i \in 1..k : b[i] \in Nat
      BY <1>1, ElementOfSeq
    <2>2. /\ c \in Seq(Nat)
          /\ Len(c) = IF 1 <= k THEN k - 1 + 1 ELSE 0
          /\ \A i \in 1..(k - 1 + 1) : c[i] = b[1 + i - 1]
      BY <2>1, SubSeqProperties
    <2> QED
      BY <2>2, <1>1
  <1> HIDE DEF c
  <1>3. o + 1 \in 1..k
    <2>1. Fits(c, o)
      BY DEF c
    <2> QED
      BY <2>1, <1>2, <1>1 DEF Fits
  <1>4. c[o + 1] = b[o + 1] /\ b[o + 1] \in Nat
    BY <1>1, <1>2, <1>3, ElementOfSeq
  <1>5. After(c, o) = After(b, o) /\ After(b, o) \in Nat
    BY <1>4 DEF After
  <1> QED
    BY <1>5 DEF c

-----------------------------------------------------------------------------
(* An accepted buffer is what the encoder writes for the message read from *)
(* it (decode_message checks every length and that nothing is left over).  *)
THEOREM DecodeCanonical ==
  ASSUME NEW b \in Seq(Nat), LengthsFit(b)
  PROVE  MessageIsCanonical(b)
  <1> DEFINE o2 == After(b, 1)
             o3 == After(b, o2)
             o4 == After(b, o3)
             o5 == After(b, o4)
             m == [type |-> b[1], from_node_id |-> Field(b, 1),
                   to_node_id |-> Field(b, o2), correlation_id |-> Field(b, o3),
                   payload |-> Field(b, o4)]
  <1>1. SUFFICES ASSUME DecodeMessage(b) # NoMessage
                 PROVE  EncodeMessage(DecodeMessage(b)) = b
    BY DEF MessageIsCanonical
  <1>2. /\ Len(b) >= 5
        /\ Fits(b, 1) /\ Fits(b, o2) /\ Fits(b, o3) /\ Fits(b, o4)
        /\ o5 = Len(b)
        /\ IsValidWireMessage(m)
        /\ DecodeMessage(b) = m
    BY <1>1, Zenon DEF DecodeMessage
  <1>3. /\ o2 \in Nat /\ 1 < o2 /\ o2 =< Len(b)
        /\ SubSeq(b, 1 + 1, o2) = Sized(Field(b, 1))
    BY <1>2, FieldResized
  <1>4. /\ o3 \in Nat /\ o2 < o3 /\ o3 =< Len(b)
        /\ SubSeq(b, o2 + 1, o3) = Sized(Field(b, o2))
    <2> HIDE DEF o2
    <2> QED
      BY <1>2, <1>3, FieldResized
  <1>5. /\ o4 \in Nat /\ o3 < o4 /\ o4 =< Len(b)
        /\ SubSeq(b, o3 + 1, o4) = Sized(Field(b, o3))
    <2> HIDE DEF o3
    <2> QED
      BY <1>2, <1>4, FieldResized
  <1>6. /\ o5 \in Nat /\ o4 < o5 /\ o5 =< Len(b)
        /\ SubSeq(b, o4 + 1, o5) = Sized(Field(b, o4))
    <2> HIDE DEF o4
    <2> QED
      BY <1>2, <1>5, FieldResized
  <1>7. EncodeMessage(m) =
          <<b[1]>> \o (SubSeq(b, 2, o2) \o (SubSeq(b, o2 + 1, o3)
            \o (SubSeq(b, o3 + 1, o4) \o SubSeq(b, o4 + 1, o5))))
    <2>1. EncodeMessage(m) =
            <<b[1]>> \o (Sized(Field(b, 1)) \o (Sized(Field(b, o2))
              \o (Sized(Field(b, o3)) \o Sized(Field(b, o4)))))
      <3>1. EncodeMessage(m) =
              <<m.type>> \o (Sized(m.from_node_id) \o (Sized(m.to_node_id)
                \o (Sized(m.correlation_id) \o Sized(m.payload))))
        BY <1>2 DEF EncodeMessage
      <3> HIDE DEF o2, o3, o4
      <3>2. /\ m.type = b[1] /\ m.from_node_id = Field(b, 1)
            /\ m.to_node_id = Field(b, o2) /\ m.correlation_id = Field(b, o3)
            /\ m.payload = Field(b, o4)
        OBVIOUS
      <3> HIDE DEF m
      <3> QED
        BY <3>1, <3>2, Zenon
    <2>2. 1 + 1 = 2
      OBVIOUS
    <2> HIDE DEF o2, o3, o4, o5, m
    <2> QED
      BY <2>1, <2>2, <1>3, <1>4, <1>5, <1>6, Zenon
  <1> HIDE DEF o2, o3, o4, o5, m
  <1>8. Len(b) \in Nat
    BY LenProperties
  <1>9. SubSeq(b, o3 + 1, o4) \o SubSeq(b, o4 + 1, o5) = SubSeq(b, o3 + 1, o5)
    <2>1. /\ o3 + 1 \in 1..(Len(b) + 1) /\ o4 \in ((o3 + 1) - 1)..Len(b)
          /\ o5 \in o4..Len(b)
      BY <1>4, <1>5, <1>6, <1>8
    <2> QED
      BY <2>1, ConcatAdjacentSubSeq
  <1>10. SubSeq(b, o2 + 1, o3) \o SubSeq(b, o3 + 1, o5) = SubSeq(b, o2 + 1, o5)
    <2>1. /\ o2 + 1 \in 1..(Len(b) + 1) /\ o3 \in ((o2 + 1) - 1)..Len(b)
          /\ o5 \in o3..Len(b)
      BY <1>3, <1>4, <1>5, <1>6, <1>8
    <2> QED
      BY <2>1, ConcatAdjacentSubSeq
  <1>11. SubSeq(b, 2, o2) \o SubSeq(b, o2 + 1, o5) = SubSeq(b, 2, o5)
    <2>1. /\ 2 \in 1..(Len(b) + 1) /\ o2 \in (2 - 1)..Len(b)
          /\ o5 \in o2..Len(b)
      BY <1>2, <1>3, <1>4, <1>5, <1>6, <1>8
    <2> QED
      BY <2>1, ConcatAdjacentSubSeq
  <1>12. <<b[1]>> \o SubSeq(b, 2, o5) = b
    <2>1. 1 \in 1..Len(b) /\ o5 \in 1..Len(b) /\ 1 + 1 = 2
      BY <1>2, <1>3, <1>4, <1>5, <1>6, <1>8
    <2>2. SubSeq(b, 1, o5) = <<b[1]>> \o SubSeq(b, 2, o5)
      BY <2>1, SubSeqRecursiveFirst
    <2>3. SubSeq(b, 1, o5) = b
      BY <1>2, SubSeqFull
    <2> QED
      BY <2>2, <2>3
  <1> QED
    BY <1>2, <1>7, <1>9, <1>10, <1>11, <1>12, Zenon

(* The decoder is the inverse of the encoder: a valid message whose fields *)
(* are shorter than 2^32 comes back as it went in.                         *)
THEOREM DecodeInverts ==
  ASSUME NEW m \in WireMessage, IsValidWireMessage(m),
         Len(m.from_node_id) < LenMod, Len(m.to_node_id) < LenMod,
         Len(m.correlation_id) < LenMod, Len(m.payload) < LenMod
  PROVE  MessageSurvives(m)
  <1> DEFINE f1 == m.from_node_id
             f2 == m.to_node_id
             f3 == m.correlation_id
             f4 == m.payload
             t3 == Sized(f4) \o <<>>
             t2 == Sized(f3) \o t3
             t1 == Sized(f2) \o t2
             p1 == <<m.type>>
             p2 == p1 \o Sized(f1)
             p3 == p2 \o Sized(f2)
             p4 == p3 \o Sized(f3)
             p5 == p4 \o Sized(f4)
             b == EncodeMessage(m)
  <1>1. /\ m.type \in Nat
        /\ f1 \in Seq(Nat) /\ f2 \in Seq(Nat)
        /\ f3 \in Seq(Nat) /\ f4 \in Seq(Nat)
    BY DEF WireMessage
  <1>2. Len(f1) < LenMod /\ Len(f2) < LenMod /\ Len(f3) < LenMod /\ Len(f4) < LenMod
    OBVIOUS
  <1>3. b = p1 \o (Sized(f1) \o (Sized(f2) \o (Sized(f3) \o Sized(f4))))
    BY DEF EncodeMessage
  <1>4. p1 \in Seq(Nat) /\ Len(p1) = 1 /\ p1[1] = m.type
    BY <1>1
  <1> HIDE DEF f1, f2, f3, f4, p1, b
  <1>5. /\ Sized(f1) \in Seq(Nat) /\ Sized(f2) \in Seq(Nat)
        /\ Sized(f3) \in Seq(Nat) /\ Sized(f4) \in Seq(Nat)
    BY <1>1, <1>2, SizedShape, Zenon
  <1>6. <<>> \in Seq(Nat) /\ t3 = Sized(f4) /\ t3 \in Seq(Nat)
    BY <1>5, EmptySeq, ConcatEmptySeq
  <1>7. b = p1 \o (Sized(f1) \o t1)
    <2>1. t3 = Sized(f4)
      BY <1>6
    <2> HIDE DEF t3
    <2> QED
      BY <1>3, <2>1, Zenon
  <1> HIDE DEF t3
  <1>8. t2 \in Seq(Nat)
    BY <1>5, <1>6, ConcatProperties, Zenon
  <1> HIDE DEF t2
  <1>9. t1 \in Seq(Nat)
    BY <1>5, <1>8, ConcatProperties, Zenon
  <1> HIDE DEF t1
  <1>10. /\ b \in Seq(Nat) /\ p2 \in Seq(Nat) /\ b = p2 \o t1
         /\ Fits(b, Len(p1)) /\ Field(b, Len(p1)) = f1
         /\ After(b, Len(p1)) = Len(p2) /\ Len(p1) < Len(p2)
    <2>1. WrittenAt(b, p1, f1, t1)
      BY <1>1, <1>2, <1>4, <1>7, <1>9, FieldAt, Zenon
    <2> QED
      BY <2>1, Zenon DEF WrittenAt
  <1> HIDE DEF p2
  <1>11. /\ p3 \in Seq(Nat) /\ b = p3 \o t2
         /\ Fits(b, Len(p2)) /\ Field(b, Len(p2)) = f2
         /\ After(b, Len(p2)) = Len(p3) /\ Len(p2) < Len(p3)
    <2>1. b = p2 \o (Sized(f2) \o t2)
      BY <1>10 DEF t1
    <2>2. WrittenAt(b, p2, f2, t2)
      BY <1>1, <1>2, <1>8, <1>10, <2>1, FieldAt, Zenon
    <2> QED
      BY <2>2, Zenon DEF WrittenAt
  <1> HIDE DEF p3
  <1>12. /\ p4 \in Seq(Nat) /\ b = p4 \o t3
         /\ Fits(b, Len(p3)) /\ Field(b, Len(p3)) = f3
         /\ After(b, Len(p3)) = Len(p4) /\ Len(p3) < Len(p4)
    <2>1. b = p3 \o (Sized(f3) \o t3)
      BY <1>11 DEF t2
    <2>2. WrittenAt(b, p3, f3, t3)
      BY <1>1, <1>2, <1>6, <1>11, <2>1, FieldAt, Zenon
    <2> QED
      BY <2>2, Zenon DEF WrittenAt
  <1> HIDE DEF p4
  <1>13. /\ p5 \in Seq(Nat) /\ b = p5 \o <<>>
         /\ Fits(b, Len(p4)) /\ Field(b, Len(p4)) = f4
         /\ After(b, Len(p4)) = Len(p5) /\ Len(p4) < Len(p5)
    <2>1. b = p4 \o (Sized(f4) \o <<>>)
      BY <1>12 DEF t3
    <2>2. WrittenAt(b, p4, f4, <<>>)
      BY <1>1, <1>2, <1>6, <1>12, <2>1, FieldAt, Zenon
    <2> QED
      BY <2>2, Zenon DEF WrittenAt
  <1> HIDE DEF p5
  <1>14. b = p5
    BY <1>13, ConcatEmptySeq
  <1>15. b[1] = m.type
    <2>1. Sized(f1) \o t1 \in Seq(Nat)
      BY <1>5, <1>9, ConcatProperties, Zenon
    <2>2. Len(Sized(f1) \o t1) \in Nat
      BY <2>1, LenProperties
    <2> DEFINE r == Sized(f1) \o t1
    <2> HIDE DEF r
    <2>3. 1 \in 1..(Len(p1) + Len(r)) /\ 1 <= Len(p1)
      BY <1>4, <2>2 DEF r
    <2>4. \A i \in 1..(Len(p1) + Len(r)) :
            (p1 \o r)[i] = IF i <= Len(p1) THEN p1[i] ELSE r[i - Len(p1)]
      BY <1>4, <2>1, ConcatProperties, Zenon DEF r
    <2>5. (p1 \o r)[1] = p1[1]
      BY <2>3, <2>4, Zenon
    <2> QED
      BY <1>4, <1>7, <2>5 DEF r
  <1>16. Len(b) >= 5
    <2>1. /\ Len(p1) \in Nat /\ Len(p2) \in Nat /\ Len(p3) \in Nat
          /\ Len(p4) \in Nat /\ Len(p5) \in Nat
      BY <1>4, <1>10, <1>11, <1>12, <1>13, LenProperties, Zenon
    <2>2. /\ Len(p1) < Len(p2) /\ Len(p2) < Len(p3)
          /\ Len(p3) < Len(p4) /\ Len(p4) < Len(p5)
      BY <1>10, <1>11, <1>12, <1>13, Zenon
    <2>3. Len(p5) >= 5
      BY <1>4, <2>1, <2>2
    <2> QED
      BY <1>14, <2>3
  <1>17. m = [type |-> m.type, from_node_id |-> f1, to_node_id |-> f2,
              correlation_id |-> f3, payload |-> f4]
    BY DEF WireMessage, f1, f2, f3, f4
  <1>18. /\ After(b, 1) = Len(p2) /\ After(b, Len(p2)) = Len(p3)
         /\ After(b, Len(p3)) = Len(p4) /\ After(b, Len(p4)) = Len(b)
         /\ Fits(b, 1) /\ Fits(b, Len(p2)) /\ Fits(b, Len(p3)) /\ Fits(b, Len(p4))
         /\ Field(b, 1) = f1 /\ Field(b, Len(p2)) = f2
         /\ Field(b, Len(p3)) = f3 /\ Field(b, Len(p4)) = f4
    BY <1>4, <1>10, <1>11, <1>12, <1>13, <1>14, Zenon
  <1>19. DecodeMessage(b) = m
    BY <1>15, <1>16, <1>17, <1>18, Zenon DEF DecodeMessage
  <1> QED
    BY <1>19 DEF MessageSurvives, b

(* Whatever is decoded is a message. *)
LEMMA DecodeType ==
  ASSUME NEW b \in Seq(Nat)
  PROVE  DecodeMessage(b) \in WireMessage \cup {NoMessage}
  <1> DEFINE o2 == After(b, 1)
             o3 == After(b, o2)
             o4 == After(b, o3)
             m == [type |-> b[1], from_node_id |-> Field(b, 1),
                   to_node_id |-> Field(b, o2), correlation_id |-> Field(b, o3),
                   payload |-> Field(b, o4)]
  <1>1. SUFFICES ASSUME DecodeMessage(b) # NoMessage
                 PROVE  DecodeMessage(b) \in WireMessage
    OBVIOUS
  <1>2. /\ Len(b) >= 5
        /\ Fits(b, 1) /\ Fits(b, o2) /\ Fits(b, o3) /\ Fits(b, o4)
        /\ DecodeMessage(b) = m
    BY <1>1, Zenon DEF DecodeMessage
  <1>3. b[1] \in Nat
    <2>1. Len(b) \in Nat
      BY LenProperties
    <2>2. 1 \in 1..Len(b)
      BY <1>2, <2>1
    <2> QED
      BY <2>2, ElementOfSeq
  <1>4. o2 \in Nat /\ Field(b, 1) \in Seq(Nat)
    BY <1>2, FieldShape
  <1> HIDE DEF o2
  <1>5. o3 \in Nat /\ Field(b, o2) \in Seq(Nat)
    BY <1>2, <1>4, FieldShape
  <1> HIDE DEF o3
  <1>6. o4 \in Nat /\ Field(b, o3) \in Seq(Nat)
    BY <1>2, <1>5, FieldShape
  <1> HIDE DEF o4
  <1>7. Field(b, o4) \in Seq(Nat)
    BY <1>2, <1>6, FieldShape
  <1> QED
    BY <1>2, <1>3, <1>4, <1>5, <1>6, <1>7 DEF WireMessage

(* A sized field is longer than what it carries, whatever its length says. *)
LEMMA SizedLonger ==
  ASSUME NEW s \in Seq(Nat), NEW t \in Seq(Nat)
  PROVE  /\ Sized(s) \in Seq(Nat)
         /\ Sized(s) \o t \in Seq(Nat)
         /\ Len(s) \in Nat /\ Len(t) \in Nat /\ Len(Sized(s)) \in Nat
         /\ Len(s) < Len(Sized(s))
         /\ Len(Sized(s) \o t) = Len(Sized(s)) + Len(t)
  <1>1. Len(s) \in Nat /\ Len(t) \in Nat
    BY LenProperties
  <1>2. Len(s) % LenMod \in Nat
    BY <1>1, LenAssumption
  <1>3. <<Len(s) % LenMod>> \in Seq(Nat) /\ Len(<<Len(s) % LenMod>>) = 1
    BY <1>2
  <1>4. Sized(s) \in Seq(Nat) /\ Len(Sized(s)) = 1 + Len(s)
    BY <1>3, ConcatProperties DEF Sized
  <1>5. Sized(s) \o t \in Seq(Nat) /\ Len(Sized(s) \o t) = Len(Sized(s)) + Len(t)
    BY <1>4, ConcatProperties
  <1> QED
    BY <1>1, <1>4, <1>5

(* The encoder's buffer is a buffer, and longer than every field of the    *)
(* message, so a buffer shorter than 2^32 has no length that wrapped.      *)
LEMMA EncodeShape ==
  ASSUME NEW m \in WireMessage, IsValidWireMessage(m)
  PROVE  LET n == Len(EncodeMessage(m))
         IN  /\ EncodeMessage(m) \in Seq(Nat)
             /\ n \in Nat
             /\ Len(m.from_node_id) < n /\ Len(m.to_node_id) < n
             /\ Len(m.correlation_id) < n /\ Len(m.payload) < n
  <1> DEFINE f1 == m.from_node_id
             f2 == m.to_node_id
             f3 == m.correlation_id
             f4 == m.payload
             t3 == Sized(f4)
             t2 == Sized(f3) \o t3
             t1 == Sized(f2) \o t2
             t0 == Sized(f1) \o t1
             p == <<m.type>>
  <1>1. /\ m.type \in Nat
        /\ f1 \in Seq(Nat) /\ f2 \in Seq(Nat)
        /\ f3 \in Seq(Nat) /\ f4 \in Seq(Nat)
    BY DEF WireMessage
  <1>2. EncodeMessage(m) = p \o t0
    BY DEF EncodeMessage
  <1>3. p \in Seq(Nat) /\ Len(p) = 1
    BY <1>1
  <1> HIDE DEF f1, f2, f3, f4, p
  <1>4. t3 \in Seq(Nat) /\ Len(t3) \in Nat /\ Len(f4) \in Nat /\ Len(f4) < Len(t3)
    BY <1>1, SizedLonger
  <1> HIDE DEF t3
  <1>5. /\ t2 \in Seq(Nat) /\ Len(f3) \in Nat /\ Len(Sized(f3)) \in Nat
        /\ Len(f3) < Len(Sized(f3)) /\ Len(t2) = Len(Sized(f3)) + Len(t3)
    BY <1>1, <1>4, SizedLonger
  <1> HIDE DEF t2
  <1>6. /\ t1 \in Seq(Nat) /\ Len(f2) \in Nat /\ Len(Sized(f2)) \in Nat
        /\ Len(f2) < Len(Sized(f2)) /\ Len(t1) = Len(Sized(f2)) + Len(t2)
    BY <1>1, <1>5, SizedLonger
  <1> HIDE DEF t1
  <1>7. /\ t0 \in Seq(Nat) /\ Len(f1) \in Nat /\ Len(Sized(f1)) \in Nat
        /\ Len(f1) < Len(Sized(f1)) /\ Len(t0) = Len(Sized(f1)) + Len(t1)
    BY <1>1, <1>6, SizedLonger
  <1> HIDE DEF t0
  <1>8. p \o t0 \in Seq(Nat) /\ Len(p \o t0) = Len(p) + Len(t0)
    BY <1>3, <1>7, ConcatProperties
  <1> DEFINE n == Len(p \o t0)
  <1> HIDE DEF n
  <1>9. n \in Nat /\ Len(f1) < n /\ Len(f2) < n /\ Len(f3) < n /\ Len(f4) < n
    <2>1. n = 1 + Len(t0)
      BY <1>3, <1>8 DEF n
    <2> DEFINE l1 == Len(f1)
               l2 == Len(f2)
               l3 == Len(f3)
               l4 == Len(f4)
               s1 == Len(Sized(f1))
               s2 == Len(Sized(f2))
               s3 == Len(Sized(f3))
               n0 == Len(t0)
               n1 == Len(t1)
               n2 == Len(t2)
               n3 == Len(t3)
    <2>2. /\ l1 \in Nat /\ l2 \in Nat /\ l3 \in Nat /\ l4 \in Nat
          /\ s1 \in Nat /\ s2 \in Nat /\ s3 \in Nat /\ n3 \in Nat
          /\ l1 < s1 /\ l2 < s2 /\ l3 < s3 /\ l4 < n3
          /\ n2 = s3 + n3 /\ n1 = s2 + n2 /\ n0 = s1 + n1 /\ n = 1 + n0
      BY <2>1, <1>4, <1>5, <1>6, <1>7, Zenon
    <2> HIDE DEF l1, l2, l3, l4, s1, s2, s3, n0, n1, n2, n3
    <2>3. n \in Nat /\ l1 < n /\ l2 < n /\ l3 < n /\ l4 < n
      BY <2>2
    <2> QED
      BY <2>3 DEF l1, l2, l3, l4
  <1> QED
    BY <1>2, <1>8, <1>9 DEF n, f1, f2, f3, f4

(* A receive buffer shorter than the datagram loses it and never turns it  *)
(* into another message (recv_datagram cuts without telling).              *)
THEOREM CutNeverAccepted ==
  ASSUME NEW b \in Seq(Nat), NEW k \in 1..Len(b)
  PROVE  CutIsRejected(b, k)
  <1> DEFINE c == SubSeq(b, 1, k)
             o2 == After(b, 1)
             o3 == After(b, o2)
             o4 == After(b, o3)
             o5 == After(b, o4)
             q2 == After(c, 1)
             q3 == After(c, q2)
             q4 == After(c, q3)
             q5 == After(c, q4)
  <1>1. SUFFICES ASSUME DecodeMessage(b) # NoMessage, k < Len(b),
                        DecodeMessage(c) # NoMessage
                 PROVE  FALSE
    BY DEF CutIsRejected
  <1>2. o5 = Len(b)
    BY <1>1, Zenon DEF DecodeMessage
  <1>3. Fits(c, 1) /\ Fits(c, q2) /\ Fits(c, q3) /\ Fits(c, q4) /\ q5 = Len(c)
    BY <1>1, Zenon DEF DecodeMessage
  <1>4. q2 = o2 /\ o2 \in Nat
    BY <1>3, FieldCut
  <1> HIDE DEF o2, q2
  <1>5. q3 = o3 /\ o3 \in Nat
    BY <1>3, <1>4, FieldCut
  <1> HIDE DEF o3, q3
  <1>6. q4 = o4 /\ o4 \in Nat
    BY <1>3, <1>5, FieldCut
  <1> HIDE DEF o4, q4
  <1>7. q5 = o5
    BY <1>3, <1>6, FieldCut
  <1>8. Len(b) \in Nat
    BY LenProperties
  <1>9. Len(c) = k
    <2>1. \A i \in 1..k : b[i] \in Nat
      BY <1>8, ElementOfSeq
    <2>2. Len(c) = IF 1 <= k THEN k - 1 + 1 ELSE 0
      BY <2>1, SubSeqProperties
    <2> QED
      BY <2>2
  <1> HIDE DEF o5, q5, c
  <1>10. k = Len(b)
    BY <1>2, <1>3, <1>7, <1>9, Zenon
  <1>11. k < Len(b)
    BY <1>1, Zenon
  <1> QED
    BY <1>8, <1>10, <1>11

-----------------------------------------------------------------------------
(* The announcement in a payload: accepted only as it is written           *)
(* (decode_announcement checks that nothing is left over).                 *)
THEOREM AnnouncementCanonical ==
  ASSUME NEW b \in Seq(Nat), LengthsFit(b)
  PROVE  AnnouncementIsCanonical(b)
  <1> DEFINE o2 == After(b, 0)
             o3 == After(b, o2)
             port == b[o3 + 1]
             time == b[o3 + 2]
             a == [node_id |-> Field(b, 0), host |-> Field(b, o2),
                   port |-> port, timestamp |-> time]
  <1>1. SUFFICES ASSUME DecodeAnnouncement(b) # NoAnn
                 PROVE  EncodeAnnouncement(DecodeAnnouncement(b)) = b
    BY DEF AnnouncementIsCanonical
  <1>2. /\ Fits(b, 0) /\ Fits(b, o2) /\ o3 + 2 = Len(b)
        /\ IsValidWireAnn(a)
        /\ DecodeAnnouncement(b) = a
    BY <1>1, Zenon DEF DecodeAnnouncement
  <1>3. /\ o2 \in Nat /\ 0 < o2 /\ o2 =< Len(b)
        /\ SubSeq(b, 0 + 1, o2) = Sized(Field(b, 0))
    BY <1>2, FieldResized
  <1>4. /\ o3 \in Nat /\ o2 < o3 /\ o3 =< Len(b)
        /\ SubSeq(b, o2 + 1, o3) = Sized(Field(b, o2))
    <2> HIDE DEF o2
    <2> QED
      BY <1>2, <1>3, FieldResized
  <1>5. EncodeAnnouncement(a) =
          Sized(a.node_id) \o (Sized(a.host) \o <<a.port, a.timestamp>>)
    BY <1>2 DEF EncodeAnnouncement
  <1> HIDE DEF o2, o3, port, time
  <1>6. /\ a.node_id = Field(b, 0) /\ a.host = Field(b, o2)
        /\ a.port = port /\ a.timestamp = time
    OBVIOUS
  <1> HIDE DEF a
  <1>7. EncodeAnnouncement(a) =
          SubSeq(b, 1, o2) \o (SubSeq(b, o2 + 1, o3) \o <<port, time>>)
    <2>1. SubSeq(b, 1, o2) = Sized(Field(b, 0))
      BY <1>3
    <2> QED
      BY <1>4, <1>5, <1>6, <2>1, Zenon
  <1>8. Len(b) \in Nat
    BY LenProperties
  <1>9. SubSeq(b, o3 + 1, o3 + 2) = <<port, time>>
    <2>1. /\ o3 + 1 \in Int /\ o3 + 2 \in Int /\ (o3 + 2) - (o3 + 1) + 1 = 2
          /\ (IF o3 + 1 <= o3 + 2 THEN (o3 + 2) - (o3 + 1) + 1 ELSE 0) = 2
          /\ (o3 + 1) + 1 - 1 = o3 + 1 /\ (o3 + 1) + 2 - 1 = o3 + 2
      BY <1>4
    <2>2. \A i \in (o3 + 1)..(o3 + 2) : b[i] \in Nat
      BY <1>2, <1>4, <1>8, ElementOfSeq
    <2> DEFINE x == o3 + 1
               y == o3 + 2
               t == SubSeq(b, x, y)
               e == <<port, time>>
    <2>3. /\ t \in Seq(Nat)
          /\ Len(t) = 2
          /\ \A i \in 1..2 : t[i] = b[x + i - 1]
      <3>1. /\ x \in Int /\ y \in Int /\ y - x + 1 = 2
            /\ (IF x <= y THEN y - x + 1 ELSE 0) = 2
            /\ \A i \in x..y : b[i] \in Nat
        BY <2>1, <2>2
      <3> HIDE DEF x, y
      <3> QED
        BY <3>1, SubSeqProperties
    <2>4. t[1] = port /\ t[2] = time
      <3> HIDE DEF t
      <3> QED
        BY <2>1, <2>3 DEF port, time
    <2>5. port \in Nat /\ time \in Nat
      BY <2>1, <2>2, <1>4 DEF port, time
    <2>6. e \in Seq(Nat) /\ Len(e) = 2 /\ e[1] = port /\ e[2] = time
      BY <2>5
    <2> HIDE DEF t, e, x, y
    <2>7. \A i \in 1..2 : t[i] = e[i]
      BY <2>4, <2>6
    <2>8. t = e
      BY <2>3, <2>6, <2>7, SeqEqual
    <2> QED
      BY <2>8 DEF t, e, x, y
  <1>10. SubSeq(b, o2 + 1, o3) \o SubSeq(b, o3 + 1, Len(b)) = SubSeq(b, o2 + 1, Len(b))
    <2>1. /\ o2 + 1 \in 1..(Len(b) + 1) /\ o3 \in ((o2 + 1) - 1)..Len(b)
          /\ Len(b) \in o3..Len(b)
      BY <1>3, <1>4, <1>8
    <2> QED
      BY <2>1, ConcatAdjacentSubSeq
  <1>11. SubSeq(b, 1, o2) \o SubSeq(b, o2 + 1, Len(b)) = SubSeq(b, 1, Len(b))
    <2>1. /\ 1 \in 1..(Len(b) + 1) /\ o2 \in (1 - 1)..Len(b)
          /\ Len(b) \in o2..Len(b)
      BY <1>3, <1>8
    <2> QED
      BY <2>1, ConcatAdjacentSubSeq
  <1>12. SubSeq(b, 1, Len(b)) = b
    BY SubSeqFull
  <1>13. EncodeAnnouncement(a) = b
    BY <1>2, <1>7, <1>9, <1>10, <1>11, <1>12, Zenon
  <1> QED
    BY <1>2, <1>13

(* The announcement's decoder inverts its encoder. *)
THEOREM AnnouncementInverts ==
  ASSUME NEW a \in WireAnnouncement, IsValidWireAnn(a),
         Len(a.node_id) < LenMod, Len(a.host) < LenMod
  PROVE  AnnouncementSurvives(a)
  <1> DEFINE f1 == a.node_id
             f2 == a.host
             t2 == <<a.port, a.timestamp>>
             t1 == Sized(f2) \o t2
             p1 == <<>>
             p2 == p1 \o Sized(f1)
             p3 == p2 \o Sized(f2)
             b == EncodeAnnouncement(a)
  <1>1. /\ a.port \in Nat /\ a.timestamp \in Nat
        /\ f1 \in Seq(Nat) /\ f2 \in Seq(Nat)
    BY DEF WireAnnouncement
  <1>2. Len(f1) < LenMod /\ Len(f2) < LenMod
    OBVIOUS
  <1>3. b = Sized(f1) \o t1
    BY DEF EncodeAnnouncement
  <1>4. /\ t2 \in Seq(Nat) /\ Len(t2) = 2
        /\ t2[1] = a.port /\ t2[2] = a.timestamp
    BY <1>1
  <1>5. p1 \in Seq(Nat) /\ Len(p1) = 0
    BY EmptySeq
  <1> HIDE DEF f1, f2, t2, p1, b
  <1>6. Sized(f1) \in Seq(Nat) /\ Sized(f2) \in Seq(Nat)
    BY <1>1, <1>2, SizedShape, Zenon
  <1>7. t1 \in Seq(Nat)
    BY <1>4, <1>6, ConcatProperties, Zenon
  <1> HIDE DEF t1
  <1>8. Sized(f1) \o t1 \in Seq(Nat)
    BY <1>6, <1>7, ConcatProperties, Zenon
  <1>9. b = p1 \o (Sized(f1) \o t1)
    <2> DEFINE r == Sized(f1) \o t1
    <2>1. r \in Seq(Nat)
      BY <1>8
    <2> HIDE DEF r
    <2>2. p1 \o r = r
      BY <2>1, ConcatEmptySeq DEF p1
    <2> QED
      BY <1>3, <2>2 DEF r
  <1>10. /\ b \in Seq(Nat) /\ p2 \in Seq(Nat) /\ b = p2 \o t1
         /\ Fits(b, Len(p1)) /\ Field(b, Len(p1)) = f1
         /\ After(b, Len(p1)) = Len(p2)
    <2>1. WrittenAt(b, p1, f1, t1)
      BY <1>1, <1>2, <1>5, <1>7, <1>9, FieldAt, Zenon
    <2> QED
      BY <2>1, Zenon DEF WrittenAt
  <1> HIDE DEF p2
  <1>11. /\ p3 \in Seq(Nat) /\ b = p3 \o t2
         /\ Fits(b, Len(p2)) /\ Field(b, Len(p2)) = f2
         /\ After(b, Len(p2)) = Len(p3)
    <2>1. b = p2 \o (Sized(f2) \o t2)
      BY <1>10 DEF t1
    <2>2. WrittenAt(b, p2, f2, t2)
      BY <1>1, <1>2, <1>4, <1>10, <2>1, FieldAt, Zenon
    <2> QED
      BY <2>2, Zenon DEF WrittenAt
  <1> HIDE DEF p3
  <1>12. /\ Len(b) = Len(p3) + 2
         /\ b[Len(p3) + 1] = a.port /\ b[Len(p3) + 2] = a.timestamp
    <2>1. /\ Len(p3 \o t2) = Len(p3) + Len(t2)
          /\ \A i \in 1..(Len(p3) + Len(t2)) :
               (p3 \o t2)[i] = IF i <= Len(p3) THEN p3[i] ELSE t2[i - Len(p3)]
      <3>1. p3 \in Seq(Nat) /\ t2 \in Seq(Nat)
        BY <1>4, <1>11, Zenon
      <3> QED
        BY ONLY <3>1, ConcatProperties, Zenon
    <2> DEFINE n == Len(p3)
    <2>2. n \in Nat
      BY <1>11, LenProperties
    <2> HIDE DEF n
    <2>3. /\ n + 1 \in 1..(n + 2) /\ n + 2 \in 1..(n + 2)
          /\ ~ (n + 1 <= n) /\ ~ (n + 2 <= n)
          /\ (n + 1) - n = 1 /\ (n + 2) - n = 2
      BY <2>2
    <2>4. /\ Len(b) = n + 2
          /\ \A i \in 1..(n + 2) :
               b[i] = IF i <= n THEN p3[i] ELSE t2[i - n]
      BY <1>4, <1>11, <2>1, Zenon DEF n
    <2>5. b[n + 1] = t2[1] /\ b[n + 2] = t2[2]
      BY <2>3, <2>4, Zenon
    <2> QED
      BY <1>4, <2>4, <2>5 DEF n
  <1>13. a = [node_id |-> f1, host |-> f2,
              port |-> a.port, timestamp |-> a.timestamp]
    BY DEF WireAnnouncement, f1, f2
  <1>14. /\ Fits(b, 0) /\ Field(b, 0) = f1 /\ After(b, 0) = Len(p2)
         /\ Fits(b, Len(p2)) /\ Field(b, Len(p2)) = f2
         /\ After(b, Len(p2)) = Len(p3) /\ Len(p3) + 2 = Len(b)
    BY <1>5, <1>10, <1>11, <1>12, Zenon
  <1>15. DecodeAnnouncement(b) = a
    BY <1>12, <1>13, <1>14, Zenon DEF DecodeAnnouncement
  <1> QED
    BY <1>15 DEF AnnouncementSurvives, b

-----------------------------------------------------------------------------
(* The buffer of the run, for every bound on its cells and its length *)

CellsOK == buffer \in Seq(0..MaxCell)

LEMMA BufferTyped == BufferSpec => []CellsOK
<1>1. BufferInit => CellsOK
  BY EmptySeq DEF BufferInit, CellsOK
<1>2. CellsOK /\ [BufferNext]_buffer => CellsOK'
  <2>1. ASSUME CellsOK, NEW c \in 0..MaxCell, buffer' = Append(buffer, c) PROVE CellsOK'
    BY <2>1, AppendProperties DEF CellsOK
  <2>2. ASSUME CellsOK, buffer' = buffer PROVE CellsOK'
    BY <2>2 DEF CellsOK
  <2> QED
    BY <2>1, <2>2 DEF BufferNext
<1> QED
  BY <1>1, <1>2, PTL DEF BufferSpec

LEMMA BufferFits ==
  ASSUME CellsOK
  PROVE  buffer \in Seq(Nat) /\ LengthsFit(buffer)
<1>1. \A i \in 1..Len(buffer) : buffer[i] \in 0..MaxCell
  BY ElementOfSeq DEF CellsOK
<1>2. Len(buffer) \in Nat /\ buffer = [i \in 1..Len(buffer) |-> buffer[i]]
  BY SeqDef, LenProperties DEF CellsOK
<1>3. \A i \in 1..Len(buffer) : buffer[i] \in Nat /\ buffer[i] < LenMod
  BY <1>1, BufferAssumption, LenAssumption
<1> QED
  BY <1>2, <1>3, SeqDef DEF LengthsFit

(* Every buffer that decode_message accepts is the encoding of what it     *)
(* makes of it.                                                            *)
THEOREM MessagesAlwaysCanonical == BufferSpec => []MessagesCanonical
<1>1. CellsOK => MessagesCanonical
  BY BufferFits, DecodeCanonical DEF MessagesCanonical
<1> QED
  BY <1>1, BufferTyped, PTL

(* The same of decode_announcement.                                        *)
THEOREM AnnouncementsAlwaysCanonical == BufferSpec => []AnnouncementsCanonical
<1>1. CellsOK => AnnouncementsCanonical
  BY BufferFits, AnnouncementCanonical DEF AnnouncementsCanonical
<1> QED
  BY <1>1, BufferTyped, PTL

(* No proper beginning of an accepted buffer is accepted, the empty one    *)
(* included.                                                               *)
THEOREM CutsAlwaysRejected == BufferSpec => []CutsRejected
<1>1. ASSUME CellsOK, NEW k \in 0..(Len(buffer) - 1)
      PROVE  CutIsRejected(buffer, k)
  <2>1. buffer \in Seq(Nat) /\ Len(buffer) \in Nat
    BY <1>1, BufferFits, LenProperties
  <2>2. CASE k = 0
    <3>1. SubSeq(buffer, 1, 0) = <<>>
      BY <2>1, SubSeqEmpty
    <3>2. DecodeMessage(<<>>) = NoMessage
      BY EmptySeq DEF DecodeMessage
    <3> QED
      BY <2>2, <3>1, <3>2 DEF CutIsRejected
  <2>3. CASE k # 0
    <3>1. k \in 1..Len(buffer)
      BY <2>1, <2>3
    <3> QED
      BY <2>1, <3>1, CutNeverAccepted
  <2> QED
    BY <2>2, <2>3
<1>2. CellsOK => CutsRejected
  BY <1>1 DEF CutsRejected
<1> QED
  BY <1>2, BufferTyped, PTL

(* What either encoder writes for the short values is read back.           *)
THEOREM AlwaysRoundTrip == BufferSpec => []RoundTrip
<1>1. \A s \in ShortStrings \cup {<<1>>, <<2, 0>>} : s \in Seq(Nat) /\ Len(s) < LenMod
  <2>1. <<>> \in Seq(Nat) /\ Len(<<>>) = 0
    BY EmptySeq
  <2>2. <<1>> \in Seq(Nat) /\ Len(<<1>>) = 1
    OBVIOUS
  <2>3. <<2, 0>> \in Seq(Nat) /\ Len(<<2, 0>>) = 2
    OBVIOUS
  <2>4. 0 < LenMod /\ 1 < LenMod /\ 2 < LenMod
    BY BufferAssumption, LenAssumption
  <2> QED
    BY <2>1, <2>2, <2>3, <2>4, Zenon DEF ShortStrings
<1>2. <<1>> # <<>> /\ <<2, 0>> # <<>>
  OBVIOUS
<1>3. ASSUME NEW m \in ShortMessages PROVE DecodeMessage(EncodeMessage(m)) = m
  <2>1. m \in WireMessage /\ IsValidWireMessage(m)
    <3> DEFINE Id == {<<1>>, <<2, 0>>}
    <3>1. Id \subseteq Seq(Nat) /\ ShortStrings \subseteq Seq(Nat) /\ 1..3 \subseteq Nat
          /\ \A s \in Id : s # <<>>
      BY <1>1, <1>2
    <3>2. m \in [type : 1..3, from_node_id : Id, to_node_id : ShortStrings,
                 correlation_id : ShortStrings, payload : ShortStrings]
      BY DEF ShortMessages
    <3> HIDE DEF Id
    <3> QED
      BY ONLY <3>1, <3>2 DEF WireMessage, IsValidWireMessage
  <2>2. /\ Len(m.from_node_id) < LenMod /\ Len(m.to_node_id) < LenMod
        /\ Len(m.correlation_id) < LenMod /\ Len(m.payload) < LenMod
    BY <1>1 DEF ShortMessages
  <2> QED
    BY <2>1, <2>2, DecodeInverts DEF MessageSurvives
<1>4. ASSUME NEW a \in ShortAnnouncements PROVE DecodeAnnouncement(EncodeAnnouncement(a)) = a
  <2>1. a \in WireAnnouncement /\ IsValidWireAnn(a)
    <3> DEFINE Id == {<<1>>, <<2, 0>>}
    <3>1. Id \subseteq Seq(Nat) /\ \A s \in Id : s # <<>>
      BY <1>1, <1>2
    <3>2. a \in [node_id : Id, host : Id, port : 1..2, timestamp : 1..2]
      BY DEF ShortAnnouncements
    <3> HIDE DEF Id
    <3> QED
      BY ONLY <3>1, <3>2 DEF WireAnnouncement, IsValidWireAnn
  <2>2. Len(a.node_id) < LenMod /\ Len(a.host) < LenMod
    BY <1>1 DEF ShortAnnouncements
  <2> QED
    BY <2>1, <2>2, AnnouncementInverts DEF AnnouncementSurvives
<1>5. RoundTrip
  BY <1>3, <1>4 DEF RoundTrip
<1> QED
  BY <1>5, PTL
=============================================================================
