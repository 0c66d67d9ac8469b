--------------------------- MODULE UdpBackend_proofs ---------------------------
(***************************************************************************)
(* The backend for every message, receive buffer and packet size, and for  *)
(* every number of datagrams in flight.                                    *)
(*                                                                         *)
(* The two guarantees about messages need an invariant of the wire: what   *)
(* carries a node's message is that message's encoding, and fits into a    *)
(* packet (Honest).  Together with the theorems on the wire format it says *)
(* what a poll reads (HonestRead).  The theorems come with a buffer of     *)
(* their own (MCDiscoveryCodec), which nothing here mentions.              *)
(***************************************************************************)
EXTENDS UdpBackend, DiscoveryCodec_proofs

(* Well-typed steps keep the state well typed; first, what a poll reads.   *)
LEMMA ReceivedType ==
  ASSUME NEW d \in Datagram
  PROVE  Received(d) \in Seq(Nat) /\ Read(d) \in WireMessage \cup {NoMessage}
  <1>1. d.bytes \in Seq(Nat)
    BY DEF Datagram
  <1>2. Received(d) \in Seq(Nat)
    <2>1. CASE Len(d.bytes) =< MaxDatagram
      BY <1>1, <2>1 DEF Received, LinuxReceived, WindowsReceived
    <2>2. CASE ~ (Len(d.bytes) =< MaxDatagram)
      <3>1. Len(d.bytes) \in Nat /\ MaxDatagram \in Nat
        BY <1>1, LenProperties, BackendAssumption
      <3>2. \A i \in 1..MaxDatagram : d.bytes[i] \in Nat
        BY <1>1, <2>2, <3>1, ElementOfSeq
      <3>3. SubSeq(d.bytes, 1, MaxDatagram) \in Seq(Nat)
        BY <3>1, <3>2, SubSeqProperties
      <3>4. <<>> \in Seq(Nat)
        BY EmptySeq
      <3> QED
        BY <2>2, <3>3, <3>4 DEF Received, LinuxReceived, WindowsReceived
    <2> QED
      BY <2>1, <2>2
  <1> QED
    BY <1>2, DecodeType DEF Read

(* The history's "no datagram" is a datagram. *)
LEMMA NoDatagramType == NoDatagram \in Datagram /\ NoDatagram.from = NoMessage
  <1>1. <<>> \in Seq(Nat)
    BY EmptySeq
  <1> QED
    BY <1>1 DEF NoDatagram, Datagram

(* What a node puts on the wire is a datagram. *)
LEMMA CarriesType ==
  ASSUME NEW m \in Messages, CanSend(m)
  PROVE  Carries(m) \in Datagram /\ m \in WireMessage /\ IsValidWireMessage(m)
  <1>1. m \in WireMessage
    BY BackendAssumption
  <1>2. IsValidWireMessage(m)
    BY DEF CanSend, EncodeMessage
  <1>3. EncodeMessage(m) \in Seq(Nat)
    BY <1>1, <1>2, EncodeShape
  <1> QED
    BY <1>1, <1>2, <1>3 DEF Carries, Datagram

-----------------------------------------------------------------------------
(* The state of the backend is well typed, and the descriptor it holds is  *)
(* one that is open.                                                       *)
THEOREM TypeCorrect == Spec => []TypeOK
  <1>1. Init => TypeOK
    BY NoDatagramType DEF Init, TypeOK
  <1>2. TypeOK /\ [Next]_vars => TypeOK'
    <2> SUFFICES ASSUME TypeOK, [Next]_vars
                 PROVE  TypeOK'
      OBVIOUS
    <2>1. CASE Start
      <3>1. CASE StartFails
        BY <2>1, <3>1 DEF TypeOK, Start, StartFails, CloseSocket, Closed
      <3>2. CASE StartSucceeds
        <4>1. PICK f \in Fd \ DOMAIN sockets :
                fd' = f /\ sockets' = Opened(f, Options)
          BY <3>2 DEF StartSucceeds
        <4>2. /\ DOMAIN sockets' \subseteq Fd
              /\ fd' \in DOMAIN sockets'
              /\ \A g \in DOMAIN sockets' : sockets'[g] \subseteq Options
          BY <4>1 DEF TypeOK, Opened
        <4> QED
          BY <2>1, <3>2, <4>2 DEF TypeOK, Start, StartSucceeds
      <3> QED
        BY <2>1, <3>1, <3>2 DEF Start
    <2>2. CASE Stop
      BY <2>2 DEF TypeOK, Stop, CloseSocket, Closed
    <2>3. ASSUME NEW m \in Messages, Send(m) \/ PeerSend(m)
          PROVE  TypeOK'
      <3>1. CanSend(m) /\ Arrives(Carries(m))
        BY <2>3 DEF Send, PeerSend
      <3>2. Carries(m) \in Datagram
        BY <3>1, CarriesType
      <3> QED
        BY <3>1, <3>2 DEF TypeOK, Arrives
    <2>4. ASSUME NEW b \in Foreign, NEW p \in BOOLEAN, ForeignSend(b, p)
          PROVE  TypeOK'
      <3>1. [bytes |-> b, from |-> NoMessage, port |-> p] \in Datagram
        BY BackendAssumption DEF Datagram
      <3> QED
        BY <2>4, <3>1 DEF TypeOK, ForeignSend, Arrives
    <2>5. CASE Lose
      BY <2>5 DEF TypeOK, Lose
    <2>6. CASE PollTimesOut
      BY <2>6, NoDatagramType DEF TypeOK, PollTimesOut
    <2>7. CASE PollTakes
      <3>1. PICK d \in wire : /\ took' = d
                              /\ last' = Read(d)
                              /\ wire' \in {wire, wire \ {d}}
        BY <2>7 DEF PollTakes
      <3>2. d \in Datagram
        BY DEF TypeOK
      <3>3. Read(d) \in WireMessage \cup {NoMessage}
        BY <3>2, ReceivedType
      <3> QED
        BY <2>7, <3>1, <3>2, <3>3 DEF TypeOK, PollTakes
    <2>8. CASE UNCHANGED vars
      BY <2>8 DEF TypeOK, vars
    <2> QED
      BY <2>1, <2>2, <2>3, <2>4, <2>5, <2>6, <2>7, <2>8 DEF Next
  <1> QED
    BY <1>1, <1>2, PTL DEF Spec

-----------------------------------------------------------------------------
(* start() and stop() never leave a socket open that the backend does not  *)
(* use, and never use one that is not ready.                               *)
THEOREM SocketAlwaysInStep == Spec => []SocketInStep
  <1>1. Init => SocketInStep
    BY DEF Init, SocketInStep
  <1>2. SocketInStep /\ [Next]_vars => SocketInStep'
    <2> SUFFICES ASSUME SocketInStep, [Next]_vars
                 PROVE  SocketInStep'
      OBVIOUS
    <2>1. CASE Start
      <3>0. ~ running /\ DOMAIN sockets = {}
        BY <2>1 DEF Start, SocketInStep
      <3>1. CASE StartFails
        BY <2>1, <3>0, <3>1 DEF SocketInStep, StartFails, CloseSocket, Closed
      <3>2. CASE StartSucceeds
        <4>1. PICK f \in Fd \ DOMAIN sockets :
                fd' = f /\ sockets' = Opened(f, Options)
          BY <3>2 DEF StartSucceeds
        <4>2. DOMAIN sockets' = {fd'} /\ sockets'[fd'] = Options
          BY <3>0, <4>1 DEF Opened
        <4> QED
          BY <3>2, <4>2 DEF SocketInStep, StartSucceeds
      <3> QED
        BY <2>1, <3>1, <3>2 DEF Start
    <2>2. CASE Stop
      <3>1. DOMAIN sockets \ {fd} = {}
        BY DEF SocketInStep
      <3> QED
        BY <2>2, <3>1 DEF SocketInStep, Stop, CloseSocket, Closed
    <2>3. CASE UNCHANGED <<running, fd, sockets>>
      BY <2>3 DEF SocketInStep
    <2>4. Start \/ Stop \/ UNCHANGED <<running, fd, sockets>>
      BY DEF Next, vars, Send, PeerSend, ForeignSend, Arrives, Lose,
             PollTimesOut, PollTakes
    <2> QED
      BY <2>1, <2>2, <2>3, <2>4
  <1> QED
    BY <1>1, <1>2, PTL DEF Spec

-----------------------------------------------------------------------------
(* An empty datagram is no message: what recv_datagram returns on Windows  *)
(* in place of one that is too long.                                       *)
LEMMA NothingRead == DecodeMessage(<<>>) = NoMessage
  <1>1. Len(<<>>) = 0
    BY EmptySeq
  <1>2. ~ (Len(<<>>) >= 5)
    BY <1>1
  <1> QED
    BY <1>2 DEF DecodeMessage

(* A datagram that carries a node's message carries its encoding. *)
Honest(d) ==
  d.from # NoMessage =>
    /\ d.from \in WireMessage
    /\ IsValidWireMessage(d.from)
    /\ d.bytes = EncodeMessage(d.from)
    /\ Len(d.bytes) < LenMod
    /\ d.port

(* What a poll makes of such a datagram. *)
LEMMA HonestRead ==
  ASSUME NEW d, Honest(d), d.from # NoMessage
  PROVE  Read(d) = IF Len(EncodeMessage(d.from)) =< MaxDatagram
                   THEN d.from ELSE NoMessage
  <1> DEFINE m == d.from
             b == EncodeMessage(m)
  <1>1. m \in WireMessage /\ IsValidWireMessage(m) /\ d.bytes = b
        /\ Len(b) < LenMod /\ d.port
    BY DEF Honest
  <1>2. /\ b \in Seq(Nat) /\ Len(b) \in Nat
        /\ Len(m.from_node_id) < Len(b) /\ Len(m.to_node_id) < Len(b)
        /\ Len(m.correlation_id) < Len(b) /\ Len(m.payload) < Len(b)
    BY <1>1, EncodeShape
  <1>3. /\ Len(m.from_node_id) < LenMod /\ Len(m.to_node_id) < LenMod
        /\ Len(m.correlation_id) < LenMod /\ Len(m.payload) < LenMod
    <2>1. /\ Len(m.from_node_id) \in Nat /\ Len(m.to_node_id) \in Nat
          /\ Len(m.correlation_id) \in Nat /\ Len(m.payload) \in Nat
      <3>1. /\ m.from_node_id \in Seq(Nat) /\ m.to_node_id \in Seq(Nat)
            /\ m.correlation_id \in Seq(Nat) /\ m.payload \in Seq(Nat)
        BY <1>1 DEF WireMessage
      <3> QED
        BY <3>1, LenProperties
    <2> HIDE DEF b
    <2> QED
      BY <1>1, <1>2, <2>1, LenAssumption
  <1>4. DecodeMessage(b) = m
    BY <1>1, <1>3, DecodeInverts DEF MessageSurvives
  <1>5. CASE Len(b) =< MaxDatagram
    BY <1>1, <1>4, <1>5 DEF Read, Received, LinuxReceived, WindowsReceived
  <1>6. CASE ~ (Len(b) =< MaxDatagram)
    <2>1. MaxDatagram \in 1..Len(b) /\ MaxDatagram < Len(b)
      BY <1>2, <1>6, BackendAssumption
    <2>2. DecodeMessage(b) # NoMessage
      BY <1>1, <1>4, NoneAssumption
    <2>3. CutIsRejected(b, MaxDatagram)
      BY <1>2, <2>1, CutNeverAccepted
    <2>4. DecodeMessage(SubSeq(b, 1, MaxDatagram)) = NoMessage
      BY <2>1, <2>2, <2>3 DEF CutIsRejected
    <2>5. DecodeMessage(<<>>) = NoMessage
      BY NothingRead
    <2> QED
      BY <1>1, <1>6, <2>4, <2>5
      DEF Read, Received, LinuxReceived, WindowsReceived
  <1> QED
    BY <1>5, <1>6

(* The inductive invariant: the wire and the last datagram are honest, and *)
(* the last result is what that datagram reads as.                         *)
WireInv ==
  /\ \A d \in wire : Honest(d)
  /\ Honest(took)
  /\ took.from # NoMessage => last = Read(took)

(* The wire stays honest whatever is sent, lost or received. *)
LEMMA WireHonest == Spec => []WireInv
  <1>1. Init => WireInv
    BY NoDatagramType DEF Init, WireInv, Honest
  <1>2. WireInv /\ [Next]_vars => WireInv'
    <2> SUFFICES ASSUME WireInv, [Next]_vars
                 PROVE  WireInv'
      OBVIOUS
    <2>1. CASE UNCHANGED <<platform, wire, took, last>>
      BY <2>1 DEF WireInv, Read, Received, LinuxReceived, WindowsReceived
    <2>2. ASSUME NEW m \in Messages, Send(m) \/ PeerSend(m)
          PROVE  WireInv'
      <3>1. CanSend(m) /\ Arrives(Carries(m))
        BY <2>2 DEF Send, PeerSend
      <3>2. m \in WireMessage /\ IsValidWireMessage(m)
        BY <3>1, CarriesType
      <3>3. Len(EncodeMessage(m)) < LenMod
        <4>1. Len(EncodeMessage(m)) \in Nat
          BY <3>2, EncodeShape
        <4>2. Len(EncodeMessage(m)) =< MaxPacket
          BY <3>1 DEF CanSend
        <4> QED
          BY <4>1, <4>2, BackendAssumption, LenAssumption
      <3>4. Honest(Carries(m))
        BY <3>2, <3>3 DEF Honest, Carries
      <3> QED
        BY <3>1, <3>4
        DEF WireInv, Arrives, Read, Received, LinuxReceived, WindowsReceived
    <2>3. ASSUME NEW b \in Foreign, NEW p \in BOOLEAN, ForeignSend(b, p)
          PROVE  WireInv'
      <3>1. Honest([bytes |-> b, from |-> NoMessage, port |-> p])
        BY DEF Honest
      <3> QED
        BY <2>3, <3>1
        DEF WireInv, ForeignSend, Arrives, Read, Received, LinuxReceived,
            WindowsReceived
    <2>4. CASE Lose
      BY <2>4 DEF WireInv, Lose, Read, Received, LinuxReceived, WindowsReceived
    <2>5. CASE PollTimesOut
      BY <2>5, NoDatagramType DEF WireInv, PollTimesOut, Honest
    <2>6. CASE PollTakes
      BY <2>6
      DEF WireInv, PollTakes, Read, Received, LinuxReceived, WindowsReceived
    <2>7. CASE Start \/ Stop \/ UNCHANGED vars
      BY <2>1, <2>7 DEF Start, Stop, vars
    <2> QED
      BY <2>2, <2>3, <2>4, <2>5, <2>6, <2>7 DEF Next
  <1> QED
    BY <1>1, <1>2, PTL DEF Spec

(* poll(): a node's message arrives whole or not at all. *)
THEOREM AlwaysWholeOrNothing == Spec => []WholeOrNothing
  <1>1. WireInv => WholeOrNothing
    BY HonestRead DEF WireInv, WholeOrNothing
  <1> QED
    BY <1>1, WireHonest, PTL

(* poll(): a node's message that fits into the receive buffer is accepted. *)
THEOREM FittingAlwaysAccepted == Spec => []FittingAccepted
  <1>1. WireInv => FittingAccepted
    <2> SUFFICES ASSUME WireInv, took.from # NoMessage, last = NoMessage
                 PROVE  Len(EncodeMessage(took.from)) > MaxDatagram
      BY DEF FittingAccepted
    <2>1. Honest(took) /\ last = Read(took)
      BY DEF WireInv
    <2>2. ~ (Len(EncodeMessage(took.from)) =< MaxDatagram)
      BY <2>1, HonestRead
    <2>3. Len(EncodeMessage(took.from)) \in Nat
      BY <2>1, EncodeShape DEF Honest
    <2> QED
      BY <2>2, <2>3, BackendAssumption
  <1> QED
    BY <1>1, WireHonest, PTL

-----------------------------------------------------------------------------
(* The backend implements the channel of whole messages the engine's model *)
(* assumes: every step is a step of the channel or leaves it as it was.    *)
THEOREM ChannelImplemented == Spec => ImplementsChannel
  <1> DEFINE offered(w) == {Meaning(d) : d \in w} \ {NoMessage}
  <1>1. Init => Channel!ChannelInit
    BY DEF Init, Channel!ChannelInit
  <1>2. TypeOK /\ WireInv /\ [Next]_vars
          => [Channel!ChannelNext]_Channel!channelVars
    <2> SUFFICES ASSUME TypeOK, WireInv, [Next]_vars
                 PROVE  Channel!ChannelNext \/ UNCHANGED Channel!channelVars
      OBVIOUS
    <2>1. CASE Start \/ Stop
      <3>1. running' \in BOOLEAN /\ UNCHANGED <<platform, wire, last>>
        BY <2>1 DEF Start, Stop, StartFails, StartSucceeds, TypeOK
      <3> QED
        BY <3>1
        DEF Channel!ChannelNext, Channel!Up, Meaning, Read, Received,
            LinuxReceived, WindowsReceived
    <2>2. ASSUME NEW d \in Datagram, Arrives(d)
          PROVE  Channel!Offer
      <3>1. Meaning(d) \in WireMessage \cup {NoMessage}
        BY ReceivedType DEF Meaning, Datagram
      <3>2. offered(wire) \subseteq offered(wire \cup {d})
        OBVIOUS
      <3>3. offered(wire \cup {d}) \ offered(wire) \subseteq WireMessage
        BY <3>1
      <3> QED
        BY <2>2, <3>2, <3>3
        DEF Arrives, Channel!Offer, Meaning, Read, Received, LinuxReceived,
            WindowsReceived
    <2>3. ASSUME NEW m \in Messages, Send(m) \/ PeerSend(m)
          PROVE  Channel!ChannelNext
      BY <2>2, <2>3, CarriesType DEF Send, PeerSend, Channel!ChannelNext
    <2>4. ASSUME NEW b \in Foreign, NEW p \in BOOLEAN, ForeignSend(b, p)
          PROVE  Channel!ChannelNext
      <3>1. [bytes |-> b, from |-> NoMessage, port |-> p] \in Datagram
        BY BackendAssumption DEF Datagram
      <3> QED
        BY <2>2, <2>4, <3>1 DEF ForeignSend, Channel!ChannelNext
    <2>5. CASE Lose
      BY <2>5
      DEF Lose, Channel!ChannelNext, Channel!Lose, Meaning, Read, Received,
          LinuxReceived, WindowsReceived
    <2>6. CASE PollTimesOut
      BY <2>6
      DEF PollTimesOut, Channel!ChannelNext, Channel!Take, Meaning, Read,
          Received, LinuxReceived, WindowsReceived
    <2>7. CASE PollTakes
      <3>1. PICK d \in wire : /\ took' = d
                              /\ last' = Read(d)
                              /\ wire' \in {wire, wire \ {d}}
        BY <2>7 DEF PollTakes
      <3>2. Read(d) \in {Meaning(d), NoMessage}
        <4>1. CASE d.from = NoMessage
          BY <4>1 DEF Meaning
        <4>2. CASE d.from # NoMessage
          BY <4>2, HonestRead DEF WireInv, Meaning
        <4> QED
          BY <4>1, <4>2
      <3>3. last' \in offered(wire) \cup {NoMessage}
        BY <3>1, <3>2
      <3>4. offered(wire') \subseteq offered(wire)
        BY <3>1
      <3> QED
        BY <2>7, <3>3, <3>4
        DEF PollTakes, Channel!ChannelNext, Channel!Take, Meaning, Read,
            Received, LinuxReceived, WindowsReceived
    <2>8. CASE UNCHANGED vars
      BY <2>8
      DEF vars, Channel!channelVars, Meaning, Read, Received, LinuxReceived,
          WindowsReceived
    <2> QED
      BY <2>1, <2>3, <2>4, <2>5, <2>6, <2>7, <2>8 DEF Next
  <1> QED
    BY <1>1, <1>2, TypeCorrect, WireHonest, PTL
    DEF Spec, ImplementsChannel, Channel!ChannelSpec
=============================================================================
