------------------------------ MODULE UdpBackend ------------------------------
(***************************************************************************)
(* backend/UdpDiscoveryBackend.hpp over platform/linux/UdpSocket.cpp or     *)
(* platform/windows/UdpSocket.cpp: the life of the socket, and the way of  *)
(* a message through encoder, network, receive buffer and decoder.         *)
(*                                                                         *)
(* The calls are synchronous and have one owner, so each is one step; what *)
(* the operating system answers is a nondeterministic choice.  A call that *)
(* returns early and changes nothing is a stuttering step.                 *)
(***************************************************************************)
EXTENDS DiscoveryCodec, FiniteSets

CONSTANTS
  Fd,           \* descriptors the operating system hands out
  NoFd,         \* -1
  MaxDatagram,  \* config.max_datagram_size
  MaxPacket,    \* what sendto accepts at most
  Messages,     \* what the nodes of the network, this one included, send
  Foreign,      \* what other programs send to the port
  MaxWire       \* bound on the datagrams in flight

ASSUME BackendAssumption ==
  /\ NoFd \notin Fd
  /\ MaxDatagram \in Nat \ {0}
  /\ MaxPacket \in Nat
  /\ MaxPacket < LenMod
  /\ Messages \subseteq WireMessage
  /\ Foreign \subseteq Seq(Nat)
  /\ MaxWire \in Nat

VARIABLES
  config_ok,   \* config_.is_valid()
  platform,    \* the UdpSocket this program was built with
  running,     \* running_
  fd,          \* socket_.fd_
  sockets,     \* the options set on each descriptor this process has open
  wire,        \* datagrams in flight to this backend's port
  took,        \* history: the datagram the last poll received, if any
  last         \* what the last poll returned

vars == <<config_ok, platform, running, fd, sockets, wire, took, last>>

Options == {"reuse_addr", "broadcast", "recv_timeout", "send_timeout", "bound"}

(***************************************************************************)
(* A datagram on the wire.  from is the message of the node that sent it,  *)
(* NoMessage when another program did; port is whether it has a source     *)
(* port, without which recv_datagram's result is not valid.                *)
(***************************************************************************)
Datagram == [bytes : Seq(Nat), from : WireMessage \cup {NoMessage},
             port : BOOLEAN]

NoDatagram == [bytes |-> <<>>, from |-> NoMessage, port |-> FALSE]

TypeOK ==
  /\ config_ok \in BOOLEAN
  /\ platform \in {"linux", "windows"}
  /\ running \in BOOLEAN
  /\ fd \in DOMAIN sockets \cup {NoFd}
  /\ DOMAIN sockets \subseteq Fd
  /\ \A f \in DOMAIN sockets : sockets[f] \subseteq Options
  /\ wire \subseteq Datagram
  /\ took \in Datagram
  /\ last \in WireMessage \cup {NoMessage}

Init ==
  /\ config_ok \in BOOLEAN
  /\ platform \in {"linux", "windows"}
  /\ running = FALSE
  /\ fd = NoFd
  /\ sockets = [f \in {} |-> {}]
  /\ wire = {}
  /\ took = NoDatagram
  /\ last = NoMessage

-----------------------------------------------------------------------------
(* The socket.  open() closes the descriptor it holds before it asks for   *)
(* another one.                                                            *)

Closed == [f \in DOMAIN sockets \ {fd} |-> sockets[f]]

Opened(f, options) ==
  [g \in (DOMAIN sockets \ {fd}) \cup {f} |->
     IF g = f THEN options ELSE sockets[g]]

(* Faulty: the number of the closed descriptor is kept. *)
CloseSocket_KeepsNumber == UNCHANGED fd /\ sockets' = Closed

CloseSocket == fd' = NoFd /\ sockets' = Closed

(* Faulty: a step of configure_socket() or bind() fails and start() does   *)
(* not close the socket.                                                   *)
StartFails_Leaves ==
  /\ \E f \in Fd \ DOMAIN sockets, done \in SUBSET Options :
       fd' = f /\ sockets' = Opened(f, done)
  /\ UNCHANGED running

(* Whichever step fails, the socket ends closed: by start(), or because    *)
(* there was none to begin with.                                           *)
StartFails == CloseSocket /\ UNCHANGED running

StartSucceeds ==
  /\ \E f \in Fd \ DOMAIN sockets : fd' = f /\ sockets' = Opened(f, Options)
  /\ running' = TRUE

Start ==
  /\ ~ running
  /\ config_ok
  /\ StartFails \/ StartSucceeds
  /\ UNCHANGED <<config_ok, platform, wire, took, last>>

Stop ==
  /\ running' = FALSE
  /\ CloseSocket
  /\ UNCHANGED <<config_ok, platform, wire, took, last>>

-----------------------------------------------------------------------------
(* Sending.  An invalid message encodes to nothing, and make_datagram then *)
(* yields an invalid datagram; sendto refuses what is longer than a packet.*)

CanSend(m) == EncodeMessage(m) # <<>> /\ Len(EncodeMessage(m)) =< MaxPacket

Arrives(d) ==
  /\ Cardinality(wire \cup {d}) =< MaxWire
  /\ wire' = wire \cup {d}
  /\ UNCHANGED <<config_ok, platform, running, fd, sockets, took, last>>

Carries(m) == [bytes |-> EncodeMessage(m), from |-> m, port |-> TRUE]

(* This backend sends, and its broadcast comes back to its own port.       *)
Send(m) == running /\ CanSend(m) /\ Arrives(Carries(m))

(* Another node sends, through the same code.                              *)
PeerSend(m) == CanSend(m) /\ Arrives(Carries(m))

ForeignSend(b, p) == Arrives([bytes |-> b, from |-> NoMessage, port |-> p])

Lose ==
  /\ \E d \in wire : wire' = wire \ {d}
  /\ UNCHANGED <<config_ok, platform, running, fd, sockets, took, last>>

-----------------------------------------------------------------------------
(* Receiving into a buffer of max_datagram_size bytes: what is left of a   *)
(* datagram.                                                               *)

(* Faulty: a datagram that fills the buffer counts as too long. *)
LinuxReceived_Short(d) ==
  IF Len(d.bytes) < MaxDatagram THEN d.bytes
  ELSE SubSeq(d.bytes, 1, MaxDatagram - 1)

(* recvfrom drops the rest of a longer datagram without saying so. *)
LinuxReceived(d) ==
  IF Len(d.bytes) =< MaxDatagram THEN d.bytes
  ELSE SubSeq(d.bytes, 1, MaxDatagram)

(* recvfrom returns SOCKET_ERROR for a longer one, and nothing is left. *)
WindowsReceived(d) ==
  IF Len(d.bytes) =< MaxDatagram THEN d.bytes ELSE <<>>

Received(d) ==
  IF platform = "linux" THEN LinuxReceived(d) ELSE WindowsReceived(d)

Read(d) == IF d.port THEN DecodeMessage(Received(d)) ELSE NoMessage

PollTimesOut ==
  /\ running
  /\ took' = NoDatagram
  /\ last' = NoMessage
  /\ UNCHANGED <<config_ok, platform, running, fd, sockets, wire>>

(* Faulty: poll() does not look at running_. *)
PollTakes_AnyTime ==
  /\ \E d \in wire :
       /\ took' = d
       /\ last' = Read(d)
       /\ wire' \in {wire, wire \ {d}}
  /\ UNCHANGED <<config_ok, platform, running, fd, sockets>>

(* The network may deliver the same datagram again later.                  *)
PollTakes ==
  /\ running
  /\ \E d \in wire :
       /\ took' = d
       /\ last' = Read(d)
       /\ wire' \in {wire, wire \ {d}}
  /\ UNCHANGED <<config_ok, platform, running, fd, sockets>>

Next ==
  \/ Start
  \/ Stop
  \/ \E m \in Messages : Send(m) \/ PeerSend(m)
  \/ \E b \in Foreign, p \in BOOLEAN : ForeignSend(b, p)
  \/ Lose
  \/ PollTimesOut
  \/ PollTakes

Spec == Init /\ [][Next]_vars

-----------------------------------------------------------------------------
(* Properties *)

(* start() and stop(): while the backend runs it holds one socket, bound,  *)
(* with every option, the receive timeout poll() depends on among them; in *)
(* every other state the process has no socket of it open.                 *)
SocketInStep ==
  /\ running => DOMAIN sockets = {fd} /\ sockets[fd] = Options
  /\ ~ running => DOMAIN sockets = {} /\ fd = NoFd

(* poll(): a message of a node is handed over as it was sent or not at     *)
(* all, however short the receive buffer.                                  *)
WholeOrNothing ==
  took.from # NoMessage => last \in {took.from, NoMessage}

(* poll(): a message of a node that fits into max_datagram_size is not     *)
(* lost between the socket and the caller.                                 *)
FittingAccepted ==
  took.from # NoMessage /\ last = NoMessage =>
    Len(EncodeMessage(took.from)) > MaxDatagram

(* What a datagram in flight may be read as.                               *)
Meaning(d) == IF d.from # NoMessage THEN d.from ELSE Read(d)

Channel ==
  INSTANCE MessageChannel WITH
    Payload <- WireMessage, Nothing <- NoMessage,
    up <- running, got <- last,
    offered <- {Meaning(d) : d \in wire} \ {NoMessage}

(* The backend is a channel that loses, repeats and reorders whole         *)
(* messages and hands them over only while it runs: what DiscoveryEngine   *)
(* assumes of it.                                                          *)
ImplementsChannel == Channel!ChannelSpec
=============================================================================
