------------------------- MODULE DiscoveryConfiguration -------------------------
(***************************************************************************)
(* What a node is configured with, and what the sockets make of it: the    *)
(* public DiscoveryOptions, the DiscoveryConfig they are converted to, and *)
(* the conversion of a duration to the receive timeout of each platform.   *)
(*                                                                         *)
(* A host is one of the addresses the presets use, or NoHost.  Ports,       *)
(* milliseconds and bytes are integers; a node id is opaque.  There is no  *)
(* state here.                                                             *)
(***************************************************************************)
EXTENDS Integers

CONSTANTS
  Id, NoId,     \* node ids, and the empty one
  Host, NoHost, \* addresses, and the empty one
  DwordMod      \* 2^32 in the code: the values of a DWORD

ASSUME ConfigurationAssumption ==
  /\ NoId \notin Id
  /\ DwordMod \in Nat \ {0, 1}
  /\ {"any", "loopback", "broadcast"} \subseteq Host
  /\ NoHost \notin Host

Port == 0..65535

(* A record with the given fields assigned, as after construction. *)
With(record, fields) ==
  [f \in DOMAIN record |-> IF f \in DOMAIN fields THEN fields[f] ELSE record[f]]

-----------------------------------------------------------------------------
(* DiscoveryConfig: the member initializers, the constructor, the presets. *)

DefaultConfig ==
  [node_id |-> NoId,
   bind_host |-> "any", bind_port |-> 0,
   broadcast_host |-> "broadcast", broadcast_port |-> 0,
   announce_host |-> "loopback", announce_port |-> 0,
   announce_interval |-> 3000, peer_ttl |-> 15000, enable_broadcast |-> TRUE,
   max_datagram_size |-> 64 * 1024]

NewConfig(id, bind_port, announce_port) ==
  With(DefaultConfig,
       [node_id |-> id, bind_port |-> bind_port, broadcast_port |-> bind_port,
        announce_port |-> announce_port])

LocalConfig(id, bind_port, announce_port) ==
  With(NewConfig(id, bind_port, announce_port),
       [bind_host |-> "loopback", broadcast_host |-> "loopback",
        announce_host |-> "loopback"])

LanConfig(id, bind_port, announce_port) ==
  With(NewConfig(id, bind_port, announce_port),
       [bind_host |-> "any", broadcast_host |-> "broadcast", announce_host |-> "loopback",
        enable_broadcast |-> TRUE])

ValidConfig(c) ==
  /\ c.bind_host # NoHost /\ c.bind_port # 0
  /\ c.broadcast_host # NoHost /\ c.broadcast_port # 0
  /\ c.node_id # NoId
  /\ c.announce_host # NoHost /\ c.announce_port # 0
  /\ c.announce_interval > 0
  /\ c.peer_ttl > 0
  /\ c.max_datagram_size > 0

-----------------------------------------------------------------------------
(* DiscoveryOptions *)

DefaultOptions ==
  [node_id |-> NoId,
   bind_host |-> "any", bind_port |-> 9400,
   broadcast_host |-> "broadcast", broadcast_port |-> 9400,
   announce_host |-> "loopback", announce_port |-> 0,
   announce_interval |-> 3000, peer_ttl |-> 15000, enable_broadcast |-> TRUE]

NewOptions(id, announce_port) ==
  With(DefaultOptions, [node_id |-> id, announce_port |-> announce_port])

LocalOptions(id, bind_port, announce_port) ==
  With(NewOptions(id, announce_port),
       [bind_host |-> "loopback", bind_port |-> bind_port,
        broadcast_host |-> "loopback", broadcast_port |-> bind_port,
        announce_host |-> "loopback"])

(* Faulty: announcements go to the default port, wherever the nodes listen. *)
LanOptions_DefaultPort(id, bind_port, announce_port) ==
  With(NewOptions(id, announce_port),
       [bind_host |-> "any", bind_port |-> bind_port, broadcast_host |-> "broadcast",
        announce_host |-> "loopback", enable_broadcast |-> TRUE])

LanOptions(id, bind_port, announce_port) ==
  With(NewOptions(id, announce_port),
       [bind_host |-> "any", bind_port |-> bind_port,
        broadcast_host |-> "broadcast", broadcast_port |-> bind_port,
        announce_host |-> "loopback", enable_broadcast |-> TRUE])

(* Faulty: a port of zero is taken for one the system will choose. *)
ValidOptions_AnyPort(o) ==
  /\ o.node_id # NoId
  /\ o.bind_host # NoHost /\ o.bind_port # 0
  /\ o.broadcast_host # NoHost /\ o.broadcast_port # 0
  /\ o.announce_host # NoHost
  /\ o.announce_interval > 0
  /\ o.peer_ttl > 0

ValidOptions(o) ==
  /\ o.node_id # NoId
  /\ o.bind_host # NoHost /\ o.bind_port # 0
  /\ o.broadcast_host # NoHost /\ o.broadcast_port # 0
  /\ o.announce_host # NoHost /\ o.announce_port # 0
  /\ o.announce_interval > 0
  /\ o.peer_ttl > 0

(* Every field is copied; max_datagram_size keeps its default. *)
ToConfig(o) == With(DefaultConfig, o)

-----------------------------------------------------------------------------
(* Socket timeouts: what make_timeval and make_timeout_ms hand to the       *)
(* operating system, to which zero means waiting without limit.             *)

MakeTimeval(millis) ==
  IF millis =< 0 THEN [sec |-> 0, usec |-> 0]
  ELSE [sec |-> millis \div 1000, usec |-> (millis % 1000) * 1000]

UINT32_MAX == DwordMod - 1

(* Faulty: the conversion to DWORD wraps around. *)
MakeTimeoutMs_Wraps(millis) == IF millis =< 0 THEN 0 ELSE millis % DwordMod

MakeTimeoutMs(millis) ==
  IF millis =< 0 THEN 0 ELSE IF millis > UINT32_MAX THEN UINT32_MAX ELSE millis
=============================================================================
