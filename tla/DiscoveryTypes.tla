---------------------------- MODULE DiscoveryTypes ----------------------------
(***************************************************************************)
(* The vocabulary shared by every module: the enumerations of              *)
(* include/softadastra/discovery/types, the instants of core::time, and    *)
(* the records that travel in datagrams.  There is no state here.          *)
(*                                                                         *)
(* Abstractions.  A node id is a member of Node; NoNode is the empty       *)
(* string.  An announced endpoint (host and port) is a member of Addr;     *)
(* NoAddr stands for whatever makes an announcement unusable besides its   *)
(* node id: an empty host, port 0, an invalid timestamp, or a payload that *)
(* does not decode.  An announcement's own timestamp is only ever checked  *)
(* for validity by the code, so it has no field here.                      *)
(***************************************************************************)
EXTENDS Integers

CONSTANTS Node, Addr, NoNode, NoAddr

ASSUME IdAssumption == NoNode \notin Node /\ NoAddr \notin Addr

-----------------------------------------------------------------------------
(* Enumerations *)

PeerState == {"Unknown", "Discovered", "Alive", "Stale", "Expired"}

IsValidState(s) == s \in PeerState \ {"Unknown"}

IsAvailable(s) == s \in {"Discovered", "Alive"}

Status == {"Stopped", "Starting", "Running", "Stopping", "Failed"}

MessageType == {"Unknown", "Announce", "Probe", "Reply"}

-----------------------------------------------------------------------------
(* Instants: a default-constructed Timestamp is invalid, now() never is. *)

NoTime == 0

IsValidTime(t) == t > NoTime

-----------------------------------------------------------------------------
(* Announcements and messages *)

Announcement == [node_id : Node \cup {NoNode}, addr : Addr \cup {NoAddr}]

IsValidAnnouncement(a) == a.node_id # NoNode /\ a.addr # NoAddr

(***************************************************************************)
(* A received envelope: its message type and sender, the announcement its  *)
(* payload decodes to, and whether it carries a source endpoint.           *)
(***************************************************************************)
Message == [type : MessageType, from : Node \cup {NoNode},
            ann : Announcement, has_source : BOOLEAN]

IsValidMessage(m) == m.type # "Unknown" /\ m.from # NoNode
=============================================================================
