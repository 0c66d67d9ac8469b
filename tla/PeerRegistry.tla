----------------------------- MODULE PeerRegistry -----------------------------
(***************************************************************************)
(* The methods of DiscoveredPeer and DiscoveryRegistry as operators: each  *)
(* takes the value it works on, and the instant Timestamp::now() returns,  *)
(* and gives the value it leaves.  A registry (the unordered_map peers_)   *)
(* is a function whose domain is the set of node ids it holds.             *)
(*                                                                         *)
(* error_count is left out: mark_error increments it and nothing in the    *)
(* library reads it.  What mark_error does to last_seen_at is kept.        *)
(***************************************************************************)
EXTENDS DiscoveryTypes, Functions

-----------------------------------------------------------------------------
(* DiscoveredPeer *)

Peer == [ann : Announcement, state : PeerState, last_seen : Nat]

IsValidPeer(p) == IsValidAnnouncement(p.ann) /\ IsValidState(p.state)

Touch(p, t) == [p EXCEPT !.last_seen = t]

MarkAs(p, s, t) == Touch([p EXCEPT !.state = s], t)

NewPeer(a, t) == [ann |-> a, state |-> "Discovered", last_seen |-> t]

(* Faulty: the endpoint first heard of is kept. *)
UpdatePeer_KeepsEndpoint(p, a, t) == MarkAs(p, "Alive", t)

UpdatePeer(p, a, t) == MarkAs([p EXCEPT !.ann = a], "Alive", t)

-----------------------------------------------------------------------------
(* DiscoveryRegistry: entries *)

IsRegistry(reg) ==
  /\ DOMAIN reg \subseteq Node
  /\ reg = [n \in DOMAIN reg |-> reg[n]]
  /\ \A n \in DOMAIN reg : reg[n] \in Peer

(* Every entry is valid and filed under the node id it announces. *)
WellFiled(reg) == \A n \in DOMAIN reg : reg[n].ann.node_id = n /\ IsValidPeer(reg[n])

NoPeers == [n \in {} |-> NewPeer([node_id |-> n, addr |-> NoAddr], NoTime)]

Put(reg, n, p) == [m \in DOMAIN reg \cup {n} |-> IF m = n THEN p ELSE reg[m]]

(* Faulty: the validity check is missing. *)
Upsert_Unchecked(reg, p) == Put(reg, p.ann.node_id, p)

Upsert(reg, p) == IF IsValidPeer(p) THEN Put(reg, p.ann.node_id, p) ELSE reg

UpsertAnnouncement(reg, a, t) ==
  IF ~ IsValidAnnouncement(a) THEN reg
  ELSE IF a.node_id \in DOMAIN reg
       THEN Put(reg, a.node_id, UpdatePeer(reg[a.node_id], a, t))
       ELSE Upsert(reg, MarkAs(NewPeer(a, t), "Alive", t))

Erase(reg, S) == Restrict(reg, DOMAIN reg \ S)

-----------------------------------------------------------------------------
(* DiscoveryRegistry: aging *)

(* Faulty: only Alive peers are looked at, not Discovered ones. *)
RefreshPeer_AliveOnly(p, t, stale_after, expire_after) ==
  IF IsValidTime(p.last_seen) /\ t - p.last_seen >= stale_after /\ p.state = "Alive"
  THEN [p EXCEPT !.state = "Stale"]
  ELSE p

(* Faulty: a Stale verdict counts as a sighting, as in mark_stale(). *)
RefreshPeer_Touches(p, t, stale_after, expire_after) ==
  IF IsValidTime(p.last_seen) /\ t - p.last_seen >= stale_after
  THEN MarkAs(p, IF t - p.last_seen >= expire_after THEN "Expired" ELSE "Stale", t)
  ELSE p

(***************************************************************************)
(* The body of the loop of refresh_states.  Note the second test: it is    *)
(* reached by a peer that is past expire_after and already Expired, and    *)
(* makes that peer Stale.                                                  *)
(***************************************************************************)
RefreshPeer(p, t, stale_after, expire_after) ==
  LET age == t - p.last_seen
  IN  IF ~ IsValidTime(p.last_seen) THEN p
      ELSE IF age >= expire_after /\ p.state # "Expired"
           THEN [p EXCEPT !.state = "Expired"]
      ELSE IF age >= stale_after /\ p.state # "Stale"
           THEN [p EXCEPT !.state = "Stale"]
      ELSE p

RefreshStates(reg, t, stale_after, expire_after) ==
  IF IsValidTime(t)
  THEN [n \in DOMAIN reg |-> RefreshPeer(reg[n], t, stale_after, expire_after)]
  ELSE reg

-----------------------------------------------------------------------------
(* DiscoveryRegistry: queries *)

ByState(reg, s) == {n \in DOMAIN reg : reg[n].state = s}

PruneExpired(reg) == Erase(reg, ByState(reg, "Expired"))

AvailablePeers(reg) == {n \in DOMAIN reg : IsAvailable(reg[n].state)}
=============================================================================
