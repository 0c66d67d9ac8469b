--------------------------- MODULE DiscoveryRegistry ---------------------------
(***************************************************************************)
(* peer/DiscoveryRegistry.hpp as a component of its own: one registry, a   *)
(* caller that uses the whole public interface in any order, and a clock   *)
(* that advances between calls.  The engine uses a few of these methods;   *)
(* an application that keeps its own registry may use all of them.         *)
(*                                                                         *)
(* Queries (get, entries, by_state, ...) and calls that return before they *)
(* change anything are stuttering steps.  The pointer that find() hands    *)
(* out is only used the way the methods of the class use it.               *)
(***************************************************************************)
EXTENDS PeerRegistry

CONSTANTS
  Windows,   \* the <<stale_after, expire_after>> pairs passed to refresh_states
  MaxTime    \* bound on the clock

ASSUME RegistryAssumption ==
  /\ MaxTime \in Nat \ {0}
  /\ Windows \subseteq Nat \X Nat

VARIABLES
  peers,     \* peers_
  now,       \* what Timestamp::now() returns
  call       \* history: the last call that changed the registry

vars == <<peers, now, call>>

Op == {"none", "upsert", "announce", "erase", "state", "touch", "refresh", "prune", "clear"}

(* at, stale and expire are the arguments of refresh_states, else NoTime. *)
Call == [op : Op, at : Nat, stale : Nat, expire : Nat]

Called(op) == [op |-> op, at |-> NoTime, stale |-> NoTime, expire |-> NoTime]

TypeOK ==
  /\ IsRegistry(peers)
  /\ now \in 1..MaxTime
  /\ call \in Call

Init ==
  /\ peers = NoPeers
  /\ now = 1
  /\ call = Called("none")

-----------------------------------------------------------------------------
(* The interface *)

Do(op, reg) == peers' = reg /\ call' = Called(op) /\ UNCHANGED now

Insert(p) == Do("upsert", Upsert(peers, p))

Announced(a) == Do("announce", UpsertAnnouncement(peers, a, now))

EraseOne(n) == n \in DOMAIN peers /\ Do("erase", Erase(peers, {n}))

(* Faulty: the state changes without a sighting being recorded. *)
SetState_NoTouch(n, s) ==
  /\ n \in DOMAIN peers
  /\ IsValidState(s)
  /\ Do("state", Put(peers, n, [peers[n] EXCEPT !.state = s]))

(* Faulty: the validity of the new state is not checked. *)
SetState_Unchecked(n, s) ==
  /\ n \in DOMAIN peers
  /\ Do("state", Put(peers, n, MarkAs(peers[n], s, now)))

(* set_state, and mark_discovered, mark_alive, mark_stale, mark_expired. *)
SetState(n, s) ==
  /\ n \in DOMAIN peers
  /\ IsValidState(s)
  /\ Do("state", Put(peers, n, MarkAs(peers[n], s, now)))

(* touch() and mark_error() record the current instant. *)
TouchNow(n) == n \in DOMAIN peers /\ Do("touch", Put(peers, n, Touch(peers[n], now)))

TouchAt(n, t) ==
  /\ IsValidTime(t)
  /\ n \in DOMAIN peers
  /\ Do("touch", Put(peers, n, Touch(peers[n], t)))

(* The caller chooses the instant: it may be invalid, or not the current one. *)
Refresh(t, stale_after, expire_after) ==
  /\ IsValidTime(t)
  /\ peers' = RefreshStates(peers, t, stale_after, expire_after)
  /\ call' = [op |-> "refresh", at |-> t, stale |-> stale_after, expire |-> expire_after]
  /\ UNCHANGED now

Prune == Do("prune", PruneExpired(peers))

Clear == Do("clear", NoPeers)

Tick == now < MaxTime /\ now' = now + 1 /\ UNCHANGED <<peers, call>>

Next ==
  \/ \E p \in [ann : Announcement, state : PeerState, last_seen : 0..MaxTime] : Insert(p)
  \/ \E a \in Announcement : Announced(a)
  \/ \E n \in Node : EraseOne(n) \/ TouchNow(n)
  \/ \E n \in Node, s \in PeerState : SetState(n, s)
  \/ \E n \in Node, t \in 0..MaxTime : TouchAt(n, t)
  \/ \E t \in 0..MaxTime, w \in Windows : Refresh(t, w[1], w[2])
  \/ Prune
  \/ Clear
  \/ Tick

Spec == Init /\ [][Next]_vars

-----------------------------------------------------------------------------
(* Properties *)

(* Every entry is filed under the node id of its own announcement and is   *)
(* valid: upsert (which moves the peer away), upsert_announcement and the  *)
(* setters never leave a key that find() would resolve to another peer.    *)
EntriesValid == WellFiled(peers)

(* Right after refresh_states, no peer seen at a valid instant is both     *)
(* available and older than either window, whatever order the windows are  *)
(* in and whatever the calls before did to states and instants.            *)
RefreshSettles ==
  call.op = "refresh" =>
    \A n \in AvailablePeers(peers) :
      IsValidTime(peers[n].last_seen) =>
        call.at - peers[n].last_seen < call.stale /\ call.at - peers[n].last_seen < call.expire

(* refresh_states only ages: it never makes a peer available, and keeps    *)
(* membership, announcements and the instants peers were last seen.        *)
RefreshOnlyAges ==
  [][call'.op = "refresh" =>
       /\ DOMAIN peers' = DOMAIN peers
       /\ AvailablePeers(peers') \subseteq AvailablePeers(peers)
       /\ \A n \in DOMAIN peers :
            peers'[n].ann = peers[n].ann /\ peers'[n].last_seen = peers[n].last_seen]_vars

(* A peer that was unavailable becomes available only with a fresh instant *)
(* (so the next refresh does not undo it), unless the caller replaced the  *)
(* whole entry; and only an Expired peer is pruned.                        *)
RevivalIsFresh ==
  [][/\ \A n \in AvailablePeers(peers') \ AvailablePeers(peers) :
          call'.op = "upsert" \/ peers'[n].last_seen = now
     /\ \A n \in DOMAIN peers \ DOMAIN peers' :
          call'.op = "prune" => peers[n].state = "Expired"]_vars

(* The comment of refresh_states: "Peers older than expire_after become    *)
(* Expired."  A peer that is Expired already is made Stale instead.        *)
OldPeersExpire ==
  call.op = "refresh" =>
    \A n \in DOMAIN peers :
      IsValidTime(peers[n].last_seen) /\ call.at - peers[n].last_seen >= call.expire
        => peers[n].state = "Expired"
=============================================================================
