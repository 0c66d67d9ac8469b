-------------------------- MODULE PeerRegistry_proofs --------------------------
(***************************************************************************)
(* What the operations on peers and registries return, for every set of    *)
(* nodes and endpoints.  The proofs about the components cite these facts  *)
(* and do not look into the operations again.                              *)
(***************************************************************************)
EXTENDS PeerRegistry, TLAPS

(* Put files one peer and leaves the others alone. *)
LEMMA PutFacts ==
  ASSUME NEW reg, IsRegistry(reg), NEW n \in Node, NEW p \in Peer
  PROVE  /\ IsRegistry(Put(reg, n, p))
         /\ DOMAIN Put(reg, n, p) = DOMAIN reg \cup {n}
         /\ Put(reg, n, p)[n] = p
         /\ \A m \in DOMAIN reg \ {n} : Put(reg, n, p)[m] = reg[m]
BY DEF IsRegistry, Put

(* Erase removes the given ids and leaves the others alone. *)
LEMMA EraseFacts ==
  ASSUME NEW reg, IsRegistry(reg), NEW S
  PROVE  /\ IsRegistry(Erase(reg, S))
         /\ DOMAIN Erase(reg, S) = DOMAIN reg \ S
         /\ \A m \in DOMAIN reg \ S : Erase(reg, S)[m] = reg[m]
BY DEF IsRegistry, Erase, Restrict

LEMMA NoPeersFacts == IsRegistry(NoPeers) /\ DOMAIN NoPeers = {}
BY DEF IsRegistry, NoPeers

(* mark_*() and touch(), field by field. *)
LEMMA MarkAsFacts ==
  ASSUME NEW p \in Peer, NEW s \in PeerState, NEW t \in Nat
  PROVE  /\ MarkAs(p, s, t) \in Peer
         /\ MarkAs(p, s, t) = [ann |-> p.ann, state |-> s, last_seen |-> t]
<1> DEFINE q == [p EXCEPT !.state = s]
           r == [q EXCEPT !.last_seen = t]
<1>1. q \in Peer /\ q.ann = p.ann /\ q.state = s
  BY DEF Peer
<1> HIDE DEF q
<1>2. r \in Peer /\ r.ann = q.ann /\ r.state = q.state /\ r.last_seen = t
  BY <1>1 DEF Peer
<1>3. MarkAs(p, s, t) = r
  BY DEF MarkAs, Touch, q
<1> HIDE DEF r
<1>4. r = [ann |-> r.ann, state |-> r.state, last_seen |-> r.last_seen]
  BY <1>2 DEF Peer
<1> QED
  BY <1>1, <1>2, <1>3, <1>4

LEMMA TouchFacts ==
  ASSUME NEW p \in Peer, NEW t \in Nat
  PROVE  /\ Touch(p, t) \in Peer
         /\ Touch(p, t).ann = p.ann
         /\ Touch(p, t).state = p.state
         /\ Touch(p, t).last_seen = t
BY DEF Peer, Touch

(* The node id of a valid announcement is a key. *)
LEMMA ValidKey ==
  ASSUME NEW a \in Announcement, IsValidAnnouncement(a)
  PROVE  a.node_id \in Node /\ a.addr \in Addr
BY DEF Announcement, IsValidAnnouncement

(* A valid announcement files exactly one entry: alive, seen now, with the *)
(* announced endpoint, whether the node was known or not.                  *)
LEMMA UpsertAnnouncementFacts ==
  ASSUME NEW reg, IsRegistry(reg), NEW a \in Announcement, NEW t \in Nat,
         IsValidAnnouncement(a)
  PROVE  LET new == UpsertAnnouncement(reg, a, t)
         IN  /\ IsRegistry(new)
             /\ DOMAIN new = DOMAIN reg \cup {a.node_id}
             /\ new[a.node_id] = [ann |-> a, state |-> "Alive", last_seen |-> t]
             /\ \A m \in DOMAIN reg \ {a.node_id} : new[m] = reg[m]
<1> DEFINE alive == [ann |-> a, state |-> "Alive", last_seen |-> t]
<1>1. a.node_id \in Node
  BY ValidKey
<1>2. alive \in Peer /\ IsValidPeer(alive) /\ alive.ann = a
  BY DEF Peer, PeerState, IsValidPeer, IsValidState
<1>3. MarkAs(NewPeer(a, t), "Alive", t) = alive
  BY MarkAsFacts DEF NewPeer, Peer, PeerState
<1>4. ASSUME a.node_id \in DOMAIN reg
      PROVE  UpdatePeer(reg[a.node_id], a, t) = alive
  <2> DEFINE p == [reg[a.node_id] EXCEPT !.ann = a]
  <2>1. p \in Peer /\ p.ann = a
    BY <1>4 DEF IsRegistry, Peer
  <2>2. UpdatePeer(reg[a.node_id], a, t) = MarkAs(p, "Alive", t)
    BY DEF UpdatePeer
  <2> HIDE DEF p
  <2>3. "Alive" \in PeerState
    BY DEF PeerState
  <2> QED
    BY <2>1, <2>2, <2>3, MarkAsFacts
<1>5. UpsertAnnouncement(reg, a, t) = Put(reg, a.node_id, alive)
  BY <1>2, <1>3, <1>4 DEF UpsertAnnouncement, Upsert
<1> DEFINE key == a.node_id
           new == Put(reg, key, alive)
<1> HIDE DEF alive, key
<1>6. /\ IsRegistry(new)
      /\ DOMAIN new = DOMAIN reg \cup {key}
      /\ new[key] = alive
      /\ \A m \in DOMAIN reg \ {key} : new[m] = reg[m]
  <2>1. key \in Node
    BY <1>1, Zenon DEF key
  <2> QED
    BY ONLY IsRegistry(reg), <2>1, <1>2, PutFacts, Zenon
<1>7. UpsertAnnouncement(reg, a, t) = new
  BY <1>5, Zenon DEF key
<1> HIDE DEF new
<1> QED
  BY <1>6, <1>7, Zenon DEF alive, key

(* A duplicate received at the same instant changes nothing. *)
THEOREM UpsertAnnouncementIdempotent ==
  ASSUME NEW reg, IsRegistry(reg), NEW a \in Announcement, NEW t \in Nat
  PROVE  UpsertAnnouncement(UpsertAnnouncement(reg, a, t), a, t) = UpsertAnnouncement(reg, a, t)
<1>1. CASE ~ IsValidAnnouncement(a)
  BY <1>1 DEF UpsertAnnouncement
<1>2. CASE IsValidAnnouncement(a)
  <2> DEFINE once  == UpsertAnnouncement(reg, a, t)
             twice == UpsertAnnouncement(once, a, t)
  <2>1. /\ IsRegistry(once)
        /\ DOMAIN once = DOMAIN reg \cup {a.node_id}
        /\ once[a.node_id] = [ann |-> a, state |-> "Alive", last_seen |-> t]
    BY <1>2, UpsertAnnouncementFacts
  <2> HIDE DEF once
  <2>2. /\ IsRegistry(twice)
        /\ DOMAIN twice = DOMAIN once
        /\ twice[a.node_id] = once[a.node_id]
        /\ \A m \in DOMAIN once \ {a.node_id} : twice[m] = once[m]
    BY <1>2, <2>1, UpsertAnnouncementFacts
  <2> HIDE DEF twice
  <2>3. \A m \in DOMAIN once : twice[m] = once[m]
    BY <2>2
  <2>4. twice = once
    BY <2>1, <2>2, <2>3 DEF IsRegistry
  <2> QED
    BY <2>4 DEF twice, once
<1> QED
  BY <1>1, <1>2

(* One peer under refresh: it keeps what is not a verdict, is not revived, *)
(* and is no longer available when it is older than either window.         *)
LEMMA RefreshPeerFacts ==
  ASSUME NEW p \in Peer, NEW t \in Nat, NEW stale_after \in Int, NEW expire_after \in Int
  PROVE  LET new == RefreshPeer(p, t, stale_after, expire_after)
             age == t - p.last_seen
         IN  /\ new \in Peer
             /\ new.ann = p.ann
             /\ new.last_seen = p.last_seen
             /\ \/ new.state = p.state
                \/ new.state = "Expired" /\ age >= expire_after /\ IsValidTime(p.last_seen)
                \/ new.state = "Stale" /\ age >= stale_after /\ IsValidTime(p.last_seen)
             /\ IsAvailable(new.state) =>
                  /\ IsAvailable(p.state)
                  /\ IsValidTime(p.last_seen) => age < stale_after /\ age < expire_after
BY DEF RefreshPeer, Peer, PeerState, IsAvailable

(* A refresh never makes a peer available. *)
LEMMA RefreshNeverOffers ==
  ASSUME NEW p \in Peer, NEW t \in Nat, NEW stale_after \in Int, NEW expire_after \in Int,
         IsAvailable(RefreshPeer(p, t, stale_after, expire_after).state)
  PROVE  IsAvailable(p.state)
BY DEF RefreshPeer, Peer, PeerState, IsAvailable

(* The whole registry under refresh: the same entries, each one refreshed. *)
LEMMA RefreshStatesFacts ==
  ASSUME NEW reg, IsRegistry(reg), NEW t \in Nat, NEW stale_after \in Int, NEW expire_after \in Int
  PROVE  LET new == RefreshStates(reg, t, stale_after, expire_after)
         IN  /\ IsRegistry(new)
             /\ DOMAIN new = DOMAIN reg
             /\ IsValidTime(t) =>
                  \A n \in DOMAIN reg : new[n] = RefreshPeer(reg[n], t, stale_after, expire_after)
<1>1. \A n \in DOMAIN reg : RefreshPeer(reg[n], t, stale_after, expire_after) \in Peer
  BY RefreshPeerFacts DEF IsRegistry
<1> QED
  BY <1>1 DEF RefreshStates, IsRegistry

-----------------------------------------------------------------------------
(* Entries stay valid and under their own key. *)

LEMMA PutFiled ==
  ASSUME NEW reg, IsRegistry(reg), WellFiled(reg), NEW n \in Node, NEW p \in Peer
  PROVE  p.ann.node_id = n /\ IsValidPeer(p) => WellFiled(Put(reg, n, p))
BY DEF WellFiled, Put

LEMMA EraseFiled ==
  ASSUME NEW reg, IsRegistry(reg), WellFiled(reg), NEW S
  PROVE  WellFiled(Erase(reg, S))
<1> DEFINE new == Erase(reg, S)
<1>1. DOMAIN new = DOMAIN reg \ S /\ \A m \in DOMAIN reg \ S : new[m] = reg[m]
  BY EraseFacts
<1> HIDE DEF new
<1>2. WellFiled(new)
  BY <1>1 DEF WellFiled
<1> QED
  BY <1>2 DEF new

(* Upserting a whole entry: an invalid one is ignored. *)
LEMMA UpsertFiled ==
  ASSUME NEW reg, IsRegistry(reg), WellFiled(reg), NEW p \in Peer
  PROVE  IsRegistry(Upsert(reg, p)) /\ WellFiled(Upsert(reg, p))
<1>1. CASE ~ IsValidPeer(p)
  BY <1>1 DEF Upsert
<1>2. CASE IsValidPeer(p)
  <2>1. p.ann.node_id \in Node
    BY <1>2, ValidKey DEF IsValidPeer, Peer
  <2>2. Upsert(reg, p) = Put(reg, p.ann.node_id, p)
    BY <1>2 DEF Upsert
  <2>3. IsRegistry(Put(reg, p.ann.node_id, p))
    BY <2>1, PutFacts
  <2>4. WellFiled(Put(reg, p.ann.node_id, p))
    BY <1>2, <2>1, PutFiled
  <2> QED
    BY <2>2, <2>3, <2>4
<1> QED
  BY <1>1, <1>2

LEMMA UpsertAnnouncementFiled ==
  ASSUME NEW reg, IsRegistry(reg), WellFiled(reg), NEW a \in Announcement, NEW t \in Nat
  PROVE  IsRegistry(UpsertAnnouncement(reg, a, t)) /\ WellFiled(UpsertAnnouncement(reg, a, t))
<1>1. CASE ~ IsValidAnnouncement(a)
  BY <1>1 DEF UpsertAnnouncement
<1>2. CASE IsValidAnnouncement(a)
  <2> DEFINE new == UpsertAnnouncement(reg, a, t)
             alive == [ann |-> a, state |-> "Alive", last_seen |-> t]
  <2>1. /\ IsRegistry(new)
        /\ DOMAIN new = DOMAIN reg \cup {a.node_id}
        /\ new[a.node_id] = alive
        /\ \A m \in DOMAIN reg \ {a.node_id} : new[m] = reg[m]
    BY <1>2, UpsertAnnouncementFacts
  <2> HIDE DEF new
  <2>2. IsValidPeer(alive) /\ alive.ann.node_id = a.node_id
    BY <1>2 DEF IsValidPeer, IsValidState, PeerState
  <2>3. WellFiled(new)
    BY <2>1, <2>2 DEF WellFiled
  <2> QED
    BY <2>1, <2>3 DEF new
<1> QED
  BY <1>1, <1>2

LEMMA RefreshStatesFiled ==
  ASSUME NEW reg, IsRegistry(reg), WellFiled(reg), NEW t \in Nat,
         NEW stale_after \in Int, NEW expire_after \in Int
  PROVE  WellFiled(RefreshStates(reg, t, stale_after, expire_after))
<1> DEFINE new == RefreshStates(reg, t, stale_after, expire_after)
<1>1. CASE ~ IsValidTime(t)
  BY <1>1 DEF RefreshStates
<1>2. CASE IsValidTime(t)
  <2>1. /\ DOMAIN new = DOMAIN reg
        /\ \A n \in DOMAIN reg : new[n] = RefreshPeer(reg[n], t, stale_after, expire_after)
    BY <1>2, RefreshStatesFacts
  <2> HIDE DEF new
  <2>2. ASSUME NEW n \in DOMAIN reg
        PROVE  new[n].ann = reg[n].ann /\ new[n].state \in {reg[n].state, "Expired", "Stale"}
    <3>1. reg[n] \in Peer
      BY DEF IsRegistry
    <3> QED
      BY <2>1, <3>1, RefreshPeerFacts
  <2>3. WellFiled(new)
    BY <2>1, <2>2 DEF WellFiled, IsValidPeer, IsValidState, PeerState
  <2> QED
    BY <2>3 DEF new
<1> QED
  BY <1>1, <1>2
=============================================================================
