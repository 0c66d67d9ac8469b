------------------------ MODULE DiscoveryRegistry_proofs ------------------------
(***************************************************************************)
(* The guarantees of one DiscoveryRegistry, for every set of nodes and     *)
(* endpoints, every pair of windows and every length of run.  TypeOK and   *)
(* EntriesValid together are inductive; the guarantees about a refresh     *)
(* follow from what RefreshPeer does to one well-typed peer.               *)
(***************************************************************************)
EXTENDS DiscoveryRegistry, PeerRegistry_proofs

LEMMA InitFacts == Init => TypeOK /\ EntriesValid /\ RefreshSettles
BY RegistryAssumption, NoPeersFacts
   DEF Init, TypeOK, EntriesValid, WellFiled, RefreshSettles, Call, Called, Op, NoTime

(* A call that leaves a good registry leaves a good state. *)
LEMMA DoGood ==
  ASSUME TypeOK, NEW op \in Op, NEW reg, IsRegistry(reg), WellFiled(reg), Do(op, reg)
  PROVE  TypeOK' /\ EntriesValid'
<1>1. TypeOK'
  BY DEF TypeOK, Do, Call, Called, NoTime, IsRegistry
<1>2. EntriesValid'
  BY DEF EntriesValid, WellFiled, Do
<1> QED
  BY <1>1, <1>2

(* Every step keeps the registry typed and its entries valid. *)
LEMMA StepGood ==
  ASSUME TypeOK, EntriesValid, Next
  PROVE  TypeOK' /\ EntriesValid'
<1>0. IsRegistry(peers) /\ WellFiled(peers) /\ now \in Nat
  BY RegistryAssumption DEF TypeOK, EntriesValid
<1>op. {"upsert", "announce", "erase", "state", "touch", "prune", "clear"} \subseteq Op
  BY DEF Op
<1>1. ASSUME NEW p \in [ann : Announcement, state : PeerState, last_seen : 0..MaxTime],
             Insert(p)
      PROVE  TypeOK' /\ EntriesValid'
  <2>1. p \in Peer
    BY RegistryAssumption DEF Peer
  <2>2. IsRegistry(Upsert(peers, p)) /\ WellFiled(Upsert(peers, p))
    BY <1>0, <2>1, UpsertFiled
  <2> QED
    BY <1>1, <1>op, <2>2, DoGood DEF Insert
<1>2. ASSUME NEW a \in Announcement, Announced(a)
      PROVE  TypeOK' /\ EntriesValid'
  <2>1. /\ IsRegistry(UpsertAnnouncement(peers, a, now))
        /\ WellFiled(UpsertAnnouncement(peers, a, now))
    BY <1>0, UpsertAnnouncementFiled
  <2> QED
    BY <1>2, <1>op, <2>1, DoGood DEF Announced
<1>3. ASSUME NEW S, NEW op \in Op, Do(op, Erase(peers, S))
      PROVE  TypeOK' /\ EntriesValid'
  BY <1>0, <1>3, EraseFacts, EraseFiled, DoGood
<1>4. ASSUME NEW n \in DOMAIN peers, NEW p \in Peer, NEW op \in Op,
             p.ann = peers[n].ann, IsValidState(p.state), Do(op, Put(peers, n, p))
      PROVE  TypeOK' /\ EntriesValid'
  <2>1. n \in Node /\ p.ann.node_id = n /\ IsValidPeer(p)
    BY <1>0, <1>4 DEF IsRegistry, WellFiled, IsValidPeer
  <2> QED
    BY <1>0, <1>4, <2>1, PutFacts, PutFiled, DoGood
<1>5. ASSUME NEW n \in DOMAIN peers, NEW t \in Nat,
             Do("touch", Put(peers, n, Touch(peers[n], t)))
      PROVE  TypeOK' /\ EntriesValid'
  <2>1. peers[n] \in Peer /\ IsValidState(peers[n].state)
    BY <1>0 DEF IsRegistry, WellFiled, IsValidPeer
  <2>2. /\ Touch(peers[n], t) \in Peer
        /\ Touch(peers[n], t).ann = peers[n].ann
        /\ IsValidState(Touch(peers[n], t).state)
    BY <2>1, TouchFacts
  <2> QED
    BY <1>4, <1>5, <1>op, <2>2
<1>6. ASSUME NEW n \in Node, NEW s \in PeerState, SetState(n, s)
      PROVE  TypeOK' /\ EntriesValid'
  <2>1. n \in DOMAIN peers /\ IsValidState(s) /\ Do("state", Put(peers, n, MarkAs(peers[n], s, now)))
    BY <1>6 DEF SetState
  <2>2. peers[n] \in Peer
    BY <1>0, <2>1 DEF IsRegistry
  <2>3. /\ MarkAs(peers[n], s, now) \in Peer
        /\ MarkAs(peers[n], s, now).ann = peers[n].ann
        /\ MarkAs(peers[n], s, now).state = s
    BY <1>0, <2>2, MarkAsFacts
  <2> QED
    BY <1>4, <1>op, <2>1, <2>3
<1>7. ASSUME NEW t \in 0..MaxTime, NEW w \in Windows, Refresh(t, w[1], w[2])
      PROVE  TypeOK' /\ EntriesValid'
  <2>1. t \in Nat /\ w[1] \in Nat /\ w[2] \in Nat
    BY RegistryAssumption
  <2>2. IsRegistry(peers') /\ WellFiled(peers')
    BY <1>0, <1>7, <2>1, RefreshStatesFacts, RefreshStatesFiled DEF Refresh
  <2>3. call' \in Call /\ now' = now
    BY <1>7, <2>1 DEF Refresh, Call, Op
  <2> QED
    BY <2>2, <2>3 DEF TypeOK, EntriesValid, IsRegistry, WellFiled
<1>8. CASE Clear
  <2>1. IsRegistry(NoPeers) /\ WellFiled(NoPeers)
    BY NoPeersFacts DEF WellFiled
  <2> QED
    BY <1>8, <1>op, <2>1, DoGood DEF Clear
<1>9. CASE Tick
  BY <1>9, RegistryAssumption DEF Tick, TypeOK, EntriesValid, IsRegistry, WellFiled
<1> QED
  <2>1. ASSUME NEW n \in Node, EraseOne(n) PROVE TypeOK' /\ EntriesValid'
    BY <1>3, <1>op, <2>1 DEF EraseOne
  <2>2. ASSUME NEW n \in Node, TouchNow(n) PROVE TypeOK' /\ EntriesValid'
    BY <1>0, <1>5, <2>2 DEF TouchNow
  <2>3. ASSUME NEW n \in Node, NEW t \in 0..MaxTime, TouchAt(n, t)
        PROVE  TypeOK' /\ EntriesValid'
    BY <1>5, <2>3, RegistryAssumption DEF TouchAt
  <2>4. CASE Prune
    BY <1>3, <1>op, <2>4 DEF Prune, PruneExpired
  <2> QED
    BY <1>1, <1>2, <1>6, <1>7, <1>8, <1>9, <2>1, <2>2, <2>3, <2>4 DEF Next

(* A registry is a well-typed map from node ids to peers in every reachable *)
(* state.                                                                   *)
THEOREM TypeCorrect == Spec => []TypeOK
<1>1. Init => TypeOK /\ EntriesValid
  BY InitFacts
<1>2. TypeOK /\ EntriesValid /\ [Next]_vars => TypeOK' /\ EntriesValid'
  BY StepGood DEF vars, TypeOK, EntriesValid, IsRegistry, WellFiled
<1> QED
  BY <1>1, <1>2, PTL DEF Spec

(* No call ever leaves an entry that is invalid or filed under another id.  *)
THEOREM EntriesAlwaysValid == Spec => []EntriesValid
<1>1. Init => TypeOK /\ EntriesValid
  BY InitFacts
<1>2. TypeOK /\ EntriesValid /\ [Next]_vars => TypeOK' /\ EntriesValid'
  BY StepGood DEF vars, TypeOK, EntriesValid, IsRegistry, WellFiled
<1> QED
  BY <1>1, <1>2, PTL DEF Spec

-----------------------------------------------------------------------------
(* Aging *)

(* A step after which the last call is a refresh is that refresh, or time  *)
(* passing after it.                                                       *)
LEMMA RefreshOrTick ==
  ASSUME Next, call'.op = "refresh"
  PROVE  \/ peers' = peers /\ call' = call
         \/ \E t \in 0..MaxTime, w \in Windows : Refresh(t, w[1], w[2])
<1>1. ASSUME NEW op \in Op \ {"refresh"}, NEW reg, Do(op, reg)
      PROVE  FALSE
  BY <1>1 DEF Do, Called
<1>2. {"upsert", "announce", "erase", "state", "touch", "prune", "clear"} \subseteq Op \ {"refresh"}
  BY DEF Op
<1>3. ASSUME NEW p, Insert(p) PROVE FALSE
  BY <1>1, <1>2, <1>3 DEF Insert
<1>4. ASSUME NEW a, Announced(a) PROVE FALSE
  BY <1>1, <1>2, <1>4 DEF Announced
<1>5. ASSUME NEW n, EraseOne(n) PROVE FALSE
  BY <1>1, <1>2, <1>5 DEF EraseOne
<1>6. ASSUME NEW n, TouchNow(n) PROVE FALSE
  BY <1>1, <1>2, <1>6 DEF TouchNow
<1>7. ASSUME NEW n, NEW t, TouchAt(n, t) PROVE FALSE
  BY <1>1, <1>2, <1>7 DEF TouchAt
<1>8. ASSUME NEW n, NEW s, SetState(n, s) PROVE FALSE
  BY <1>1, <1>2, <1>8 DEF SetState
<1>9. ~ Prune /\ ~ Clear
  BY <1>1, <1>2 DEF Prune, Clear
<1>10. Tick => peers' = peers /\ call' = call
  BY DEF Tick
<1> QED
  BY <1>3, <1>4, <1>5, <1>6, <1>7, <1>8, <1>9, <1>10 DEF Next

(* Each peer after a refresh, as RefreshPeerFacts describes it. *)
LEMMA RefreshFacts ==
  ASSUME TypeOK, NEW t \in 0..MaxTime, NEW w \in Windows, Refresh(t, w[1], w[2])
  PROVE  /\ DOMAIN peers' = DOMAIN peers
         /\ call'.at = t /\ call'.stale = w[1] /\ call'.expire = w[2]
         /\ \A n \in DOMAIN peers :
              /\ peers'[n].ann = peers[n].ann
              /\ peers'[n].last_seen = peers[n].last_seen
              /\ IsAvailable(peers'[n].state) =>
                   /\ IsAvailable(peers[n].state)
                   /\ IsValidTime(peers[n].last_seen) =>
                        t - peers[n].last_seen < w[1] /\ t - peers[n].last_seen < w[2]
<1>1. IsRegistry(peers) /\ t \in Nat /\ w[1] \in Int /\ w[2] \in Int /\ IsValidTime(t)
  BY RegistryAssumption DEF TypeOK, Refresh
<1>2. /\ DOMAIN peers' = DOMAIN peers
      /\ \A n \in DOMAIN peers : peers'[n] = RefreshPeer(peers[n], t, w[1], w[2])
  BY <1>1, RefreshStatesFacts DEF Refresh
<1>3. \A n \in DOMAIN peers : peers[n] \in Peer
  BY <1>1 DEF IsRegistry
<1>4. \A n \in DOMAIN peers :
        /\ peers'[n].ann = peers[n].ann
        /\ peers'[n].last_seen = peers[n].last_seen
        /\ IsAvailable(peers'[n].state) =>
             /\ IsAvailable(peers[n].state)
             /\ IsValidTime(peers[n].last_seen) =>
                  t - peers[n].last_seen < w[1] /\ t - peers[n].last_seen < w[2]
  BY <1>1, <1>2, <1>3, RefreshPeerFacts
<1>5. call'.at = t /\ call'.stale = w[1] /\ call'.expire = w[2]
  BY DEF Refresh
<1> QED
  BY <1>2, <1>4, <1>5

(* After every refresh, whatever was called before it, no peer seen at a   *)
(* valid instant is both available and older than a window.                *)
THEOREM RefreshAlwaysSettles == Spec => []RefreshSettles
<1>1. Init => RefreshSettles
  BY InitFacts
<1>2. TypeOK /\ RefreshSettles /\ [Next]_vars => RefreshSettles'
  <2> SUFFICES ASSUME TypeOK, RefreshSettles, [Next]_vars, call'.op = "refresh",
                      NEW n \in AvailablePeers(peers'), IsValidTime(peers'[n].last_seen)
               PROVE  /\ call'.at - peers'[n].last_seen < call'.stale
                      /\ call'.at - peers'[n].last_seen < call'.expire
    BY DEF RefreshSettles, AvailablePeers
  <2>1. CASE peers' = peers /\ call' = call
    BY <2>1 DEF RefreshSettles, AvailablePeers
  <2>2. ASSUME NEW t \in 0..MaxTime, NEW w \in Windows, Refresh(t, w[1], w[2])
        PROVE  /\ call'.at - peers'[n].last_seen < call'.stale
               /\ call'.at - peers'[n].last_seen < call'.expire
    BY <2>2, RefreshFacts DEF AvailablePeers
  <2> QED
    BY <2>1, <2>2, RefreshOrTick DEF vars
<1> QED
  BY <1>1, <1>2, TypeCorrect, PTL DEF Spec

(* A refresh never revives, adds, removes or touches a peer. *)
THEOREM RefreshAlwaysOnlyAges == Spec => RefreshOnlyAges
<1>1. TypeOK /\ [Next]_vars =>
        [call'.op = "refresh" =>
           /\ DOMAIN peers' = DOMAIN peers
           /\ AvailablePeers(peers') \subseteq AvailablePeers(peers)
           /\ \A n \in DOMAIN peers :
                peers'[n].ann = peers[n].ann /\ peers'[n].last_seen = peers[n].last_seen]_vars
  <2> SUFFICES ASSUME TypeOK, Next, call'.op = "refresh"
               PROVE  /\ DOMAIN peers' = DOMAIN peers
                      /\ AvailablePeers(peers') \subseteq AvailablePeers(peers)
                      /\ \A n \in DOMAIN peers :
                           /\ peers'[n].ann = peers[n].ann
                           /\ peers'[n].last_seen = peers[n].last_seen
    OBVIOUS
  <2>1. CASE peers' = peers /\ call' = call
    BY <2>1
  <2>2. ASSUME NEW t \in 0..MaxTime, NEW w \in Windows, Refresh(t, w[1], w[2])
        PROVE  /\ DOMAIN peers' = DOMAIN peers
               /\ AvailablePeers(peers') \subseteq AvailablePeers(peers)
               /\ \A n \in DOMAIN peers :
                    /\ peers'[n].ann = peers[n].ann
                    /\ peers'[n].last_seen = peers[n].last_seen
    BY <2>2, RefreshFacts DEF AvailablePeers
  <2> QED
    BY <2>1, <2>2, RefreshOrTick
<1> QED
  BY <1>1, TypeCorrect, PTL DEF Spec, RefreshOnlyAges
-----------------------------------------------------------------------------
(* Revival *)

(* What RevivalIsFresh says of one step. *)
RevivedNow ==
  \A n \in AvailablePeers(peers') \ AvailablePeers(peers) :
    call'.op = "upsert" \/ peers'[n].last_seen = now

PrunedWereExpired ==
  \A n \in DOMAIN peers \ DOMAIN peers' :
    call'.op = "prune" => peers[n].state = "Expired"

(* A call that writes one entry. *)
LEMMA PutRevives ==
  ASSUME TypeOK, NEW n \in DOMAIN peers, NEW p \in Peer,
         NEW op, op # "prune", Do(op, Put(peers, n, p)),
         p.last_seen = now \/ p.state = peers[n].state
  PROVE  RevivedNow /\ PrunedWereExpired
<1>1. peers' = Put(peers, n, p) /\ call'.op = op
  BY DEF Do, Called
<1>2. /\ DOMAIN peers' = DOMAIN peers \cup {n}
      /\ peers'[n] = p
      /\ \A m \in DOMAIN peers \ {n} : peers'[m] = peers[m]
  <2>1. IsRegistry(peers)
    BY DEF TypeOK
  <2>2. n \in Node
    BY <2>1 DEF IsRegistry
  <2>3. /\ DOMAIN Put(peers, n, p) = DOMAIN peers \cup {n}
        /\ Put(peers, n, p)[n] = p
        /\ \A m \in DOMAIN peers \ {n} : Put(peers, n, p)[m] = peers[m]
    BY ONLY <2>1, <2>2, p \in Peer, PutFacts
  <2> QED
    BY <1>1, <2>3
<1> QED
  BY <1>1, <1>2 DEF RevivedNow, PrunedWereExpired, AvailablePeers

(* A call that takes entries away. *)
LEMMA EraseRevives ==
  ASSUME TypeOK, NEW S, NEW op, Do(op, Erase(peers, S)),
         op = "prune" => \A n \in DOMAIN peers \cap S : peers[n].state = "Expired"
  PROVE  RevivedNow /\ PrunedWereExpired
<1>1. IsRegistry(peers) /\ peers' = Erase(peers, S) /\ call'.op = op
  BY DEF TypeOK, Do, Called
<1>2. /\ DOMAIN peers' = DOMAIN peers \ S
      /\ \A m \in DOMAIN peers \ S : peers'[m] = peers[m]
  BY <1>1, EraseFacts
<1> QED
  BY <1>1, <1>2 DEF RevivedNow, PrunedWereExpired, AvailablePeers

LEMMA StepRevives ==
  ASSUME TypeOK, Next
  PROVE  RevivedNow /\ PrunedWereExpired
<1>0. IsRegistry(peers) /\ now \in Nat /\ \A n \in DOMAIN peers : peers[n] \in Peer
  BY RegistryAssumption DEF TypeOK, IsRegistry
<1>1. ASSUME NEW p, Insert(p)
      PROVE  RevivedNow /\ PrunedWereExpired
  BY <1>1 DEF Insert, Do, Called, RevivedNow, PrunedWereExpired
<1>2. ASSUME NEW a \in Announcement, Announced(a)
      PROVE  RevivedNow /\ PrunedWereExpired
  <2>1. peers' = UpsertAnnouncement(peers, a, now) /\ call'.op = "announce"
    BY <1>2 DEF Announced, Do, Called
  <2>2. CASE ~ IsValidAnnouncement(a)
    BY <2>1, <2>2 DEF UpsertAnnouncement, RevivedNow, PrunedWereExpired
  <2>3. CASE IsValidAnnouncement(a)
    <3>1. /\ peers'[a.node_id] = [ann |-> a, state |-> "Alive", last_seen |-> now]
          /\ DOMAIN peers' = DOMAIN peers \cup {a.node_id}
          /\ \A m \in DOMAIN peers \ {a.node_id} : peers'[m] = peers[m]
      BY <1>0, <2>1, <2>3, UpsertAnnouncementFacts
    <3>2. peers'[a.node_id].last_seen = now
      BY <3>1
    <3> QED
      BY <2>1, <3>1, <3>2 DEF RevivedNow, PrunedWereExpired, AvailablePeers
  <2> QED
    BY <2>2, <2>3
<1>3. ASSUME NEW n \in Node, EraseOne(n) \/ TouchNow(n)
      PROVE  RevivedNow /\ PrunedWereExpired
  <2>1. CASE EraseOne(n)
    BY <2>1, EraseRevives DEF EraseOne
  <2>2. CASE TouchNow(n)
    <3>1. n \in DOMAIN peers /\ Do("touch", Put(peers, n, Touch(peers[n], now)))
      BY <2>2 DEF TouchNow
    <3> QED
      BY <1>0, <3>1, TouchFacts, PutRevives
  <2> QED
    BY <1>3, <2>1, <2>2
<1>4. ASSUME NEW n \in Node, NEW s \in PeerState, SetState(n, s)
      PROVE  RevivedNow /\ PrunedWereExpired
  <2>1. n \in DOMAIN peers /\ Do("state", Put(peers, n, MarkAs(peers[n], s, now)))
    BY <1>4 DEF SetState
  <2>2. /\ MarkAs(peers[n], s, now) \in Peer
        /\ MarkAs(peers[n], s, now) = [ann |-> peers[n].ann, state |-> s, last_seen |-> now]
    BY <1>0, <2>1, MarkAsFacts
  <2>3. MarkAs(peers[n], s, now).last_seen = now
    BY <2>2
  <2> QED
    BY <2>1, <2>2, <2>3, PutRevives
<1>5. ASSUME NEW n \in Node, NEW t \in 0..MaxTime, TouchAt(n, t)
      PROVE  RevivedNow /\ PrunedWereExpired
  <2>1. n \in DOMAIN peers /\ Do("touch", Put(peers, n, Touch(peers[n], t))) /\ t \in Nat
    BY <1>5, RegistryAssumption DEF TouchAt
  <2> QED
    BY <1>0, <2>1, TouchFacts, PutRevives
<1>6. ASSUME NEW t \in 0..MaxTime, NEW w \in Windows, Refresh(t, w[1], w[2])
      PROVE  RevivedNow /\ PrunedWereExpired
  BY <1>6, RefreshFacts DEF RevivedNow, PrunedWereExpired, AvailablePeers
<1>7. CASE Prune
  BY <1>7, EraseRevives DEF Prune, PruneExpired, ByState
<1>8. CASE Clear
  <2>1. DOMAIN peers' = {} /\ call'.op = "clear"
    BY <1>8, NoPeersFacts DEF Clear, Do, Called
  <2> QED
    BY <2>1 DEF RevivedNow, PrunedWereExpired, AvailablePeers
<1>9. CASE Tick
  BY <1>9 DEF Tick, RevivedNow, PrunedWereExpired
<1> QED
  BY <1>1, <1>2, <1>3, <1>4, <1>5, <1>6, <1>7, <1>8, <1>9 DEF Next

(* An unavailable peer becomes available only with a fresh instant, unless *)
(* its whole entry was replaced, and only Expired peers are pruned.        *)
THEOREM RevivalAlwaysFresh == Spec => RevivalIsFresh
<1>1. TypeOK /\ [Next]_vars => [RevivedNow /\ PrunedWereExpired]_vars
  BY StepRevives
<1> QED
  BY <1>1, TypeCorrect, PTL DEF Spec, RevivalIsFresh, RevivedNow, PrunedWereExpired
=============================================================================
