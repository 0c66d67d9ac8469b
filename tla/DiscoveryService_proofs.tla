------------------------ MODULE DiscoveryService_proofs ------------------------
(***************************************************************************)
(* The engine, and the service above it.                                   *)
(*                                                                         *)
(* First the engine's safety invariants, for every set of nodes and        *)
(* endpoints, every interval and time to live, and every length of run;    *)
(* they use no assumption about the service.  None of them is inductive    *)
(* alone.  What a peer's state says is about the instant of the last       *)
(* refresh, so the invariant relates states, the instants peers were seen  *)
(* and that instant (Clocked, VerdictsAreEarned); what holds while the     *)
(* owner is blocked follows from what the refresh left at the beginning of *)
(* the wait and from a bound on the wait itself (Waiting), which each      *)
(* signal extends by one interval.                                         *)
(*                                                                         *)
(* Then the service, for every finite set of nodes and every depth of      *)
(* nested polls.  That it uses the engine as it may comes first: the       *)
(* engine's inductive invariant then holds in every state of the service,  *)
(* and with it the peers are finitely many.  What the service remembers is *)
(* bounded by an invariant that relates the count to the peers it was      *)
(* taken from (Remembered) and, while nobody meddles, the loop under way   *)
(* to the registry, which nothing changes meanwhile (Undisturbed).         *)
(***************************************************************************)
EXTENDS DiscoveryService, PeerRegistry_proofs, FiniteSetTheorems, SequenceTheorems

(* Peers were seen at valid instants, and no refresh lies in the future. *)
Clocked ==
  /\ refreshed =< now
  /\ \A n \in DOMAIN peers : IsValidTime(peers[n].last_seen)

(* The wait of a receive is bounded, and the refresh and the announcement  *)
(* just before it left what they should.                                   *)
Waiting ==
  pc = "recv" =>
    /\ status = "Running"
    /\ todo > 0
    /\ now =< deadline
    /\ deadline =< refreshed + (1 + signals) * AnnounceInterval
    /\ \A n \in AvailablePeers(peers) : refreshed - peers[n].last_seen < StaleAfter
    /\ ~ muted => /\ IsValidTime(last_announce_at)
                  /\ refreshed - last_announce_at < AnnounceInterval
    /\ muted => \/ ~ IsValidTime(last_announce_at)
                \/ refreshed - last_announce_at >= AnnounceInterval

IInv == TypeOK /\ NoSelf /\ StoppedForgets /\ Clocked /\ VerdictsAreEarned /\ Waiting

-----------------------------------------------------------------------------
(* Frames: what an action that leaves these variables alone preserves. *)

LEMMA InitInv == Init => IInv
<1> SUFFICES ASSUME Init PROVE IInv
  OBVIOUS
<1>1. IsRegistry(peers) /\ DOMAIN peers = {}
  BY NoPeersFacts DEF Init
<1>2. DOMAIN transport = {}
  BY DEF Init
<1>3. TypeOK
  <2>1. /\ status \in {"Stopped", "Running", "Failed"}
        /\ now \in Nat \ {0} /\ pc \in {"idle", "loop", "recv"}
        /\ last_announce_at \in Nat /\ todo \in Nat /\ deadline \in Nat
        /\ signals \in Nat /\ refreshed \in Nat
    BY DEF Init, NoTime
  <2>2. /\ backend_running \in BOOLEAN /\ context_ok \in BOOLEAN
        /\ muted \in BOOLEAN /\ transport_running \in BOOLEAN
    BY Zenon DEF Init
  <2> QED
    BY <1>1, <1>2, <2>1, <2>2, Zenon DEF TypeOK
<1>4. NoSelf /\ StoppedForgets /\ Clocked /\ VerdictsAreEarned /\ Waiting
  BY <1>1, <1>2 DEF Init, NoSelf, StoppedForgets, Clocked, VerdictsAreEarned, Waiting, NoTime
<1> QED
  BY <1>3, <1>4 DEF IInv

LEMMA TransportFrame ==
  ASSUME IInv, UNCHANGED <<engineVars, now, pollVars>>,
         DOMAIN transport' \subseteq Node \ {Self},
         \A n \in DOMAIN transport' : transport'[n] \in Addr,
         transport_running' \in BOOLEAN
  PROVE  IInv'
BY DEF IInv, TypeOK, NoSelf, StoppedForgets, Clocked, VerdictsAreEarned, Waiting,
       engineVars, pollVars, IsRunning, AvailablePeers, IsRegistry

(* An owner's call that is over, with the peers as they were. *)
LEMMA IdleFrame ==
  ASSUME IInv, pc' # "recv", pc' \in {"idle", "loop"}, todo' \in Nat,
         UNCHANGED <<engineVars, now, deadline, signals, refreshed, muted, transportVars>>
  PROVE  IInv'
BY DEF IInv, TypeOK, NoSelf, StoppedForgets, Clocked, VerdictsAreEarned, Waiting,
       engineVars, transportVars, IsRegistry

-----------------------------------------------------------------------------
(* The calls of the owner outside poll_many *)

LEMMA StartInv == ASSUME IInv, Start PROVE IInv'
<1>1. /\ status' \in {"Failed", "Running"}
      /\ backend_running' \in BOOLEAN
      /\ last_announce_at' = NoTime
      /\ DOMAIN peers = {} /\ pc = "idle"
      /\ UNCHANGED <<context_ok, peers, now, pollVars, transportVars>>
  BY DEF IInv, TypeOK, StoppedForgets, Start, StartRejected, StartFailed, StartSucceeded
<1> QED
  BY <1>1 DEF IInv, TypeOK, NoSelf, StoppedForgets, Clocked, VerdictsAreEarned, Waiting,
              pollVars, transportVars, IsRegistry, NoTime

LEMMA StopInv == ASSUME IInv, Stop PROVE IInv'
<1>1. IsRegistry(peers') /\ DOMAIN peers' = {}
  BY NoPeersFacts DEF Stop
<1>2. TypeOK'
  BY <1>1 DEF Stop, IInv, TypeOK, transportVars, NoTime
<1>3. NoSelf' /\ StoppedForgets' /\ Clocked' /\ VerdictsAreEarned' /\ Waiting'
  BY <1>1 DEF Stop, IInv, TypeOK, NoSelf, StoppedForgets, Clocked, VerdictsAreEarned, Waiting,
              transportVars, NoTime
<1> QED
  BY <1>2, <1>3 DEF IInv

LEMMA AnnounceNowInv == ASSUME IInv, AnnounceNow PROVE IInv'
BY DEF AnnounceNow, IsRunning, IInv, TypeOK, NoSelf, StoppedForgets, Clocked,
       VerdictsAreEarned, Waiting, pollVars, transportVars, IsRegistry

LEMMA BackendToggleInv == ASSUME IInv, BackendToggle PROVE IInv'
BY DEF BackendToggle, IInv, TypeOK, NoSelf, StoppedForgets, Clocked,
       VerdictsAreEarned, Waiting, pollVars, transportVars, IsRegistry

LEMMA TickInv == ASSUME IInv, Tick PROVE IInv'
BY DEF Tick, IInv, TypeOK, NoSelf, StoppedForgets, Clocked, VerdictsAreEarned, Waiting,
       engineVars, pollVars, transportVars, IsRegistry, AvailablePeers

-----------------------------------------------------------------------------
(* poll_many *)

LEMMA PollManyInv == ASSUME IInv, NEW k \in 0..MaxBatch, PollMany(k) PROVE IInv'
BY IdleFrame, EngineAssumption DEF PollMany

LEMMA PollEndInv == ASSUME IInv, PollEnd PROVE IInv'
BY IdleFrame DEF PollEnd

LEMMA RecvEndInv == ASSUME IInv, RecvTimeout \/ RecvNothing PROVE IInv'
<1>1. /\ pc' = "idle" /\ todo' = 0
      /\ UNCHANGED <<engineVars, now, deadline, signals, refreshed, muted, transportVars>>
  BY DEF RecvTimeout, RecvNothing, Polled
<1> QED
  BY <1>1, IdleFrame

(* Each signal adds one interval to the wait. *)
LEMMA InterruptInv == ASSUME IInv, Interrupt PROVE IInv'
<1> USE EngineAssumption
<1>1. /\ now \in Nat /\ refreshed \in Nat /\ signals \in Nat /\ deadline \in Nat
      /\ pc = "recv" /\ now =< deadline
      /\ deadline =< refreshed + (1 + signals) * AnnounceInterval
      /\ signals' = signals + 1 /\ deadline' = now + AnnounceInterval
  BY DEF Interrupt, IInv, TypeOK, Waiting
<1>2. (1 + (signals + 1)) * AnnounceInterval = (1 + signals) * AnnounceInterval + AnnounceInterval
  BY <1>1
<1>3. (1 + signals) * AnnounceInterval \in Nat
  BY <1>1
<1>4. deadline' =< refreshed + (1 + signals') * AnnounceInterval
  BY <1>1, <1>2, <1>3
<1>5. deadline' \in Nat /\ signals' \in Nat /\ now =< deadline'
  BY <1>1
<1> QED
  BY <1>4, <1>5 DEF Interrupt, IInv, TypeOK, NoSelf, StoppedForgets, Clocked,
     VerdictsAreEarned, Waiting, engineVars, transportVars, IsRegistry, AvailablePeers

(* The refresh at the beginning of poll_once: every verdict is re-earned    *)
(* against the new instant, and every available peer is recent.             *)
LEMMA PollBeginInv == ASSUME IInv, PollBegin PROVE IInv'
<1> USE EngineAssumption
<1>1. /\ IsRegistry(peers) /\ now \in Nat /\ now > 0 /\ IsValidTime(now)
      /\ refreshed \in Nat /\ refreshed =< now /\ last_announce_at \in Nat
      /\ \A n \in DOMAIN peers : IsValidTime(peers[n].last_seen)
      /\ status = "Running"
  BY DEF IInv, TypeOK, Clocked, PollBegin, IsRunning, IsValidTime, NoTime
<1>2. StaleAfter \in Int
  BY DEF StaleAfter
<1>3. /\ IsRegistry(peers')
      /\ DOMAIN peers' = DOMAIN peers
      /\ \A n \in DOMAIN peers : peers'[n] = RefreshPeer(peers[n], now, StaleAfter, PeerTtl)
      /\ refreshed' = now /\ now' = now
  BY <1>1, <1>2, RefreshStatesFacts DEF PollBegin, RefreshPeerStates
<1>4. \A n \in DOMAIN peers : peers[n] \in Peer
  BY <1>1 DEF IsRegistry
<1>5. \A n \in DOMAIN peers :
        LET age == now - peers[n].last_seen
        IN  /\ peers'[n].last_seen = peers[n].last_seen
            /\ \/ peers'[n].state = peers[n].state
               \/ peers'[n].state = "Expired" /\ age >= PeerTtl
               \/ peers'[n].state = "Stale" /\ age >= StaleAfter
            /\ IsAvailable(peers'[n].state) => age < StaleAfter
  BY <1>1, <1>2, <1>3, <1>4, RefreshPeerFacts
<1>6. VerdictsAreEarned'
  <2> SUFFICES ASSUME NEW n \in DOMAIN peers'
               PROVE  /\ peers'[n].state = "Stale" => refreshed' - peers'[n].last_seen >= StaleAfter
                      /\ peers'[n].state = "Expired" => refreshed' - peers'[n].last_seen >= PeerTtl
                      /\ IsAvailable(peers'[n].state) =>
                           refreshed' - peers'[n].last_seen < StaleAfter
    BY DEF VerdictsAreEarned
  <2>1. /\ peers[n].state = "Stale" => refreshed - peers[n].last_seen >= StaleAfter
        /\ peers[n].state = "Expired" => refreshed - peers[n].last_seen >= PeerTtl
    BY <1>3 DEF IInv, VerdictsAreEarned
  <2>2. peers[n].last_seen \in Nat
    BY <1>3, <1>4 DEF Peer
  <2> QED
    BY <1>1, <1>2, <1>3, <1>5, <2>1, <2>2
<1>7. PICK sent \in BOOLEAN : MaybeAnnounce(sent)
  BY DEF PollBegin
<1>8. /\ last_announce_at' \in Nat
      /\ muted' \in BOOLEAN
      /\ ~ muted' => IsValidTime(last_announce_at') /\ now - last_announce_at' < AnnounceInterval
      /\ muted' => ~ IsValidTime(last_announce_at') \/ now - last_announce_at' >= AnnounceInterval
  <2>1. CASE AnnounceDue /\ sent
    <3>1. muted' = FALSE /\ last_announce_at' = now
      BY <1>7, <2>1, Zenon DEF MaybeAnnounce
    <3>2. now \in Nat /\ IsValidTime(now) /\ now - now < AnnounceInterval
      BY <1>1
    <3> QED
      BY <3>1, <3>2, Zenon
  <2>2. CASE AnnounceDue /\ ~ sent
    <3>1. muted' = TRUE /\ last_announce_at' = last_announce_at
      BY <1>7, <2>2, Zenon DEF MaybeAnnounce
    <3>2. ~ IsValidTime(last_announce_at) \/ now - last_announce_at >= AnnounceInterval
      BY <2>2 DEF AnnounceDue
    <3>3. ~ IsValidTime(last_announce_at') \/ now - last_announce_at' >= AnnounceInterval
      BY <3>1, <3>2
    <3> QED
      BY <1>1, <3>1, <3>3, Zenon
  <2>3. CASE ~ AnnounceDue
    <3>1. muted' = FALSE /\ last_announce_at' = last_announce_at
      BY <1>7, <2>3, Zenon DEF MaybeAnnounce
    <3>2. IsValidTime(last_announce_at) /\ now - last_announce_at < AnnounceInterval
      BY <1>1, <2>3 DEF AnnounceDue
    <3>3. IsValidTime(last_announce_at') /\ now - last_announce_at' < AnnounceInterval
      BY <3>1, <3>2
    <3> QED
      BY <1>1, <3>1, <3>3, Zenon
  <2> QED
    BY <2>1, <2>2, <2>3
<1>9. /\ pc' = "recv" /\ signals' = 0 /\ deadline' = now + AnnounceInterval
      /\ todo' = todo /\ todo \in Nat /\ todo > 0
      /\ UNCHANGED <<status, backend_running, context_ok, now, transportVars>>
  BY DEF PollBegin, IInv, TypeOK
<1>10. TypeOK'
  BY <1>1, <1>3, <1>8, <1>9 DEF IInv, TypeOK, transportVars
<1>11. NoSelf' /\ StoppedForgets' /\ Clocked'
  BY <1>1, <1>3, <1>5, <1>9 DEF IInv, NoSelf, StoppedForgets, Clocked, transportVars
<1>12. Waiting'
  <2>1. deadline' =< refreshed' + (1 + signals') * AnnounceInterval
    BY <1>1, <1>3, <1>9
  <2>2. \A n \in AvailablePeers(peers') : refreshed' - peers'[n].last_seen < StaleAfter
    BY <1>3, <1>5 DEF AvailablePeers
  <2>3. status' = "Running" /\ todo' > 0 /\ now' =< deadline'
    BY <1>1, <1>9
  <2>4. ~ muted' => /\ IsValidTime(last_announce_at')
                    /\ refreshed' - last_announce_at' < AnnounceInterval
    BY <1>3, <1>8
  <2>5. muted' => \/ ~ IsValidTime(last_announce_at')
                  \/ refreshed' - last_announce_at' >= AnnounceInterval
    BY <1>3, <1>8
  <2> QED
    BY <2>1, <2>2, <2>3, <2>4, <2>5, Zenon DEF Waiting
<1> QED
  BY <1>6, <1>10, <1>11, <1>12 DEF IInv

(* A message: only the announced peer changes, and is alive and seen now.   *)
LEMMA RecvMessageInv == ASSUME IInv, NEW m \in Message, RecvMessage(m) PROVE IInv'
<1> USE EngineAssumption
<1>1. /\ UNCHANGED <<status, backend_running, context_ok, last_announce_at, now,
                     deadline, signals, refreshed, muted, transport_running>>
      /\ pc = "recv" /\ status = "Running" /\ todo \in Nat /\ todo > 0
  BY DEF RecvMessage, IInv, TypeOK, Waiting
<1>2. ASSUME NEW processed \in BOOLEAN, Polled(processed)
      PROVE  pc' \in {"idle", "loop"} /\ todo' \in Nat
  BY <1>1, <1>2 DEF Polled
<1>3. ASSUME NEW processed \in BOOLEAN, Polled(processed), UNCHANGED <<peers, transport>>
      PROVE  IInv'
  BY <1>1, <1>2, <1>3, IdleFrame DEF engineVars, transportVars
<1>4. CASE HandleProbe(m)
  <2>1. PICK sent \in BOOLEAN : Polled(m.has_source /\ sent)
    BY <1>4 DEF HandleProbe
  <2>2. (m.has_source /\ sent) \in BOOLEAN
    OBVIOUS
  <2> QED
    BY <1>3, <1>4, <2>1, <2>2 DEF HandleProbe
<1>5. CASE HandleRejected(m)
  BY <1>3, <1>5 DEF HandleRejected
<1>6. CASE HandleAnnouncement(m)
  <2> DEFINE a == m.ann
  <2>1. a \in Announcement /\ IsValidAnnouncement(a) /\ a.node_id # Self
    BY <1>6 DEF HandleAnnouncement, Accepts, Message
  <2>2. a.node_id \in Node /\ a.addr \in Addr
    BY <2>1, ValidKey
  <2>3. IsRegistry(peers) /\ now \in Nat /\ now > 0 /\ refreshed \in Nat /\ refreshed =< now
    BY DEF IInv, TypeOK, Clocked
  <2>4. peers' = UpsertAnnouncement(peers, a, now) /\ IntegrateWithTransport(a) /\ Polled(TRUE)
    BY <1>6 DEF HandleAnnouncement
  <2> HIDE DEF a
  <2>5. /\ IsRegistry(peers')
        /\ DOMAIN peers' = DOMAIN peers \cup {a.node_id}
        /\ peers'[a.node_id] = [ann |-> a, state |-> "Alive", last_seen |-> now]
        /\ \A n \in DOMAIN peers \ {a.node_id} : peers'[n] = peers[n]
    BY <2>1, <2>3, <2>4, UpsertAnnouncementFacts
  <2>6. /\ DOMAIN transport' \subseteq Node \ {Self}
        /\ \A n \in DOMAIN transport' : transport'[n] \in Addr
    BY <2>1, <2>2, <2>4 DEF IntegrateWithTransport, IInv, TypeOK, NoSelf
  <2>7. pc' \in {"idle", "loop"} /\ todo' \in Nat
    BY <1>2, <2>4
  <2>8. TypeOK'
    BY <1>1, <2>5, <2>6, <2>7 DEF IInv, TypeOK
  <2>9. NoSelf' /\ StoppedForgets'
    BY <1>1, <2>1, <2>5, <2>6 DEF IInv, NoSelf, StoppedForgets
  <2>10. Clocked'
    BY <1>1, <2>3, <2>5 DEF IInv, Clocked, IsValidTime, NoTime
  <2>11. VerdictsAreEarned'
    <3> SUFFICES ASSUME NEW n \in DOMAIN peers'
                 PROVE  LET silent == refreshed' - peers'[n].last_seen
                        IN  /\ peers'[n].state = "Stale" => silent >= StaleAfter
                            /\ peers'[n].state = "Expired" => silent >= PeerTtl
                            /\ IsAvailable(peers'[n].state) => silent < StaleAfter \/ silent =< 0
      BY DEF VerdictsAreEarned
    <3>1. CASE n = a.node_id
      BY <1>1, <2>3, <2>5, <3>1
    <3>2. CASE n # a.node_id
      BY <1>1, <2>5, <3>2 DEF IInv, VerdictsAreEarned
    <3> QED
      BY <3>1, <3>2
  <2>12. Waiting'
    BY <2>7 DEF Waiting
  <2> QED
    BY <2>8, <2>9, <2>10, <2>11, <2>12 DEF IInv
<1> QED
  BY <1>4, <1>5, <1>6 DEF RecvMessage

-----------------------------------------------------------------------------
(* The surroundings, and all steps together *)

LEMMA TransportInv ==
  ASSUME IInv, TransportToggle \/ \E n \in Node : TransportDrop(n)
  PROVE  IInv'
<1>1. CASE TransportToggle
  BY <1>1, TransportFrame DEF TransportToggle, IInv, TypeOK, NoSelf
<1>2. ASSUME NEW n \in Node, TransportDrop(n) PROVE IInv'
  BY <1>2, TransportFrame DEF TransportDrop, IInv, TypeOK, NoSelf
<1> QED
  BY <1>1, <1>2

LEMMA NextInv == IInv /\ [Next]_vars => IInv'
<1> SUFFICES ASSUME IInv, [Next]_vars PROVE IInv'
  OBVIOUS
<1>1. CASE UNCHANGED vars
  BY <1>1 DEF vars, engineVars, pollVars, transportVars, IInv, TypeOK, NoSelf, StoppedForgets,
              Clocked, VerdictsAreEarned, Waiting, IsRegistry, AvailablePeers
<1>2. CASE Poll
  BY <1>2, PollBeginInv, PollEndInv, RecvEndInv, InterruptInv, RecvMessageInv DEF Poll
<1>3. CASE Next
  BY <1>2, <1>3, StartInv, StopInv, AnnounceNowInv, PollManyInv, TickInv, BackendToggleInv,
     TransportInv DEF Next
<1> QED
  BY <1>1, <1>3

THEOREM InductiveInvariant == Spec => []IInv
BY InitInv, NextInv, PTL DEF Spec

-----------------------------------------------------------------------------
(* The guarantees *)

(* The engine's state is well typed in every reachable state. *)
THEOREM TypeCorrect == Spec => []TypeOK
<1>1. IInv => TypeOK
  BY DEF IInv
<1> QED
  BY <1>1, InductiveInvariant, PTL

(* No message, whatever its sender and announcement claim, makes the engine *)
(* list itself or ask the transport to connect to itself.                   *)
THEOREM NeverSelf == Spec => []NoSelf
<1>1. IInv => NoSelf
  BY DEF IInv
<1> QED
  BY <1>1, InductiveInvariant, PTL

(* No peer and no announcement instant outlive a run of the engine. *)
THEOREM StoppedAlwaysForgets == Spec => []StoppedForgets
<1>1. IInv => StoppedForgets
  BY DEF IInv
<1> QED
  BY <1>1, InductiveInvariant, PTL

(* Stale and Expired are only ever said of peers that were silent for half *)
(* the time to live and all of it, and available of peers heard since.     *)
THEOREM VerdictsAlwaysEarned == Spec => []VerdictsAreEarned
<1>1. IInv => VerdictsAreEarned
  BY DEF IInv
<1> QED
  BY <1>1, InductiveInvariant, PTL

(* A peer that died is not offered, while the owner waits, for longer than  *)
(* half the time to live plus one interval for the wait and each signal.    *)
THEOREM AvailableAlwaysRecent == Spec => []AvailableIsRecent
<1>1. IInv => AvailableIsRecent
  <2> SUFFICES ASSUME IInv, pc = "recv", NEW n \in AvailablePeers(peers)
               PROVE  now - peers[n].last_seen < StaleAfter + (1 + signals) * AnnounceInterval
    BY DEF AvailableIsRecent
  <2> USE EngineAssumption
  <2>1. /\ now \in Nat /\ refreshed \in Nat /\ deadline \in Nat /\ signals \in Nat
        /\ peers[n].last_seen \in Nat
    BY DEF IInv, TypeOK, IsRegistry, Peer, AvailablePeers
  <2>2. /\ now =< deadline
        /\ deadline =< refreshed + (1 + signals) * AnnounceInterval
        /\ refreshed - peers[n].last_seen < StaleAfter
    BY DEF IInv, Waiting
  <2>3. (1 + signals) * AnnounceInterval \in Nat /\ StaleAfter \in Int
    BY <2>1 DEF StaleAfter
  <2> QED
    BY <2>1, <2>2, <2>3
<1> QED
  BY <1>1, InductiveInvariant, PTL

(* An owner that is back in a receive has announced within two intervals,   *)
(* plus one for each signal, or has failed to and will try again at its     *)
(* next poll (announce_now, maybe_announce).                                *)
THEOREM AnnounceAlwaysFresh == Spec => []AnnounceFresh
<1>1. IInv => AnnounceFresh
  <2> SUFFICES ASSUME IInv, pc = "recv"
               PROVE  \/ /\ ~ muted
                         /\ IsValidTime(last_announce_at)
                         /\ now - last_announce_at < (2 + signals) * AnnounceInterval
                      \/ muted /\ AnnounceDue
    BY DEF AnnounceFresh
  <2> USE EngineAssumption
  <2>1. /\ now \in Nat /\ refreshed \in Nat /\ deadline \in Nat /\ signals \in Nat
        /\ last_announce_at \in Nat /\ muted \in BOOLEAN /\ refreshed =< now
    BY DEF IInv, TypeOK, Clocked
  <2>2. /\ now =< deadline
        /\ deadline =< refreshed + (1 + signals) * AnnounceInterval
        /\ ~ muted => /\ IsValidTime(last_announce_at)
                      /\ refreshed - last_announce_at < AnnounceInterval
        /\ muted => \/ ~ IsValidTime(last_announce_at)
                    \/ refreshed - last_announce_at >= AnnounceInterval
    BY Zenon DEF IInv, Waiting
  <2>3. (2 + signals) * AnnounceInterval = (1 + signals) * AnnounceInterval + AnnounceInterval
    BY <2>1
  <2>4. (1 + signals) * AnnounceInterval \in Nat
    BY <2>1
  <2>5. CASE muted
    BY <2>1, <2>2, <2>5 DEF AnnounceDue
  <2>6. CASE ~ muted
    BY <2>1, <2>2, <2>3, <2>4, <2>6
  <2> QED
    BY <2>1, <2>5, <2>6
<1> QED
  BY <1>1, InductiveInvariant, PTL

-----------------------------------------------------------------------------
(* The engine implements PeerPresence *)

(* A refresh offers nobody who was not offered before. *)
LEMMA RefreshOffersNobody ==
  ASSUME IInv, PollBegin
  PROVE  /\ DOMAIN peers' = DOMAIN peers
         /\ AvailablePeers(peers') \subseteq AvailablePeers(peers)
<1>1. IsRegistry(peers) /\ now \in Nat /\ IsValidTime(now) /\ StaleAfter \in Int /\ PeerTtl \in Nat
  BY EngineAssumption DEF IInv, TypeOK, IsValidTime, NoTime, StaleAfter
<1>2. /\ DOMAIN peers' = DOMAIN peers
      /\ \A n \in DOMAIN peers : peers'[n] = RefreshPeer(peers[n], now, StaleAfter, PeerTtl)
  BY <1>1, RefreshStatesFacts DEF PollBegin, RefreshPeerStates
<1>3. ASSUME NEW n \in DOMAIN peers, IsAvailable(peers'[n].state)
      PROVE  IsAvailable(peers[n].state)
  <2>1. peers[n] \in Peer
    BY <1>1 DEF IsRegistry
  <2>2. peers'[n] = RefreshPeer(peers[n], now, StaleAfter, PeerTtl)
    BY <1>2
  <2>3. IsAvailable(RefreshPeer(peers[n], now, StaleAfter, PeerTtl).state)
    BY <1>3, <2>2
  <2> QED
    BY <1>1, <2>1, <2>3, RefreshNeverOffers
<1> QED
  BY <1>2, <1>3 DEF AvailablePeers

(* A message puts at most the announced node on the list. *)
LEMMA MessageIsHeard ==
  ASSUME IInv, NEW m \in Message, RecvMessage(m)
  PROVE  \/ UNCHANGED <<status, peers>>
         \/ \E n \in Node \ {Self} : Presence!Hear(n)
<1>1. status = "Running" /\ status' = status /\ IsRegistry(peers) /\ now \in Nat
  BY DEF RecvMessage, IInv, TypeOK, Waiting
<1>2. CASE HandleAnnouncement(m)
  <2> DEFINE a == m.ann
  <2>1. a \in Announcement /\ IsValidAnnouncement(a) /\ a.node_id # Self
    BY <1>2 DEF HandleAnnouncement, Accepts, Message
  <2>2. peers' = UpsertAnnouncement(peers, a, now)
    BY <1>2 DEF HandleAnnouncement
  <2> HIDE DEF a
  <2>3. /\ DOMAIN peers' = DOMAIN peers \cup {a.node_id}
        /\ peers'[a.node_id] = [ann |-> a, state |-> "Alive", last_seen |-> now]
        /\ \A n \in DOMAIN peers \ {a.node_id} : peers'[n] = peers[n]
    BY <1>1, <2>1, <2>2, UpsertAnnouncementFacts
  <2>4. peers'[a.node_id].state = "Alive"
    BY <2>3
  <2>5. AvailablePeers(peers') = AvailablePeers(peers) \cup {a.node_id}
    BY <2>3, <2>4 DEF AvailablePeers, IsAvailable
  <2>6. a.node_id \in Node \ {Self}
    BY <2>1, ValidKey
  <2>7. Presence!Hear(a.node_id)
    BY <1>1, <2>3, <2>5, Zenon DEF Presence!Hear
  <2> QED
    BY <2>6, <2>7
<1>3. CASE HandleProbe(m) \/ HandleRejected(m)
  BY <1>1, <1>3 DEF HandleProbe, HandleRejected
<1> QED
  BY <1>2, <1>3 DEF RecvMessage

LEMMA PresenceStep ==
  IInv /\ [Next]_vars => [Presence!PresenceNext]_(Presence!presenceVars)
<1> SUFFICES ASSUME IInv, [Next]_vars
             PROVE  \/ Presence!PresenceNext
                    \/ UNCHANGED <<status = "Running", DOMAIN peers, AvailablePeers(peers)>>
  BY Zenon DEF Presence!presenceVars
<1>1. ASSUME UNCHANGED <<status, peers>>
      PROVE  UNCHANGED <<status = "Running", DOMAIN peers, AvailablePeers(peers)>>
  BY <1>1
<1>2. CASE Start
  <2>1. UNCHANGED peers /\ status # "Running" /\ status' \in {"Failed", "Running"}
    BY <1>2 DEF Start, StartRejected, StartFailed, StartSucceeded
  <2> QED
    BY <2>1 DEF Presence!PresenceNext, Presence!GoUp
<1>3. CASE Stop
  <2>1. status' = "Stopped" /\ DOMAIN peers' = {}
    BY <1>3, NoPeersFacts DEF Stop
  <2>2. AvailablePeers(peers') = {}
    BY <2>1 DEF AvailablePeers
  <2>3. Presence!GoDown
    BY <2>1, <2>2 DEF Presence!GoDown
  <2> QED
    BY <2>3 DEF Presence!PresenceNext
<1>4. CASE PollBegin
  <2>1. status = "Running" /\ status' = "Running"
    BY <1>4 DEF PollBegin, IsRunning
  <2>2. Presence!Fade
    BY <1>4, <2>1, RefreshOffersNobody DEF Presence!Fade
  <2> QED
    BY <2>2 DEF Presence!PresenceNext
<1>5. ASSUME NEW m \in Message, RecvMessage(m)
      PROVE  \/ Presence!PresenceNext
             \/ UNCHANGED <<status = "Running", DOMAIN peers, AvailablePeers(peers)>>
  BY <1>1, <1>5, MessageIsHeard, Zenon DEF Presence!PresenceNext
<1>6. CASE PollEnd \/ RecvTimeout \/ RecvNothing \/ Interrupt
  BY <1>1, <1>6 DEF PollEnd, RecvTimeout, RecvNothing, Interrupt, engineVars
<1>7. CASE Poll
  BY <1>4, <1>5, <1>6, <1>7, Zenon DEF Poll
<1>8. CASE AnnounceNow \/ (\E k \in 0..MaxBatch : PollMany(k)) \/ Tick \/ BackendToggle
  BY <1>1, <1>8 DEF AnnounceNow, PollMany, Tick, BackendToggle, engineVars
<1>9. CASE TransportToggle \/ (\E n \in Node : TransportDrop(n)) \/ UNCHANGED vars
  BY <1>1, <1>9 DEF TransportToggle, TransportDrop, vars, engineVars
<1> QED
  BY <1>2, <1>3, <1>7, <1>8, <1>9, Zenon DEF Next

(* The engine is a PeerPresence of the nodes other than itself, whatever    *)
(* the network, the backend's owner and the transport do.                   *)
THEOREM PresenceImplemented == Spec => ImplementsPresence
<1>1. Init => Presence!PresenceInit
  <2> SUFFICES ASSUME Init PROVE Presence!PresenceInit
    OBVIOUS
  <2>1. status = "Stopped" /\ DOMAIN peers = {}
    BY NoPeersFacts DEF Init
  <2>2. AvailablePeers(peers) = {}
    BY <2>1 DEF AvailablePeers
  <2> QED
    BY <2>1, <2>2 DEF Presence!PresenceInit
<1> QED
  BY <1>1, PresenceStep, InductiveInvariant, PTL DEF Spec, ImplementsPresence, Presence!PresenceSpec
-----------------------------------------------------------------------------
(* News *)

(* What NewsNeedsMessage says of one step. *)
NewPeersWereHeard ==
  \A n \in AvailablePeers(peers') \ AvailablePeers(peers) :
    pc = "recv" /\ status = "Running" /\ peers'[n].last_seen = now

ConnectedAsHeard ==
  \A n \in DOMAIN transport' :
    IF n \in DOMAIN transport
    THEN transport'[n] = transport[n]
    ELSE /\ n \in AvailablePeers(peers')
         /\ peers'[n].ann.addr = transport'[n]
         /\ peers'[n].last_seen = now

LEMMA AnnouncementIsNews ==
  ASSUME IInv, NEW m \in Message, RecvMessage(m), HandleAnnouncement(m)
  PROVE  NewPeersWereHeard /\ ConnectedAsHeard
<1> DEFINE a == m.ann
<1>1. pc = "recv" /\ status = "Running" /\ IsRegistry(peers) /\ now \in Nat
  BY DEF RecvMessage, IInv, TypeOK, Waiting
<1>2. /\ a \in Announcement /\ IsValidAnnouncement(a)
      /\ peers' = UpsertAnnouncement(peers, a, now) /\ IntegrateWithTransport(a)
  BY DEF HandleAnnouncement, Accepts, Message
<1> HIDE DEF a
<1>3. /\ DOMAIN peers' = DOMAIN peers \cup {a.node_id}
      /\ peers'[a.node_id] = [ann |-> a, state |-> "Alive", last_seen |-> now]
      /\ \A n \in DOMAIN peers \ {a.node_id} : peers'[n] = peers[n]
  BY <1>1, <1>2, UpsertAnnouncementFacts
<1>4. /\ peers'[a.node_id].state = "Alive" /\ peers'[a.node_id].last_seen = now
      /\ peers'[a.node_id].ann = a
      /\ a.node_id \in AvailablePeers(peers')
  BY <1>3 DEF AvailablePeers, IsAvailable
<1>5. NewPeersWereHeard
  BY <1>1, <1>3, <1>4 DEF NewPeersWereHeard, AvailablePeers
<1>6. ConnectedAsHeard
  <2>1. CASE UNCHANGED transport
    BY <2>1 DEF ConnectedAsHeard
  <2>2. CASE ~ UNCHANGED transport
    <3>1. /\ DOMAIN transport' = DOMAIN transport \cup {a.node_id}
          /\ a.node_id \notin DOMAIN transport
          /\ transport'[a.node_id] = a.addr
          /\ \A n \in DOMAIN transport : transport'[n] = transport[n]
      BY <1>2, <2>2 DEF IntegrateWithTransport
    <3> QED
      BY <1>4, <3>1 DEF ConnectedAsHeard
  <2> QED
    BY <2>1, <2>2
<1> QED
  BY <1>5, <1>6

LEMMA StepIsNews ==
  ASSUME IInv, Next
  PROVE  NewPeersWereHeard /\ ConnectedAsHeard
<1>1. ASSUME AvailablePeers(peers') \subseteq AvailablePeers(peers), UNCHANGED transport
      PROVE  NewPeersWereHeard /\ ConnectedAsHeard
  BY <1>1 DEF NewPeersWereHeard, ConnectedAsHeard
<1>2. ASSUME UNCHANGED <<peers, transport>>
      PROVE  NewPeersWereHeard /\ ConnectedAsHeard
  BY <1>1, <1>2
<1>3. CASE Stop
  <2>1. DOMAIN peers' = {} /\ UNCHANGED transport
    BY <1>3, NoPeersFacts DEF Stop, transportVars
  <2>2. AvailablePeers(peers') = {}
    BY <2>1 DEF AvailablePeers
  <2> QED
    BY <1>1, <2>1, <2>2
<1>4. CASE PollBegin
  BY <1>1, <1>4, RefreshOffersNobody DEF PollBegin, transportVars
<1>5. ASSUME NEW m \in Message, RecvMessage(m)
      PROVE  NewPeersWereHeard /\ ConnectedAsHeard
  <2>1. CASE HandleAnnouncement(m)
    BY <1>5, <2>1, AnnouncementIsNews
  <2>2. CASE HandleProbe(m) \/ HandleRejected(m)
    BY <1>2, <2>2 DEF HandleProbe, HandleRejected
  <2> QED
    BY <1>5, <2>1, <2>2 DEF RecvMessage
<1>6. CASE PollEnd \/ RecvTimeout \/ RecvNothing \/ Interrupt
  BY <1>2, <1>6 DEF PollEnd, RecvTimeout, RecvNothing, Interrupt, engineVars, transportVars
<1>7. CASE \/ Start \/ AnnounceNow \/ (\E k \in 0..MaxBatch : PollMany(k)) \/ Tick
           \/ BackendToggle \/ TransportToggle
  BY <1>2, <1>7 DEF Start, AnnounceNow, PollMany, Tick, BackendToggle, TransportToggle,
                    engineVars, transportVars
<1>8. ASSUME NEW n \in Node, TransportDrop(n)
      PROVE  NewPeersWereHeard /\ ConnectedAsHeard
  <2>1. /\ UNCHANGED peers
        /\ DOMAIN transport' = DOMAIN transport \ {n}
        /\ \A k \in DOMAIN transport' : transport'[k] = transport[k]
    BY <1>8 DEF TransportDrop, engineVars
  <2> QED
    BY <2>1 DEF NewPeersWereHeard, ConnectedAsHeard
<1> QED
  BY <1>3, <1>4, <1>5, <1>6, <1>7, <1>8 DEF Next, Poll

(* Nobody is offered, and nobody connected, but on a message received now, *)
(* whatever the network, the transport and the backend's owner do.         *)
THEOREM NewsAlwaysNeedsMessage == Spec => NewsNeedsMessage
<1>1. IInv /\ [Next]_vars => [NewPeersWereHeard /\ ConnectedAsHeard]_vars
  BY StepIsNews
<1> QED
  BY <1>1, InductiveInvariant, PTL
     DEF Spec, NewsNeedsMessage, NewPeersWereHeard, ConnectedAsHeard

-----------------------------------------------------------------------------
(* The service implements its engine *)

LEMMA EngineActs == ServiceNext => Next \/ UNCHANGED vars
<1> SUFFICES ASSUME ServiceNext PROVE Next \/ UNCHANGED vars
  OBVIOUS
<1>1. CASE ServiceStart
  BY <1>1 DEF ServiceStart, Next
<1>2. CASE ServiceStop
  BY <1>2 DEF ServiceStop, StopEngine, Next
<1>3. CASE \E k \in 0..MaxBatch : ServicePoll(k)
  BY <1>3 DEF ServicePoll, Next
<1>4. CASE EngineStep
  BY <1>4 DEF EngineStep, Next
<1>5. CASE DirectStop \/ DirectPoll
  <2>1. 1 \in 0..MaxBatch
    BY EngineAssumption, ServiceAssumption
  <2> QED
    BY <1>5, <2>1 DEF DirectStop, DirectPoll, Next
<1>6. CASE \/ \E h \in BOOLEAN : OnPeerFound(h)
           \/ DirectReturns \/ NotifyNobody \/ NotifyBegin
           \/ \E n \in Node : Callback(n)
           \/ CallbackReturns \/ CallbackThrows \/ NotifyEnd
  BY <1>6 DEF OnPeerFound, DirectReturns, NotifyNobody, NotifyBegin, Callback, CallbackReturns,
              CallbackThrows, NotifyEnd
<1> QED
  BY <1>1, <1>2, <1>3, <1>4, <1>5, <1>6 DEF ServiceNext

(* Whatever the application does from outside and from its callback, the   *)
(* engine below the service is one of the engine's specification.          *)
THEOREM EngineImplemented == ServiceSpec => ImplementsEngine
<1>1. ServiceInit => Init
  BY DEF ServiceInit
<1>2. [ServiceNext]_allVars => [Next]_vars
  BY EngineActs DEF allVars
<1> QED
  BY <1>1, <1>2, PTL DEF ServiceSpec, ImplementsEngine, Spec

(* Hence what is proved of the engine holds of it inside the service. *)
LEMMA EngineInvariant == ServiceSpec => []IInv
BY EngineImplemented, InductiveInvariant, PTL DEF ImplementsEngine

(* A service's backend runs exactly while its engine is Running. *)
THEOREM BackendAlwaysInStep == ServiceSpec => []BackendInStep
<1>1. ServiceInit => BackendInStep
  BY DEF ServiceInit, Init, BackendInStep
<1>2. BackendInStep /\ [ServiceNext]_allVars => BackendInStep'
  <2> SUFFICES ASSUME BackendInStep, [ServiceNext]_allVars PROVE BackendInStep'
    OBVIOUS
  <2> USE DEF BackendInStep
  <2>1. CASE UNCHANGED <<status, backend_running>>
    BY <2>1
  <2>2. CASE Start
    BY <2>2 DEF Start, StartRejected, StartFailed, StartSucceeded
  <2>3. CASE Stop
    BY <2>3 DEF Stop
  <2>4. CASE EngineStep /\ ~ Start
    <3>1. CASE AnnounceNow \/ Tick
      BY <3>1, <2>1 DEF AnnounceNow, Tick, engineVars
    <3>2. CASE Poll
      BY <3>2, <2>1 DEF Poll, PollBegin, PollEnd, RecvTimeout, RecvNothing, Interrupt,
                        RecvMessage, engineVars
    <3> QED
      BY <2>4, <3>1, <3>2 DEF EngineStep
  <2> QED
    BY <2>1, <2>2, <2>3, <2>4
       DEF ServiceNext, ServiceStart, ServiceStop, StopEngine, OnPeerFound, ServicePoll,
           DirectStop, DirectPoll, DirectReturns, PollMany, NotifyNobody, NotifyBegin, Callback, CallbackReturns, CallbackThrows,
           NotifyEnd, vars, engineVars, allVars
<1> QED
  BY <1>1, <1>2, PTL DEF ServiceSpec

-----------------------------------------------------------------------------
(* Sets of nodes and the stack of frames *)

LEMMA Sizes ==
  ASSUME NEW S \in SUBSET Node, NEW T \in SUBSET Node
  PROVE  /\ Cardinality(S) \in 0..Cardinality(Node)
         /\ S \subseteq T => Cardinality(S) =< Cardinality(T)
         /\ Cardinality(S \ T) >= Cardinality(S) - Cardinality(T)
<1>1. /\ IsFiniteSet(Node) /\ IsFiniteSet(S) /\ IsFiniteSet(T)
      /\ Cardinality(S) =< Cardinality(Node)
  BY FS_Subset, ServiceAssumption
<1>2. /\ Cardinality(S) \in Nat /\ Cardinality(T) \in Nat /\ Cardinality(Node) \in Nat
  BY <1>1, FS_CardinalityType
<1>3. S \subseteq T => Cardinality(S) =< Cardinality(T)
  BY <1>1, FS_Subset
<1>4. /\ IsFiniteSet(S \ T) /\ Cardinality(S \ T) \in Nat
      /\ Cardinality(S) =< Cardinality((S \ T) \cup T)
  <2>1. S \ T \in SUBSET S /\ S \in SUBSET ((S \ T) \cup T)
    OBVIOUS
  <2>2. IsFiniteSet(S \ T)
    BY <1>1, <2>1, FS_Subset
  <2>3. IsFiniteSet((S \ T) \cup T)
    BY <1>1, <2>2, FS_Union
  <2> QED
    BY <2>1, <2>2, <2>3, FS_Subset, FS_CardinalityType
<1>5. Cardinality((S \ T) \cup T) =< Cardinality(S \ T) + Cardinality(T)
  <2>1. /\ IsFiniteSet((S \ T) \cap T) /\ Cardinality((S \ T) \cap T) = 0
    <3>1. (S \ T) \cap T = {}
      OBVIOUS
    <3> QED
      BY <3>1, FS_EmptySet
  <2>2. Cardinality((S \ T) \cup T)
          = Cardinality(S \ T) + Cardinality(T) - Cardinality((S \ T) \cap T)
    BY <1>1, <1>4, FS_Union
  <2> QED
    BY <1>2, <1>4, <2>1, <2>2
<1>6. Cardinality((S \ T) \cup T) \in Nat
  BY <1>1, <1>4, FS_Union, FS_CardinalityType
<1> QED
  BY <1>1, <1>2, <1>3, <1>4, <1>5, <1>6

(* What the loop of a frame may still do is bounded by what its frame is. *)
Bounded(f) == Cardinality(f.pending \cup f.found) =< Cardinality(f.batch \ f.before)

LEMMA FrontFacts ==
  ASSUME NEW s \in Seq(Frame), s # <<>>
  PROVE  /\ Len(s) \in Nat \ {0} /\ Last(s) \in Frame
         /\ Front(s) \in Seq(Frame)
         /\ Len(Front(s)) = Len(s) - 1
         /\ \A i \in DOMAIN Front(s) : i \in DOMAIN s /\ Front(s)[i] = s[i]
<1> DEFINE n == Len(s) - 1
<1>1. /\ Len(s) \in Nat \ {0} /\ DOMAIN s = 1..Len(s)
      /\ \A i \in 1..Len(s) : s[i] \in Frame
  BY EmptySeq, LenProperties, ElementOfSeq
<1>2. n \in Nat /\ Len(s) \in 1..Len(s) /\ \A i \in 1..n : i \in 1..Len(s)
  BY <1>1
<1>3. /\ SubSeq(s, 1, n) \in Seq(Frame)
      /\ Len(SubSeq(s, 1, n)) = IF 1 =< n THEN n - 1 + 1 ELSE 0
      /\ \A i \in 1..(n - 1 + 1) : SubSeq(s, 1, n)[i] = s[1 + i - 1]
  <2> HIDE DEF n
  <2> QED
    BY <1>1, <1>2, SubSeqProperties
<1> QED
  BY <1>1, <1>2, <1>3, LenProperties DEF Front, Last

LEMMA AppendFacts ==
  ASSUME NEW s \in Seq(Frame), NEW f \in Frame
  PROVE  /\ Append(s, f) \in Seq(Frame)
         /\ Len(Append(s, f)) = Len(s) + 1
         /\ Append(s, f) # <<>>
         /\ Last(Append(s, f)) = f
         /\ \A i \in DOMAIN Append(s, f) :
              Append(s, f)[i] = f \/ (i \in DOMAIN s /\ Append(s, f)[i] = s[i])
BY DEF Last

LEMMA ReplaceFacts ==
  ASSUME NEW s \in Seq(Frame), s # <<>>, NEW f \in Frame
  PROVE  LET new == [s EXCEPT ![Len(s)] = f]
         IN  /\ new \in Seq(Frame)
             /\ Len(new) = Len(s)
             /\ new # <<>>
             /\ Last(new) = f
             /\ \A i \in DOMAIN new :
                  i \in DOMAIN s /\ (new[i] = f \/ new[i] = s[i])
BY DEF Last

LEMMA CalledFacts ==
  ASSUME NEW f \in Frame, NEW n \in f.pending
  PROVE  /\ Called(f, n) \in Frame
         /\ Called(f, n).batch = f.batch
         /\ Bounded(f) => Bounded(Called(f, n))
<1>1. Called(f, n).pending \cup Called(f, n).found = f.pending \cup f.found
  BY DEF Called, Frame
<1> QED
  BY <1>1 DEF Called, Frame, Bounded

LEMMA PeersFinite ==
  ASSUME IInv
  PROVE  /\ AvailablePeers(peers) \in SUBSET DOMAIN peers
         /\ AvailablePeers(peers) \in SUBSET Node
         /\ DOMAIN peers \in SUBSET Node
BY DEF IInv, TypeOK, IsRegistry, AvailablePeers

-----------------------------------------------------------------------------
(* The inductive invariant *)

(* The count was taken from at least the peers it is compared with. *)
Remembered ==
  /\ svc \in {"app", "polling", "direct", "notify"}
  /\ handler \in BOOLEAN
  /\ known \in 0..Cardinality(Node)
  /\ seen \in SUBSET Node
  /\ meddled \in BOOLEAN
  /\ Cardinality(seen) =< known

(* There is room for the loop of a poll that is under way, and every loop  *)
(* keeps to its bound.                                                     *)
Stacked ==
  /\ frames \in Seq(Frame)
  /\ Len(frames) =< MaxDepth
  /\ svc = "polling" => Len(frames) < MaxDepth
  /\ svc = "notify" => Nested
  /\ \A i \in DOMAIN frames : Bounded(frames[i])

(* Until somebody meddles there is one loop at most, the registry is as    *)
(* the loop found it, and nobody uses the engine behind the service.       *)
Undisturbed ==
  ~ meddled =>
    /\ Len(frames) =< 1
    /\ svc # "direct"
    /\ Nested => svc # "polling" /\ Last(frames).batch = AvailablePeers(peers)
    /\ svc = "app" /\ ~ Nested =>
         /\ Cardinality(AvailablePeers(peers)) =< known
         /\ known =< Cardinality(DOMAIN peers)

SInv == Remembered /\ Stacked /\ Undisturbed

LEMMA InitSInv == ASSUME IInv, ServiceInit PROVE SInv
<1>1. /\ svc = "app" /\ handler = FALSE /\ known = 0 /\ frames = <<>> /\ seen = {}
      /\ meddled = FALSE /\ DOMAIN peers = {} /\ AvailablePeers(peers) = {}
  BY NoPeersFacts DEF ServiceInit, Init, AvailablePeers
<1>2. Cardinality({}) = 0
  BY FS_EmptySet
<1>3. Remembered
  BY <1>1, <1>2, Sizes DEF Remembered
<1>4. Stacked
  BY <1>1, ServiceAssumption, EmptySeq DEF Stacked, Nested
<1>5. Undisturbed
  BY <1>1, <1>2, EmptySeq DEF Undisturbed, Nested
<1> QED
  BY <1>3, <1>4, <1>5 DEF SInv

(* A step that leaves the loops alone, to the application or to the engine. *)
LEMMA SameFrames ==
  ASSUME SInv, UNCHANGED frames,
         svc' = svc \/ svc' \in {"app", "direct"} \/ (svc' = "polling" /\ Len(frames) < MaxDepth)
  PROVE  Stacked'
BY DEF SInv, Stacked, Nested, Bounded

LEMMA StartSInv == ASSUME IInv, SInv, ServiceStart PROVE SInv'
<1>1. /\ peers' = peers /\ svc = "app" /\ svc' = "app" /\ known' = Cardinality(DOMAIN peers)
      /\ seen' = AvailablePeers(peers) /\ meddled' = Nested
      /\ UNCHANGED <<handler, frames>>
  BY DEF ServiceStart, Start, vars, engineVars
<1>2. /\ Cardinality(AvailablePeers(peers)) =< Cardinality(DOMAIN peers)
      /\ Cardinality(DOMAIN peers) \in 0..Cardinality(Node)
      /\ AvailablePeers(peers) \in SUBSET Node
  BY PeersFinite, Sizes
<1>3. Remembered'
  BY <1>1, <1>2 DEF SInv, Remembered, Nested
<1>4. Stacked'
  BY <1>1, SameFrames
<1>5. Undisturbed'
  <2>1. ~ meddled' => frames = <<>> /\ Len(frames) = 0
    BY <1>1, EmptySeq DEF Nested
  <2> QED
    BY <1>1, <1>2, <2>1 DEF Undisturbed, Nested
<1> QED
  BY <1>3, <1>4, <1>5 DEF SInv

LEMMA StopSInv == ASSUME IInv, SInv, ServiceStop PROVE SInv'
<1>1. /\ svc = "app" /\ svc' = "app" /\ known' = 0 /\ seen' = {} /\ meddled' = Nested
      /\ UNCHANGED <<handler, frames>>
  BY DEF ServiceStop
<1>2. DOMAIN peers' = {} /\ AvailablePeers(peers') = {}
  <2>1. CASE Stop
    BY <2>1, NoPeersFacts DEF Stop, AvailablePeers
  <2>2. CASE status = "Stopped" /\ UNCHANGED vars
    BY <2>2 DEF IInv, StoppedForgets, vars, engineVars, AvailablePeers
  <2> QED
    BY <2>1, <2>2 DEF ServiceStop, StopEngine
<1>3. Cardinality({}) = 0
  BY FS_EmptySet
<1>4. Remembered'
  BY <1>1, <1>3, Sizes DEF SInv, Remembered, Nested
<1>5. Stacked'
  BY <1>1, SameFrames
<1>6. Undisturbed'
  <2>1. ~ meddled' => frames = <<>> /\ Len(frames) = 0
    BY <1>1, EmptySeq DEF Nested
  <2> QED
    BY <1>1, <1>2, <1>3, <2>1 DEF Undisturbed, Nested
<1> QED
  BY <1>4, <1>5, <1>6 DEF SInv

LEMMA HandlerSInv == ASSUME SInv, NEW h \in BOOLEAN, OnPeerFound(h) PROVE SInv'
<1>1. UNCHANGED <<peers, svc, known, frames, seen, meddled>> /\ handler' \in BOOLEAN
  BY DEF OnPeerFound, vars, engineVars
<1>2. Stacked'
  BY <1>1, SameFrames
<1> QED
  BY <1>1, <1>2 DEF SInv, Remembered, Undisturbed, Nested

LEMMA PollSInv == ASSUME SInv, NEW k \in 0..MaxBatch, ServicePoll(k) PROVE SInv'
<1>1. /\ UNCHANGED <<peers, handler, known, frames, seen>> /\ svc = "app" /\ svc' = "polling"
      /\ Len(frames) < MaxDepth /\ meddled' = (meddled \/ Nested)
  BY DEF ServicePoll, PollMany, engineVars
<1>2. Stacked'
  BY <1>1, SameFrames
<1>3. Remembered'
  BY <1>1 DEF SInv, Remembered, Nested
<1>4. Undisturbed'
  BY <1>1 DEF SInv, Undisturbed, Nested
<1> QED
  BY <1>2, <1>3, <1>4 DEF SInv

LEMMA DirectSInv ==
  ASSUME SInv, DirectStop \/ DirectPoll \/ DirectReturns
  PROVE  SInv'
<1>1. /\ UNCHANGED <<handler, known, frames, seen>>
      /\ svc' \in {"app", "direct"}
      /\ meddled' = TRUE \/ (svc = "direct" /\ UNCHANGED meddled)
  BY DEF DirectStop, DirectPoll, DirectReturns
<1>2. Stacked'
  BY <1>1, SameFrames
<1>3. Remembered'
  BY <1>1 DEF SInv, Remembered
<1>4. Undisturbed'
  BY <1>1 DEF SInv, Remembered, Undisturbed
<1> QED
  BY <1>2, <1>3, <1>4 DEF SInv

LEMMA EngineSInv == ASSUME SInv, EngineStep PROVE SInv'
<1>1. UNCHANGED serviceVars
  BY DEF EngineStep
<1>2. svc \in {"polling", "direct"} \/ UNCHANGED peers
  BY DEF EngineStep, Start, AnnounceNow, Tick, engineVars
<1>3. Stacked'
  BY <1>1, SameFrames DEF serviceVars
<1>4. Remembered'
  BY <1>1 DEF SInv, Remembered, serviceVars
<1>5. Undisturbed'
  BY <1>1, <1>2 DEF SInv, Undisturbed, Nested, serviceVars
<1> QED
  BY <1>3, <1>4, <1>5 DEF SInv

LEMMA NobodySInv == ASSUME IInv, SInv, NotifyNobody PROVE SInv'
<1>1. /\ UNCHANGED <<peers, handler, frames>> /\ svc = "polling" /\ svc' = "app"
      /\ known' = Cardinality(AvailablePeers(peers)) /\ seen' = AvailablePeers(peers)
      /\ meddled' = Nested
  BY DEF NotifyNobody, vars, engineVars
<1>2. /\ Cardinality(AvailablePeers(peers)) \in 0..Cardinality(Node)
      /\ Cardinality(AvailablePeers(peers)) =< Cardinality(DOMAIN peers)
      /\ AvailablePeers(peers) \in SUBSET Node
  BY PeersFinite, Sizes
<1>3. Stacked'
  BY <1>1, SameFrames
<1>4. Remembered'
  BY <1>1, <1>2 DEF SInv, Remembered, Nested
<1>5. Undisturbed'
  <2>1. ~ meddled' => frames = <<>> /\ Len(frames) = 0
    BY <1>1, EmptySeq DEF Nested
  <2> QED
    BY <1>1, <1>2, <2>1 DEF Undisturbed, Nested
<1> QED
  BY <1>3, <1>4, <1>5 DEF SInv

LEMMA BeginSInv == ASSUME IInv, SInv, NotifyBegin PROVE SInv'
<1> DEFINE discovered == AvailablePeers(peers)
<1>1. PICK S \in SUBSET discovered :
        /\ Cardinality(S) = Cardinality(discovered) - known
        /\ frames' = Append(frames, [batch |-> discovered, pending |-> S,
                                     found |-> {}, before |-> seen])
  BY DEF NotifyBegin
<1> DEFINE f == [batch |-> discovered, pending |-> S, found |-> {}, before |-> seen]
<1>2. /\ UNCHANGED <<peers, handler, known, seen>> /\ svc = "polling" /\ svc' = "notify"
      /\ meddled' = Nested
  BY DEF NotifyBegin, vars, engineVars
<1>3. /\ discovered \in SUBSET Node /\ S \in SUBSET Node /\ seen \in SUBSET Node
      /\ frames \in Seq(Frame) /\ Len(frames) \in Nat
  BY PeersFinite, LenProperties DEF SInv, Remembered, Stacked
<1>4. f \in Frame
  BY <1>3 DEF Frame
<1>5. Bounded(f)
  <2>1. Cardinality(discovered \ seen) >= Cardinality(discovered) - Cardinality(seen)
    BY <1>3, Sizes
  <2>2. /\ Cardinality(discovered) \in 0..Cardinality(Node)
        /\ Cardinality(seen) \in 0..Cardinality(Node)
        /\ Cardinality(discovered \ seen) \in 0..Cardinality(Node)
    BY <1>3, Sizes
  <2>3. Cardinality(seen) =< known /\ known \in 0..Cardinality(Node)
    BY DEF SInv, Remembered
  <2>4. S \cup {} = S
    OBVIOUS
  <2>5. Cardinality(S) =< Cardinality(discovered \ seen)
    <3> HIDE DEF discovered
    <3> QED
      BY <1>1, <2>1, <2>2, <2>3
  <2> QED
    BY <2>4, <2>5 DEF Bounded
<1>6. /\ frames' = Append(frames, f)
      /\ frames' \in Seq(Frame) /\ Len(frames') = Len(frames) + 1 /\ frames' # <<>>
      /\ Last(frames').batch = discovered
      /\ \A i \in DOMAIN frames' :
           frames'[i] = f \/ (i \in DOMAIN frames /\ frames'[i] = frames[i])
  BY <1>1, <1>3, <1>4, AppendFacts
<1>7. Remembered'
  BY <1>2 DEF SInv, Remembered, Nested
<1>8. Stacked'
  <2>1. Len(frames') =< MaxDepth
    BY <1>2, <1>3, <1>6, ServiceAssumption DEF SInv, Stacked
  <2>2. \A i \in DOMAIN frames' : Bounded(frames'[i])
    BY <1>5, <1>6 DEF SInv, Stacked
  <2> QED
    BY <1>2, <1>6, <2>1, <2>2 DEF Stacked, Nested, Bounded
<1>9. Undisturbed'
  <2>1. ~ meddled' => Len(frames) = 0
    BY <1>2, EmptySeq DEF Nested
  <2> QED
    BY <1>2, <1>6, <2>1 DEF Undisturbed, Nested
<1> QED
  BY <1>7, <1>8, <1>9 DEF SInv

LEMMA CallbackSInv == ASSUME SInv, NEW n \in Node, Callback(n) PROVE SInv'
<1> DEFINE f == Last(frames)
<1>1. /\ UNCHANGED <<peers, handler, known, seen, meddled>> /\ svc = "notify" /\ svc' = "app"
      /\ n \in f.pending
      /\ frames' = [frames EXCEPT ![Len(frames)] = Called(f, n)]
  BY DEF Callback, vars, engineVars, Last
<1>2. /\ frames \in Seq(Frame) /\ frames # <<>> /\ Len(frames) \in Nat \ {0} /\ f \in Frame
  BY <1>1, FrontFacts DEF SInv, Stacked, Nested
<1>3. /\ Called(f, n) \in Frame /\ Called(f, n).batch = f.batch
      /\ Bounded(f) => Bounded(Called(f, n))
  BY <1>1, <1>2, CalledFacts
<1>4. /\ frames' \in Seq(Frame) /\ Len(frames') = Len(frames) /\ frames' # <<>>
      /\ Last(frames') = Called(f, n)
      /\ \A i \in DOMAIN frames' :
           i \in DOMAIN frames /\ (frames'[i] = Called(f, n) \/ frames'[i] = frames[i])
  BY <1>1, <1>2, <1>3, ReplaceFacts
<1>5. Bounded(f)
  BY <1>2, LenProperties DEF SInv, Stacked, Last
<1>6. Remembered'
  BY <1>1 DEF SInv, Remembered, Nested
<1>7. Stacked'
  <2>1. \A i \in DOMAIN frames' : Bounded(frames'[i])
    BY <1>3, <1>4, <1>5 DEF SInv, Stacked
  <2> QED
    BY <1>1, <1>4, <2>1 DEF SInv, Stacked, Nested, Bounded
<1>8. Undisturbed'
  BY <1>1, <1>2, <1>3, <1>4 DEF SInv, Undisturbed, Nested
<1> QED
  BY <1>6, <1>7, <1>8 DEF SInv

LEMMA ReturnsSInv == ASSUME SInv, CallbackReturns PROVE SInv'
<1>1. /\ UNCHANGED <<peers, handler, known, frames, seen, meddled>>
      /\ svc = "app" /\ svc' = "notify" /\ Nested
  BY DEF CallbackReturns, vars, engineVars
<1> QED
  BY <1>1 DEF SInv, Remembered, Stacked, Undisturbed, Nested, Bounded

(* The end of a loop, by whatever way, gives back the frames below it. *)
LEMMA FrontStacked ==
  ASSUME SInv, Nested, frames' = Front(frames), svc' = "app"
  PROVE  Stacked' /\ Len(frames') = Len(frames) - 1
<1>1. /\ Len(frames) \in Nat \ {0} /\ frames' \in Seq(Frame) /\ Len(frames') = Len(frames) - 1
      /\ \A i \in DOMAIN frames' : i \in DOMAIN frames /\ frames'[i] = frames[i]
  BY FrontFacts DEF SInv, Stacked, Nested
<1>2. Len(frames') =< MaxDepth
  BY <1>1, ServiceAssumption DEF SInv, Stacked
<1>3. \A i \in DOMAIN frames' : Bounded(frames'[i])
  BY <1>1 DEF SInv, Stacked
<1> QED
  BY <1>1, <1>2, <1>3 DEF Stacked, Nested, Bounded

LEMMA ThrowsSInv == ASSUME SInv, CallbackThrows PROVE SInv'
<1>1. /\ UNCHANGED <<peers, handler, known, seen>> /\ Nested /\ svc' = "app"
      /\ frames' = Front(frames) /\ meddled' = TRUE
  BY DEF CallbackThrows, vars, engineVars
<1>2. Stacked'
  BY <1>1, FrontStacked
<1> QED
  BY <1>1, <1>2 DEF SInv, Remembered, Undisturbed, Nested

LEMMA EndSInv == ASSUME IInv, SInv, NotifyEnd PROVE SInv'
<1> DEFINE f == Last(frames)
<1>1. /\ UNCHANGED <<peers, handler, meddled>> /\ svc = "notify" /\ svc' = "app" /\ Nested
      /\ frames' = Front(frames) /\ known' = Cardinality(f.batch) /\ seen' = f.batch
  BY DEF NotifyEnd, vars, engineVars, SInv, Stacked
<1>2. /\ f \in Frame /\ Len(frames) \in Nat \ {0}
  BY <1>1, FrontFacts DEF SInv, Stacked, Nested
<1>3. /\ f.batch \in SUBSET Node /\ Cardinality(f.batch) \in 0..Cardinality(Node)
      /\ Cardinality(AvailablePeers(peers)) =< Cardinality(DOMAIN peers)
      /\ Cardinality(AvailablePeers(peers)) \in 0..Cardinality(Node)
  BY <1>2, PeersFinite, Sizes DEF Frame
<1>4. Stacked' /\ Len(frames') = Len(frames) - 1
  BY <1>1, FrontStacked
<1>5. Remembered'
  BY <1>1, <1>3 DEF SInv, Remembered, Nested
<1>6. Undisturbed'
  <2>1. SUFFICES ASSUME ~ meddled PROVE Undisturbed'
    BY <1>1 DEF Undisturbed
  <2>2. /\ Len(frames) =< 1 /\ f.batch = AvailablePeers(peers)
    BY <1>1, <2>1 DEF SInv, Undisturbed
  <2>3. Len(frames') = 0 /\ frames' = <<>>
    BY <1>2, <1>4, <2>2, EmptySeq DEF Stacked
  <2> QED
    BY <1>1, <1>3, <2>2, <2>3 DEF Undisturbed, Nested
<1> QED
  BY <1>4, <1>5, <1>6 DEF SInv

LEMMA ServiceNextInv == IInv /\ SInv /\ [ServiceNext]_allVars => SInv'
<1> SUFFICES ASSUME IInv, SInv, [ServiceNext]_allVars PROVE SInv'
  OBVIOUS
<1>1. CASE UNCHANGED allVars
  BY <1>1 DEF SInv, Remembered, Stacked, Undisturbed, Nested, Bounded, allVars, vars,
              engineVars, serviceVars
<1>2. CASE ServiceNext
  BY <1>2, StartSInv, StopSInv, HandlerSInv, PollSInv, DirectSInv, EngineSInv, NobodySInv, BeginSInv,
     CallbackSInv, ReturnsSInv, ThrowsSInv, EndSInv DEF ServiceNext
<1> QED
  BY <1>1, <1>2

LEMMA ServiceInvariant == ServiceSpec => [](IInv /\ SInv)
<1>1. ServiceInit => SInv
  BY InitInv, InitSInv DEF ServiceInit
<1> QED
  BY <1>1, ServiceNextInv, EngineInvariant, PTL DEF ServiceSpec

-----------------------------------------------------------------------------
(* The guarantees *)

(* The service's state is well typed, however deep its polls are nested. *)
THEOREM ServiceTypeCorrect == ServiceSpec => []ServiceTypeOK
<1>1. IInv /\ SInv => ServiceTypeOK
  BY DEF IInv, SInv, Remembered, Stacked, ServiceTypeOK
<1> QED
  BY <1>1, ServiceInvariant, PTL

(* Once an undisturbed call has set it, the count lies between the peers   *)
(* that are available and those that are registered.                       *)
THEOREM KnownAlwaysBounded == ServiceSpec => []KnownBounds
<1>1. SInv => KnownBounds
  BY DEF SInv, Undisturbed, KnownBounds
<1> QED
  BY <1>1, ServiceInvariant, PTL

(* No loop calls back more often than there are peers that were not there  *)
(* when the count was last set, whatever its callbacks do.                 *)
THEOREM CallbacksAlwaysBounded == ServiceSpec => []CallbacksBounded
<1>1. SInv => CallbacksBounded
  BY DEF SInv, Stacked, Bounded, CallbacksBounded
<1> QED
  BY <1>1, ServiceInvariant, PTL

=============================================================================
