---------------------------- MODULE DiscoveryEngine ----------------------------
(***************************************************************************)
(* engine/DiscoveryEngine.hpp: one engine, the backend it drives, and the  *)
(* transport it hands peers to.                                            *)
(*                                                                         *)
(* The engine has no thread and no lock: it acts only inside the calls of  *)
(* its owner, and the only place where a call waits is the receive that    *)
(* ends poll_once.  pc says where the owner's call is:                     *)
(*   "idle"  no call is in progress;                                       *)
(*   "loop"  in poll_many, about to call poll_once or to leave the loop;   *)
(*   "recv"  in poll_once, announced and refreshed, waiting for a datagram *)
(*           that may take up to the socket's receive timeout (which is    *)
(*           announce_interval).                                           *)
(*                                                                         *)
(* The network may hand the engine any message at any receive, which       *)
(* covers loss, duplication, reordering, delay and replies nobody asked    *)
(* for.  Sends may fail and take no time.  Calls that return early without *)
(* changing anything, and probe_now, are stuttering steps.                 *)
(***************************************************************************)
EXTENDS PeerRegistry

CONSTANTS
  Self,               \* config.node_id
  AnnounceInterval,   \* config.announce_interval, also the receive timeout
  PeerTtl,            \* config.peer_ttl
  MaxTime,            \* bound on the clock
  MaxBatch,           \* bound on the argument of poll_many
  MaxSignals          \* bound on the signals that interrupt one receive

ASSUME EngineAssumption ==
  /\ Self \in Node
  /\ AnnounceInterval \in Nat \ {0}
  /\ PeerTtl \in Nat \ {0}
  /\ MaxTime \in Nat \ {0}
  /\ MaxBatch \in Nat
  /\ MaxSignals \in Nat

VARIABLES
  status,             \* status_
  backend_running,    \* backend_.running_
  context_ok,         \* context_.is_valid(): pointers set and config valid
  peers,              \* registry_
  last_announce_at,   \* last_announce_at_
  now,                \* what Timestamp::now() returns
  pc,                 \* where the owner's call is (above)
  todo,               \* poll_many: iterations left
  deadline,           \* when the pending receive times out
  signals,            \* history: interrupted attempts of the pending receive
  refreshed,          \* history: when refresh_peer_states last ran
  muted,              \* history: the last due announcement could not be sent
  transport_running,  \* transport->is_running()
  transport           \* transport->peers(): the endpoint of each known node

engineVars == <<status, backend_running, context_ok, peers, last_announce_at>>
pollVars == <<pc, todo, deadline, signals, refreshed, muted>>
transportVars == <<transport_running, transport>>
vars == <<engineVars, now, pollVars, transportVars>>

StaleAfter == PeerTtl \div 2

IsRunning == status = "Running" /\ backend_running

TypeOK ==
  /\ status \in {"Stopped", "Running", "Failed"}
  /\ backend_running \in BOOLEAN
  /\ context_ok \in BOOLEAN
  /\ IsRegistry(peers)
  /\ last_announce_at \in Nat
  /\ now \in Nat \ {0}
  /\ pc \in {"idle", "loop", "recv"}
  /\ todo \in Nat
  /\ deadline \in Nat
  /\ signals \in Nat
  /\ refreshed \in Nat
  /\ muted \in BOOLEAN
  /\ transport_running \in BOOLEAN
  /\ DOMAIN transport \subseteq Node
  /\ \A n \in DOMAIN transport : transport[n] \in Addr

Init ==
  /\ status = "Stopped"
  /\ backend_running \in BOOLEAN
  /\ context_ok \in BOOLEAN
  /\ peers = NoPeers
  /\ last_announce_at = NoTime
  /\ now = 1
  /\ pc = "idle"
  /\ todo = 0
  /\ deadline = NoTime
  /\ signals = 0
  /\ refreshed = NoTime
  /\ muted = FALSE
  /\ transport_running \in BOOLEAN
  /\ transport = [n \in {} |-> NoAddr]

-----------------------------------------------------------------------------
(* start, stop and announce_now; up is what starting the backend yields,   *)
(* and a backend that already runs says yes.                               *)

StartRejected ==
  /\ ~ context_ok
  /\ status' = "Failed"
  /\ UNCHANGED <<backend_running, last_announce_at>>

StartFailed ==
  /\ context_ok
  /\ ~ backend_running
  /\ status' = "Failed"
  /\ UNCHANGED <<backend_running, last_announce_at>>

StartSucceeded ==
  /\ context_ok
  /\ backend_running' = TRUE
  /\ last_announce_at' = NoTime
  /\ status' = "Running"

Start ==
  /\ pc = "idle"
  /\ status # "Running"
  /\ StartRejected \/ StartFailed \/ StartSucceeded
  /\ UNCHANGED <<context_ok, peers, now, pollVars, transportVars>>

(* Faulty: what the engine learnt outlives the stop. *)
Stop_KeepsPeers ==
  /\ pc = "idle"
  /\ status # "Stopped"
  /\ backend_running' = FALSE
  /\ last_announce_at' = NoTime
  /\ status' = "Stopped"
  /\ refreshed' = NoTime
  /\ UNCHANGED <<peers, context_ok, now, pc, todo, deadline, signals, muted, transportVars>>

(* Faulty: the backend is left running. *)
Stop_KeepsBackend ==
  /\ pc = "idle"
  /\ status # "Stopped"
  /\ peers' = NoPeers
  /\ last_announce_at' = NoTime
  /\ status' = "Stopped"
  /\ refreshed' = NoTime
  /\ UNCHANGED <<backend_running, context_ok, now, pc, todo, deadline, signals, muted, transportVars>>

Stop ==
  /\ pc = "idle"
  /\ status # "Stopped"
  /\ backend_running' = FALSE
  /\ peers' = NoPeers
  /\ last_announce_at' = NoTime
  /\ status' = "Stopped"
  /\ refreshed' = NoTime
  /\ UNCHANGED <<context_ok, now, pc, todo, deadline, signals, muted, transportVars>>

(* A send that fails leaves the engine as it was. *)
AnnounceNow ==
  /\ pc = "idle"
  /\ IsRunning
  /\ context_ok
  /\ last_announce_at' = now
  /\ UNCHANGED <<status, backend_running, context_ok, peers, now, pollVars, transportVars>>

-----------------------------------------------------------------------------
(* poll_once and poll_many *)

(* The guard on the clock leaves room for every wait of the batch. *)
PollMany(k) ==
  /\ pc = "idle"
  /\ now + k * (1 + MaxSignals) * AnnounceInterval =< MaxTime
  /\ pc' = "loop"
  /\ todo' = k
  /\ UNCHANGED <<engineVars, now, deadline, signals, refreshed, muted, transportVars>>

(* Faulty: only the count is looked at, not what poll_once returns. *)
PollEnd_CountOnly ==
  /\ pc = "loop"
  /\ todo = 0
  /\ pc' = "idle"
  /\ UNCHANGED <<engineVars, now, todo, deadline, signals, refreshed, muted, transportVars>>

(* The loop ends: its count is reached, or poll_once returns at once. *)
PollEnd ==
  /\ pc = "loop"
  /\ todo = 0 \/ ~ IsRunning
  /\ pc' = "idle"
  /\ todo' = 0
  /\ UNCHANGED <<engineVars, now, deadline, signals, refreshed, muted, transportVars>>

AnnounceDue ==
  ~ IsValidTime(last_announce_at) \/ now - last_announce_at >= AnnounceInterval

(* Faulty: strictly more than the interval has to elapse. *)
MaybeAnnounce_Strict(sent) ==
  LET due == ~ IsValidTime(last_announce_at) \/ now - last_announce_at > AnnounceInterval
  IN  /\ last_announce_at' = IF due /\ sent THEN now ELSE last_announce_at
      /\ muted' = (due /\ ~ sent)

MaybeAnnounce(sent) ==
  /\ last_announce_at' = IF AnnounceDue /\ sent THEN now ELSE last_announce_at
  /\ muted' = (AnnounceDue /\ ~ sent)

(* Faulty: the peers are refreshed against the instant of the last announce. *)
RefreshPeerStates_AtAnnounce ==
  /\ peers' = RefreshStates(peers, last_announce_at, StaleAfter, PeerTtl)
  /\ refreshed' = now

RefreshPeerStates ==
  /\ peers' = RefreshStates(peers, now, StaleAfter, PeerTtl)
  /\ refreshed' = now

(* Faulty: the loop goes on past the count. *)
PollBegin_Uncounted ==
  /\ pc = "loop"
  /\ IsRunning
  /\ \E sent \in BOOLEAN : MaybeAnnounce(sent)
  /\ RefreshPeerStates
  /\ pc' = "recv"
  /\ deadline' = now + AnnounceInterval
  /\ signals' = 0
  /\ UNCHANGED <<status, backend_running, context_ok, now, todo, transportVars>>

(* Faulty: the socket waits for peer_ttl instead of announce_interval. *)
PollBegin_LongWait ==
  /\ pc = "loop"
  /\ todo > 0
  /\ IsRunning
  /\ \E sent \in BOOLEAN : MaybeAnnounce(sent)
  /\ RefreshPeerStates
  /\ pc' = "recv"
  /\ deadline' = now + PeerTtl
  /\ signals' = 0
  /\ UNCHANGED <<status, backend_running, context_ok, now, todo, transportVars>>

(* One iteration of the loop up to the receive. *)
PollBegin ==
  /\ pc = "loop"
  /\ todo > 0
  /\ IsRunning
  /\ \E sent \in BOOLEAN : MaybeAnnounce(sent)
  /\ RefreshPeerStates
  /\ pc' = "recv"
  /\ deadline' = now + AnnounceInterval
  /\ signals' = 0
  /\ UNCHANGED <<status, backend_running, context_ok, now, todo, transportVars>>

(* The receive ends; the loop goes on only if poll_once returned true. *)
Polled(processed) ==
  /\ pc' = IF processed THEN "loop" ELSE "idle"
  /\ todo' = IF processed THEN todo - 1 ELSE 0

(* Nothing arrived in time. *)
RecvTimeout ==
  /\ pc = "recv"
  /\ now >= deadline
  /\ Polled(FALSE)
  /\ UNCHANGED <<engineVars, now, deadline, signals, refreshed, muted, transportVars>>

(* A receive error, an empty datagram, one that does not decode. *)
RecvNothing ==
  /\ pc = "recv"
  /\ Polled(FALSE)
  /\ UNCHANGED <<engineVars, now, deadline, signals, refreshed, muted, transportVars>>

(* EINTR: recvfrom is called again, with the whole timeout ahead of it. *)
Interrupt ==
  /\ pc = "recv"
  /\ signals < MaxSignals
  /\ signals' = signals + 1
  /\ deadline' = now + AnnounceInterval
  /\ UNCHANGED <<engineVars, now, pc, todo, refreshed, muted, transportVars>>

-----------------------------------------------------------------------------
(* Handlers.  Each one leaves status, backend and clock alone. *)

(* Faulty: a message whose announcement is the engine's own is kept. *)
Accepts_Own(m) == IsValidAnnouncement(m.ann)

(* handle_announce and handle_reply take the same announcements. *)
Accepts(m) == IsValidAnnouncement(m.ann) /\ m.ann.node_id # Self

(* Faulty: a node the transport knows already is connected again. *)
IntegrateWithTransport_Again(a) ==
  \/ UNCHANGED transport
  \/ /\ transport_running
     /\ transport' = [n \in DOMAIN transport \cup {a.node_id} |->
                        IF n = a.node_id THEN a.addr ELSE transport[n]]

(* connect_peer may fail, and its result is not looked at. *)
IntegrateWithTransport(a) ==
  \/ UNCHANGED transport
  \/ /\ IsValidAnnouncement(a)
     /\ transport_running
     /\ a.node_id \notin DOMAIN transport
     /\ transport' = [n \in DOMAIN transport \cup {a.node_id} |->
                        IF n = a.node_id THEN a.addr ELSE transport[n]]

HandleAnnouncement(m) ==
  /\ m.type \in {"Announce", "Reply"}
  /\ Accepts(m)
  /\ peers' = UpsertAnnouncement(peers, m.ann, now)
  /\ IntegrateWithTransport(m.ann)
  /\ Polled(TRUE)

(* The reply goes to the source of the probe, if there is one. *)
HandleProbe(m) ==
  /\ m.type = "Probe"
  /\ \E sent \in BOOLEAN : Polled(m.has_source /\ sent)
  /\ UNCHANGED <<peers, transport>>

(* An invalid message, an echo of the engine's own, a bad announcement. *)
HandleRejected(m) ==
  /\ \/ ~ IsValidMessage(m)
     \/ m.from = Self
     \/ m.type \in {"Announce", "Reply"} /\ ~ Accepts(m)
  /\ Polled(FALSE)
  /\ UNCHANGED <<peers, transport>>

RecvMessage(m) ==
  /\ pc = "recv"
  /\ \/ /\ IsValidMessage(m)
        /\ m.from # Self
        /\ HandleAnnouncement(m) \/ HandleProbe(m)
     \/ HandleRejected(m)
  /\ UNCHANGED <<status, backend_running, context_ok, last_announce_at, now,
                 deadline, signals, refreshed, muted, transport_running>>

-----------------------------------------------------------------------------
(* The surroundings: the clock, the backend's owner, the transport.        *)

(* Time passes between calls and while a receive waits. *)
Tick ==
  /\ now < MaxTime
  /\ pc = "idle" \/ (pc = "recv" /\ now < deadline)
  /\ now' = now + 1
  /\ UNCHANGED <<engineVars, pollVars, transportVars>>

(* The backend belongs to someone else, who may start and stop it. *)
BackendToggle ==
  /\ pc = "idle"
  /\ backend_running' = ~ backend_running
  /\ UNCHANGED <<status, context_ok, peers, last_announce_at, now, pollVars, transportVars>>

TransportToggle ==
  /\ transport_running' = ~ transport_running
  /\ UNCHANGED <<engineVars, now, pollVars, transport>>

TransportDrop(n) ==
  /\ n \in DOMAIN transport
  /\ transport' = [m \in DOMAIN transport \ {n} |-> transport[m]]
  /\ UNCHANGED <<engineVars, now, pollVars, transport_running>>

-----------------------------------------------------------------------------
Poll ==
  \/ PollBegin
  \/ PollEnd
  \/ RecvTimeout
  \/ RecvNothing
  \/ Interrupt
  \/ \E m \in Message : RecvMessage(m)

Next ==
  \/ Start
  \/ Stop
  \/ AnnounceNow
  \/ \E k \in 0..MaxBatch : PollMany(k)
  \/ Poll
  \/ Tick
  \/ BackendToggle
  \/ TransportToggle
  \/ \E n \in Node : TransportDrop(n)

Spec == Init /\ [][Next]_vars

(***************************************************************************)
(* The owner's thread keeps running, time passes, and the operating system *)
(* honours SO_RCVTIMEO.  Nothing obliges a datagram or a signal to arrive, *)
(* nor the owner to poll.                                                  *)
(***************************************************************************)
FairSpec ==
  /\ Spec
  /\ WF_vars(Tick)
  /\ WF_vars(PollBegin)
  /\ WF_vars(PollEnd)
  /\ WF_vars(RecvTimeout)

-----------------------------------------------------------------------------
(* Properties *)

(* An engine never lists itself as a peer nor asks the transport to        *)
(* connect to itself, whatever a sender puts in from_node_id and in the    *)
(* announcement (poll_once filters the one, the handlers the other).       *)
NoSelf == Self \notin DOMAIN peers /\ Self \notin DOMAIN transport

(* An engine that is not running knows no peer and owes an announcement:   *)
(* it cannot come back with peers of an earlier run or stay silent.        *)
StoppedForgets ==
  status # "Running" => DOMAIN peers = {} /\ last_announce_at = NoTime

(* A verdict has been earned: a Stale peer had been silent for half the    *)
(* time to live, an Expired one for all of it, when last refreshed; and a  *)
(* peer that is offered as available had been heard more recently.         *)
VerdictsAreEarned ==
  \A n \in DOMAIN peers :
    LET silent == refreshed - peers[n].last_seen
    IN  /\ peers[n].state = "Stale" => silent >= StaleAfter
        /\ peers[n].state = "Expired" => silent >= PeerTtl
        /\ IsAvailable(peers[n].state) => silent < StaleAfter \/ silent =< 0

(* While the owner is blocked in a receive, a peer that died stays in the  *)
(* lists no longer than the stale window plus the waits of that receive,   *)
(* each signal adding one wait.                                            *)
AvailableIsRecent ==
  pc = "recv" =>
    \A n \in AvailablePeers(peers) :
      now - peers[n].last_seen < StaleAfter + (1 + signals) * AnnounceInterval

(* An owner that keeps polling announces often enough: less than two       *)
(* intervals have passed since the last announcement, plus one for each    *)
(* signal; or the last due one could not be sent, and then it is still due *)
(* and the next poll tries again (announce_now, maybe_announce).           *)
AnnounceFresh ==
  pc = "recv" =>
    \/ /\ ~ muted
       /\ IsValidTime(last_announce_at)
       /\ now - last_announce_at < (2 + signals) * AnnounceInterval
    \/ muted /\ AnnounceDue

(* A peer enters the available list only by a message received now, while  *)
(* the engine runs, and the transport is asked to connect only to such a   *)
(* peer, at the endpoint the registry holds, and only once.                *)
NewsNeedsMessage ==
  [][/\ \A n \in AvailablePeers(peers') \ AvailablePeers(peers) :
          pc = "recv" /\ status = "Running" /\ peers'[n].last_seen = now
     /\ \A n \in DOMAIN transport' :
          IF n \in DOMAIN transport
          THEN transport'[n] = transport[n]
          ELSE /\ n \in AvailablePeers(peers')
               /\ peers'[n].ann.addr = transport'[n]
               /\ peers'[n].last_seen = now]_vars

Presence ==
  INSTANCE PeerPresence WITH
    Other <- Node \ {Self}, up <- status = "Running",
    known <- DOMAIN peers, available <- AvailablePeers(peers)

(* What an application sees of the engine (peers(), alive peers) is what   *)
(* PeerPresence promises: hearing puts a node on the list, silence takes   *)
(* it off, stop() forgets.                                                 *)
ImplementsPresence == Presence!PresenceSpec

(* A call of poll_many returns. *)
PollReturns == pc # "idle" ~> pc = "idle"
=============================================================================
