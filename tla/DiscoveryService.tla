---------------------------- MODULE DiscoveryService ----------------------------
(***************************************************************************)
(* DiscoveryService.hpp: the facade that owns a backend and an engine and  *)
(* tells a callback about new peers after each poll.                       *)
(*                                                                         *)
(* The service decides whom to report by a count: it remembers how many    *)
(* peers were available, and reports those from that position on in the    *)
(* list it reads next.  The list follows the order of an unordered_map,    *)
(* which an insertion may change: the reported peers are any subset of the *)
(* right size.                                                             *)
(*                                                                         *)
(* The callback is the application's code and runs inside poll().  It may  *)
(* do all that the application may do outside: start, stop, change the     *)
(* handler, poll again, and throw.  So the calls are a stack: frames holds *)
(* one loop of notify_new_peers for each poll that is under way, and the   *)
(* application acts outside of all of them or in the callback of the last. *)
(*                                                                         *)
(* engine() gives the application the engine itself: it may start, stop    *)
(* and poll that behind the service, from outside and from the callback.   *)
(*                                                                         *)
(* The backend is private, so nobody starts or stops it behind the engine; *)
(* the transport keeps the state it has at the beginning.                  *)
(***************************************************************************)
EXTENDS DiscoveryEngine, SequencesExt, FiniteSets

CONSTANT MaxDepth   \* bound on the polls that are under way at once

ASSUME ServiceAssumption ==
  /\ MaxDepth \in Nat \ {0}
  /\ MaxBatch > 0
  /\ IsFiniteSet(Node)

VARIABLES
  svc,       \* "app" (the application acts), "polling" (in the engine),
             \*   "direct" (in the engine, not through the service),
             \*   "notify" (in the loop of the last frame)
  handler,   \* on_peer_found_ is set
  known,     \* known_peer_count_
  frames,    \* the loops of notify_new_peers, the innermost last
  seen,      \* history: the peers available when known_peer_count_ was last set
  meddled    \* history: since the last call from outside set the count, a
             \*   callback started, stopped or polled the service, or threw,
             \*   or the engine was stopped or polled behind the service

serviceVars == <<svc, handler, known, frames, seen, meddled>>
allVars == <<vars, serviceVars>>

(* batch: discovered, the peers the loop read; pending: those of them the  *)
(* callback is still to be called with; found: those it was called with;   *)
(* before: history, the value of seen when the loop began.                 *)
Frame == [batch : SUBSET Node, pending : SUBSET Node,
          found : SUBSET Node, before : SUBSET Node]

Nested == frames # <<>>

ServiceTypeOK ==
  /\ TypeOK
  /\ svc \in {"app", "polling", "direct", "notify"}
  /\ handler \in BOOLEAN
  /\ known \in 0..Cardinality(Node)
  /\ frames \in Seq(Frame)
  /\ Len(frames) =< MaxDepth
  /\ seen \subseteq Node
  /\ meddled \in BOOLEAN

ServiceInit ==
  /\ Init
  /\ ~ backend_running
  /\ svc = "app"
  /\ handler = FALSE
  /\ known = 0
  /\ frames = <<>>
  /\ seen = {}
  /\ meddled = FALSE

-----------------------------------------------------------------------------
(* start, stop, the handler, poll: from outside or from the callback *)

(* Faulty: the count starts from zero although peers may be known. *)
ServiceStart_ZeroCount ==
  /\ svc = "app"
  /\ context_ok
  /\ known' = 0
  /\ seen' = AvailablePeers(peers)
  /\ Start \/ (status = "Running" /\ UNCHANGED vars)
  /\ meddled' = Nested
  /\ UNCHANGED <<svc, handler, frames>>

(* Invalid options end start() before it touches anything. *)
ServiceStart ==
  /\ svc = "app"
  /\ context_ok
  /\ known' = Cardinality(DOMAIN peers)
  /\ seen' = AvailablePeers(peers)
  /\ Start \/ (status = "Running" /\ UNCHANGED vars)
  /\ meddled' = Nested
  /\ UNCHANGED <<svc, handler, frames>>

(* Faulty: the peers are forgotten, but the engine keeps running. *)
StopEngine_ClearsOnly ==
  /\ pc = "idle"
  /\ peers' = NoPeers
  /\ UNCHANGED <<status, backend_running, context_ok, last_announce_at, now,
                 pollVars, transportVars>>

StopEngine == Stop \/ (status = "Stopped" /\ UNCHANGED vars)

ServiceStop ==
  /\ svc = "app"
  /\ StopEngine
  /\ known' = 0
  /\ seen' = {}
  /\ meddled' = Nested
  /\ UNCHANGED <<svc, handler, frames>>

OnPeerFound(h) ==
  /\ svc = "app"
  /\ handler' = h
  /\ UNCHANGED <<vars, svc, known, frames, seen, meddled>>

(* poll() is the case k = 1: its result is not part of the state. *)
ServicePoll(k) ==
  /\ svc = "app"
  /\ Len(frames) < MaxDepth
  /\ PollMany(k)
  /\ svc' = "polling"
  /\ meddled' = (meddled \/ Nested)
  /\ UNCHANGED <<handler, known, frames, seen>>

-----------------------------------------------------------------------------
(* notify_new_peers *)

(* Faulty: nothing is counted while no handler is set. *)
NotifyNobody_Uncounted ==
  /\ svc = "polling" /\ pc = "idle"
  /\ LET discovered == AvailablePeers(peers)
     IN  /\ ~ handler \/ Cardinality(discovered) =< known
         /\ known' = IF handler THEN Cardinality(discovered) ELSE known
         /\ seen' = discovered
  /\ svc' = "app"
  /\ meddled' = Nested
  /\ UNCHANGED <<vars, handler, frames>>

NotifyNobody ==
  /\ svc = "polling" /\ pc = "idle"
  /\ LET discovered == AvailablePeers(peers)
     IN  /\ ~ handler \/ Cardinality(discovered) =< known
         /\ known' = Cardinality(discovered)
         /\ seen' = discovered
  /\ svc' = "app"
  /\ meddled' = Nested
  /\ UNCHANGED <<vars, handler, frames>>

NotifyBegin ==
  /\ svc = "polling" /\ pc = "idle"
  /\ LET discovered == AvailablePeers(peers)
     IN  /\ handler
         /\ Cardinality(discovered) > known
         /\ \E S \in SUBSET discovered :
              /\ Cardinality(S) = Cardinality(discovered) - known
              /\ frames' = Append(frames, [batch |-> discovered, pending |-> S,
                                           found |-> {}, before |-> seen])
  /\ svc' = "notify"
  /\ meddled' = Nested
  /\ UNCHANGED <<vars, handler, known, seen>>

(* The frame after its loop has called the handler with n. *)
Called(f, n) == [batch |-> f.batch, pending |-> f.pending \ {n},
                 found |-> f.found \cup {n}, before |-> f.before]

Callback(n) ==
  /\ svc = "notify"
  /\ handler
  /\ n \in Last(frames).pending
  /\ frames' = [frames EXCEPT ![Len(frames)] = Called(@, n)]
  /\ svc' = "app"
  /\ UNCHANGED <<vars, handler, known, seen, meddled>>

CallbackReturns ==
  /\ svc = "app"
  /\ Nested
  /\ svc' = "notify"
  /\ UNCHANGED <<vars, handler, known, frames, seen, meddled>>

(* An exception ends the loop and the poll it is part of, and the count    *)
(* stays as it is: one from the callback, or from the call of a handler    *)
(* that the callback has taken away.                                       *)
CallbackThrows ==
  /\ Nested
  /\ \/ svc = "app"
     \/ svc = "notify" /\ ~ handler /\ Last(frames).pending # {}
  /\ frames' = Front(frames)
  /\ svc' = "app"
  /\ meddled' = TRUE
  /\ UNCHANGED <<vars, handler, known, seen>>

(* Faulty: the new peers are added to the count. *)
NotifyEnd_Adds ==
  /\ svc = "notify"
  /\ Last(frames).pending = {}
  /\ known' = known + Cardinality(Last(frames).batch)
  /\ seen' = Last(frames).batch
  /\ frames' = Front(frames)
  /\ svc' = "app"
  /\ UNCHANGED <<vars, handler, meddled>>

(* The count of the copy is kept, whatever the callbacks did meanwhile. *)
NotifyEnd ==
  /\ svc = "notify"
  /\ Last(frames).pending = {}
  /\ known' = Cardinality(Last(frames).batch)
  /\ seen' = Last(frames).batch
  /\ frames' = Front(frames)
  /\ svc' = "app"
  /\ UNCHANGED <<vars, handler, meddled>>

-----------------------------------------------------------------------------
(* engine(): the calls that change the registry and leave the count. *)

DirectStop ==
  /\ svc = "app"
  /\ Stop
  /\ meddled' = TRUE
  /\ UNCHANGED <<svc, handler, known, frames, seen>>

(* poll_once(): poll_many makes the same calls one after another. *)
DirectPoll ==
  /\ svc = "app"
  /\ PollMany(1)
  /\ svc' = "direct"
  /\ meddled' = TRUE
  /\ UNCHANGED <<handler, known, frames, seen>>

DirectReturns ==
  /\ svc = "direct" /\ pc = "idle"
  /\ svc' = "app"
  /\ UNCHANGED <<vars, handler, known, frames, seen, meddled>>

(* Steps of the engine in which the service has no part. *)
EngineStep ==
  /\ \/ svc = "app" /\ (Start \/ AnnounceNow)
     \/ svc \in {"polling", "direct"} /\ Poll
     \/ Tick
  /\ UNCHANGED serviceVars

ServiceNext ==
  \/ ServiceStart
  \/ ServiceStop
  \/ \E h \in BOOLEAN : OnPeerFound(h)
  \/ \E k \in 0..MaxBatch : ServicePoll(k)
  \/ DirectStop
  \/ DirectPoll
  \/ DirectReturns
  \/ EngineStep
  \/ NotifyNobody
  \/ NotifyBegin
  \/ \E n \in Node : Callback(n)
  \/ CallbackReturns
  \/ CallbackThrows
  \/ NotifyEnd

ServiceSpec == ServiceInit /\ [][ServiceNext]_allVars

-----------------------------------------------------------------------------
(* Properties *)

(* is_running() is the engine's status: with a backend of its own, start() *)
(* never reports success for an engine whose backend is down, even when    *)
(* the callback stops and starts the service inside a poll.                *)
BackendInStep == backend_running <=> status = "Running"

(* While no call is in progress, known_peer_count_ is at least the number  *)
(* of available peers (so no peer is reported merely because the count     *)
(* lags) and at most the number of registered ones.  A callback that       *)
(* meddles, or a use of the engine behind the service, spoils this until   *)
(* the next undisturbed call from outside sets the count, and no longer    *)
(* (start, stop, notify_new_peers).                                        *)
KnownBounds ==
  svc = "app" /\ ~ Nested /\ ~ meddled =>
    /\ Cardinality(AvailablePeers(peers)) =< known
    /\ known =< Cardinality(DOMAIN peers)

(* A notification makes no more callbacks than there are peers that were   *)
(* not available when the count was last set, whatever the callbacks of    *)
(* this and the enclosing polls did.                                       *)
CallbacksBounded ==
  \A i \in DOMAIN frames :
    LET f == frames[i]
    IN  Cardinality(f.pending \cup f.found) =< Cardinality(f.batch \ f.before)

(* The service only does to the engine what the engine's specification     *)
(* allows: every guarantee of the engine carries over.                     *)
ImplementsEngine == Spec

(* "Notifies the callback for newly observed peers": with a handler set,   *)
(* and nobody meddling, a poll that calls nobody back finds nobody who was *)
(* not there before.                                                       *)
NewPeersReported ==
  [][svc = "polling" /\ svc' = "app" /\ handler /\ ~ meddled => seen' \subseteq seen]_allVars
=============================================================================
