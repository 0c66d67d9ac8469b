# softadastra/discovery in TLA+

This directory models the discovery library: how a node announces itself over
UDP, learns about other nodes, decides that they are stale or expired, tells a
transport engine about them, and reports them to an application. The modules
are checked with TLC on small instances, and the safety properties are proved
with TLAPS for every instance.

Paths below are relative to the repository; `discovery/` stands for
`include/softadastra/discovery/`.

## The system

| Component | State | Operations | Interacts with |
|---|---|---|---|
| `types`, `core` | none (values: announcement, message, envelope) | validity checks, factories | used by all |
| `peer/DiscoveredPeer`, `peer/DiscoveryRegistry` | a map from node id to last announcement, state, instant last seen | `upsert`, `upsert_announcement`, `erase`, `set_state`, `mark_*`, `touch`, `refresh_states`, `prune_expired`, `clear`, queries | called by the engine, or by an application that keeps its own |
| `engine/DiscoveryEngine` | status, registry, instant of the last announcement | `start`, `stop`, `announce_now`, `probe_now`, `poll_once`, `poll_many`; handlers for announce, probe and reply | drives a backend through `client` and `server`; asks the transport engine to connect |
| `DiscoveryService` | options, a backend and an engine of its own, a callback, a count of known peers | `start`, `stop`, `poll`, `poll_many`, `onPeerFound` | calls the engine; calls the application back |
| `backend/UdpDiscoveryBackend`, `platform/*/UdpSocket` | running flag, socket, timeouts | `start`, `stop`, `send`, `poll` | the operating system |
| `DiscoveryOptions`, `core/DiscoveryConfig`, `core/DiscoveryContext` | public fields; pointers to config and transport | presets, validity tests, conversion | service, backend, engine, sockets |
| `client`, `server` | none | forward to the backend | engine, backend |
| `encoding`, `utils/Datagram`, the engine's payload functions | none | write and read messages and announcements | backend, engine |

There is no thread and no lock in the library. Everything happens inside calls
of the application, on the application's thread. What makes it hard is

* **time**: verdicts on peers compare instants with windows, announcements are
  due at intervals, and the only place that waits is the receive in
  `poll_once`, whose timeout is the announcement interval and which starts
  again after a signal;
* **the network**: datagrams are lost, duplicated, delayed, reordered, echoed
  to their sender, and carry claims (`from_node_id`, the announced node id)
  that need not agree;
* **sequences of calls**: starting twice, stopping something that failed,
  refreshing twice, a backend stopped behind the engine, engines that are moved
  and share a backend, a callback that stops, starts or polls the service it was
  called from;
* **several nodes**: each announces and refreshes on its own, while datagrams
  wait in sockets that take one at a time, and a node may be replaced by its
  next process;
* **derived data**: the service decides whom to report by a count of a list
  with no fixed order.

What makes each component correct: registry entries are valid and filed under
their own id, and a refresh ages and does nothing else; a message crosses the wire
whole or not at all, and no socket is left behind; the engine never holds
itself, what it says of a peer is true of the peer's silence, it announces
often enough, forgets everything when it stops and leaves no backend running
that nobody would stop; nodes that are there find each other, are not given up,
and are not offered for ever when they are gone; the service reports exactly
the new peers, reports nobody too often, and keeps the engine's guarantees;
every part reads the configuration alike.

## Modules

| Module | Models |
|---|---|
| `DiscoveryTypes` | enumerations, instants, announcements and messages, with their validity |
| `PeerRegistry` | the methods of `DiscoveredPeer` and `DiscoveryRegistry` as operators on values |
| `DiscoveryRegistry` | one registry, a caller that uses its whole interface, a clock |
| `DiscoveryEngine` | one engine with its backend, the network, the transport, a clock |
| `PeerPresence` | what an engine promises an application: who may be known and offered; implemented by `DiscoveryEngine` |
| `DiscoveryService` | the service around an engine (extends `DiscoveryEngine`) with callbacks that call it back; implements `DiscoveryEngine` |
| `EngineLifecycle` | engine objects on one backend: constructed, moved, shared, destroyed |
| `DiscoveryNetwork` | several engines that hear only one another, through queues and a network that may lose and delay; stops and crashes |
| `DiscoveryConfiguration` | options, configs, presets, the validity test of each, and the timeouts both platforms make of a duration |
| `DiscoveryCodec` | the wire format: writers and readers of messages and announcements as pure operators |
| `MessageChannel` | what a backend promises the engine: a channel of whole messages that loses, repeats and reorders |
| `UdpBackend` | the UDP backend and its socket on either platform, with the network between encoder and decoder; implements `MessageChannel` |
| `MC*` | instances for TLC; `MCDiscoveryConfiguration` also has the application that sets options, `MCDiscoveryNetwork` the presets its nodes use |
| `*_proofs` | lemmas and theorems |

`DiscoveryService`, `DiscoveryEngine`, `DiscoveryRegistry` and
`DiscoveryNetwork` all use the operators of `PeerRegistry`: there is one
registry, whichever module is checked.

Definitions marked *Faulty* are variants of the definition after them, with a
mistake somebody could make in that piece of code. They take no part in the
specifications; putting one in the place of the original shows that a property
notices the mistake.

### State and actions against the code

*Data.* A node id is a member of `Node`; the empty string is `NoNode`. Host and
port of an announcement are one endpoint; `NoAddr` stands for an announcement
that is invalid for another reason than its node id, or a payload that does not
decode. The timestamp in an announcement is only checked for validity by the
code, so it is part of that. Time is a natural number, 0 is the invalid
timestamp, and the clock never goes back. `error_count` is left out: nothing
reads it, and `mark_error` is otherwise a `touch`. A registry is a function
whose domain is the set of ids it holds, so the order of the `unordered_map` is
never assumed.

*Registry.* Each method is an operator of `PeerRegistry` and an action of
`DiscoveryRegistry`. Queries, and calls that return before changing anything,
are stuttering steps. The history variable `call` remembers the last call, so
that what a refresh leaves can be stated as an invariant.

*Engine.* `pc` is where the owner's call is. `PollMany` enters the loop;
`PollBegin` is one `poll_once` up to the receive (announce if due, then refresh,
as one step, because nothing waits in between); `RecvMessage`, `RecvNothing`
and `RecvTimeout` are what the receive may end with, followed by the whole
handler; `Interrupt` is a signal, after which the receive has its whole timeout
again; `PollEnd` leaves the loop. `RecvMessage` may take *any* message at any
receive: this includes all lost, repeated, late and reordered ones, replies to
probes never sent, and echoes. Handlers are modelled with every call they make:
both self filters, `upsert_announcement`, and the transport hand-over with its
early returns and its ignored result. While the owner is outside a call it may
start or stop the engine, and the backend may be started or stopped behind it
(`BackendToggle`; the engine holds only a reference). The transport starts,
stops and drops peers at any time. `Starting` and `Stopping` are set and
overwritten within one call, so no state shows them. Sends take no time.

*Service.* The callback is user code that runs inside `poll()`, so a call of the
service does not end before other calls begin. `frames` is the stack of the
loops of `notify_new_peers` that are under way, each with the list it copied
(`batch`), the part of it that is still to be reported (`pending`) and what was
reported (`found`); `svc` says whether the application acts (outside, or in the
callback of the last frame), the engine polls, or a loop goes on. `NotifyBegin`
reads the list and picks the part of it from index `known_peer_count_` on, which
can be any subset of that size, the order of an `unordered_map` being what it
is; `Callback` enters the callback, in which every action of the application is
possible again (`ServiceStart`, `ServiceStop`, `OnPeerFound`, `ServicePoll`);
`CallbackReturns` and `CallbackThrows` leave it; `NotifyEnd` writes the count of
the copied list. `DirectStop`, `DirectPoll` and the start and the announcement
in `EngineStep` are calls of the engine that bypass the service through
`engine()`. A callback that replaces its handler does so while the old one
runs; the loop goes on with the new one, and throws if there is none. The
history variable `seen` holds the peers that were available when the count was
last set, and `meddled` whether, since the last call from outside that set the
count, a callback started, stopped or polled, or threw, or the engine was
stopped or polled directly. The transport keeps the state it has initially.

*Lifecycle.* An engine is its status and whether it knows anybody. The move
constructor is defaulted: it copies the status and the reference and leaves the
status of the engine it moves from. It is declared in a class that derives from
`NonCopyable`, which is in another repository and is taken to permit it.

*Network.* Each node has an engine (`peers`, `announced`, `call`) and a socket
with a queue (`inbox`); `order` lists the running nodes in the order in which
they bound their sockets. `Sent` gives a broadcast to every socket on the port,
the sender's own at once and the others through `net`; unicast to a port that
several sockets of a machine share goes to the one bound last, which is what
Linux does under `SO_REUSEADDR`. `Recv` takes the head of the queue and runs the
whole handler: an echo of the node's own broadcast ends the batch. `Crash`
empties a node without a word, and its next process announces another endpoint
(`life`). Instants are kept relative to the present, capped at the time to live:
`Tick` makes all of them one older. `May` says what may happen to each node
besides polling. `ProbeNow` asks for nothing but an engine that runs, as
`probe_now()` does, so any number of nodes may be probing at once; how soon an
owner calls it again is the owner's affair, like how soon it polls, and two
constants say how the owners of an instance behave: they idle at most `MaxIdle`
between calls, and leave `ProbeGap` between two probes of their own (`quiet`
counts it down). With a `ProbeGap` of 0 an owner probes whenever it likes, which
is all the code says. A batch of *k* polls that goes on is the same to the
others as *k* batches of one whose owner calls again at once, so the instances
have batches of one; the theorems hold for any. `net` is a set: equal datagrams
under way to one node at once would count as one, which under the hypotheses of
the theorems on timing never happens (`OneEach`). Errors of send, signals and the transport are left to
`DiscoveryEngine`. That an announcement may be received twice is covered there
too (any message at any receive), and `UpsertAnnouncementIdempotent` says what
comes of it.

*Configuration.* Options and configs are records; hosts are the addresses the
presets use. `ValidOptions` and `ValidConfig` are written out each from its own
test, since that the two agree is what is checked. `MCDiscoveryConfiguration` is an application that takes a preset
and sets its public fields. `MakeTimeval` and `MakeTimeoutMs` are the
conversions of the two sockets, the second with the width of a `DWORD`.

*Wire format.* A buffer is a sequence of cells. A byte of a string is a cell,
and so is each integer, whatever its width: the `Serializer` reads an integer
whole or fails, so a buffer that ends inside one is treated as one that ends
before it. A length is written modulo `LenMod` (2^32 in the code). The
`Serializer` itself is in another repository and is modelled as its callers use
it.

*Backend.* The calls have one owner and do not interleave, so each is one step;
what the operating system answers (no descriptor, an option refused, the
address in use) is a choice. `sockets` holds the descriptors that are open in
the process, whether or not the backend still knows them, so that a leak is a
state. The three ways in which a start fails after that (no socket, one that
cannot be configured or bound; `discovery/backend/UdpDiscoveryBackend.hpp:100-115`)
are one action, `StartFails`, since each closes what it opened. `platform` is the
socket the program was built with; the two differ in
what a receive does with a datagram longer than `max_datagram_size`:
`LinuxReceived` cuts it, `WindowsReceived` reports an error, which the caller
gets as nothing. Both are read by the same decoder. The network holds encodings
sent by nodes (this one included: a broadcast comes back) and whatever other
programs send to the port. `MessageChannel` is the interface
`IDiscoveryBackend` as the engine relies on it; `RecvMessage` of
`DiscoveryEngine`, which takes any message, allows more than it does. A
datagram from another program is worth what the receive buffer shows of it: one
that is a message followed by more cells is accepted if the buffer happens to
end where the message does.

## Runs

Deadlock is checked in every run but `codec`, where a buffer stops growing at
`MaxLen`.

| Run | Shows | Bounds |
|---|---|---|
| `codec` | `MessagesCanonical`, `AnnouncementsCanonical`, `CutsRejected`, `RoundTrip` of every buffer | cells 0 to 2, up to 9 of them, lengths below 4 |
| `backend` | `SocketInStep`, `WholeOrNothing`, `FittingAccepted`, `ImplementsChannel` | both platforms, 2 descriptors, 6 messages of 6 to 16 cells, 5 foreign datagrams, 2 in flight, buffer 7, packet 8, lengths below 9 |
| `registry` | `EntriesValid`, `RefreshSettles`, `RefreshOnlyAges`, `RevivalIsFresh` under every sequence of calls | 2 nodes, 2 endpoints, clock to 3, windows (1,2) and, swapped by a careless caller, (2,1) |
| `engine` | `NoSelf`, `StoppedForgets`, `VerdictsAreEarned`, `AvailableIsRecent`, `AnnounceFresh`, `NewsNeedsMessage`, `ImplementsPresence`, and `PollReturns` under `FairSpec` | itself and 1 node, 2 endpoints, interval 2, time to live 5, clock to 10, batches of 2, 1 signal per receive |
| `configuration` | `VerdictsAgree`, `PresetsAgree`, `WaitsEnd` | all hosts the presets use and none, ports 0 and 9401, durations around 0, a second and a `DWORD` of 4096 values |
| `lifecycle` | `NoOrphanBackend`, `PeersNeedRun` | 3 engine objects |
| `network` | `NobodyGivenUp`, `QueuesDrain`, `ProbeFinds` | 2 nodes of the lan preset, both probing, also at once, with 11 between two probes of one owner; interval 6, time to live 36, batches of 1, owners idle up to 1 between calls, queues of 6 |
| `network_live` | `Discovers`, `GhostsFade` under `FairSpec` | 2 nodes, one that stops and starts, one that crashes and comes back elsewhere, on a network that loses and delays; interval 1, time to live 2, batches of 1, queues of 2 |
| `service` | `BackendInStep`, `KnownBounds`, `CallbacksBounded`, `ImplementsEngine` | itself and 2 nodes, 1 endpoint, interval 1, time to live 2, clock to 3, batches of 2, polls nested 2 deep, no transport |
| `refresh_comment`, `notify_comment`, `local_preset` | what the code does instead of what a comment or the guide says (below) | those of `registry`, those of `service`, and 2 nodes of the local preset |

Each module's type invariant is checked with the rest.

Why the bounds are enough.

* Peers do not interact in the registry or the engine, so one or two of them
  with two endpoints show every combination. The service compares counts, and
  two peers are the smallest number in which one can hide another.
* The clocks of `registry`, `engine` and the networks are long enough for a peer
  to be heard, become stale, expire, be refreshed again and come back, and that
  of `engine` for a batch of two polls in which every receive is interrupted
  once. In `service` the clock stops at 3, where a peer gets to be Stale but not
  Expired: the service looks at availability only, which both end, and what
  follows Stale is in `engine`. `MaxTime` bounds the clock in the
  guard of `Tick`, and `PollMany` starts only when the clock has room for all
  the waits of the batch, so that no wait is cut short by the bound.
  `MaxSignals` bounds the signals within one receive, and the properties that
  depend on signals count them.
* In `codec`, nine cells are the shortest message and three more: contents in
  each field and every way of being too short or too long. In `backend`,
  messages lie on both sides of the receive buffer and of the packet, and one
  has a length that does not fit its field.
* In `service`, two nested polls are the first depth at which a loop continues
  on a list that another loop has replaced. `TransportDown` keeps the transport
  from running there: the hand-over to it is in `engine`, and the service
  never looks at it.
* In `network`, interval, gap between probes and queues are the smallest for
  which the hypotheses of the theorems on any number of nodes hold of two nodes
  whose owners idle; "How much slack the timing has" says how close the run is to
  failing.

*Fairness.* In `engine`: the owner's thread goes on with a call it has begun
(`PollBegin`, `PollEnd`), the clock advances (`Tick`), and a receive whose
timeout has passed returns (`RecvTimeout`), which is what `SO_RCVTIMEO` gives.
Nothing obliges a datagram or a signal to arrive, or the owner to poll. Finitely
many signals per receive is an assumption the code needs: on Linux a signal
that keeps coming more often than the interval keeps `poll_once` from returning.
In `network_live`: the clock advances, each owner polls again and again (which
the library asks of its user), and between two nodes announcements that keep
being sent are not lost or left waiting for ever (`GetsThrough`, strong
fairness: the network may fail any number of times).

### How much slack the timing has

These were tried with other values of the constants of `network` and
`network_live`; no run is kept for them.

* What owners must keep to is the hypotheses of the theorems on
  `DiscoveryNetwork`. For *N* nodes whose owners let at most *I* pass between
  two calls, a queue holds at most 3*N* - 1 datagrams (an announcement and a
  question of each node, the echoes of its own among them, and an answer of each
  other node), so that one waits at most *W* = (3*N* - 1)*I*. *W* must be less
  than the announcement interval, 2*W* less than the gap between two probes of
  one owner, and a queue must have room for 3*N*. A node is silent for less than
  two intervals and *I*; with *W* that must be less than the stale window. The
  presets announce every 3 s and expire after 15 s, so that a peer is stale after
  7.5 s, and the condition on *I* is 3*NI* <= 1.5 s: owners of ten nodes may let
  50 ms pass, owners of two nodes 250 ms, and either way 3 s between two probes
  are enough.
* The room is sharp: in `network`, queues of five fill. The gap is enough and not
  necessary: with queues of six, owners who leave 5 between two probes never fill
  one, owners who leave 4 do. Without a gap no queue is long enough, and
  `ProbeFinds` fails, since an answer finds the queue full. A time to live of 36
  is the smallest that the hypothesis on the stale window allows; 28 is still
  enough, and 26 is not.
* With the ratio of the presets (an interval of 4 and a time to live of 20, a
  unit is 0.75 s) `NobodyGivenUp` holds for owners who only poll and idle up to
  one unit between calls, and fails at two units. It also fails at one unit if
  they probe: the echo of a node's own probe ends its receive, so that more time
  passes before its next announcement.
* Two nodes that do not probe never have more than two datagrams waiting. Three
  nodes without probes or idling never fill a queue of four.
* A queue of one starves: a node's own echoes take the place.

### Where code and documentation differ

Three are runs that expect a violation:

* `refresh_states` makes an `Expired` peer `Stale` again at the next refresh
  and `Expired` at the one after (`discovery/peer/DiscoveryRegistry.hpp:426`),
  although "Peers older than expire_after become Expired." A peer that left for
  good is therefore in `transport_peers()` at every other poll, and
  `prune_expired` keeps it or removes it by parity (`OldPeersExpire`).
* The callback "for newly observed peers" is not called for a new peer if
  another one became stale in the same poll (`NewPeersReported`). This happens
  without any meddling from the callback or behind the service.
* Nodes of the `local` preset share 127.0.0.1 and a port, and announce to it as
  unicast: only the node that was bound last hears anybody, although the guide
  recommends the preset for several nodes on one machine (`Discovers`).

Smaller ones were met in writing the modules, and are what the definitions say
rather than properties: the guide says that "`DiscoveryContext::is_valid()`
expects the transport engine to be running" (`docs/guide.md:680`), but the test
is that there is one and that the config is valid
(`discovery/core/DiscoveryContext.hpp:83`), so an engine starts without a running
transport, and peers learned then are handed to nobody until they announce again
(`IntegrateWithTransport`); `transport_peers()` and `available_transport_peers()`
(`discovery/engine/DiscoveryEngine.hpp:345-356`) include stale peers, so a peer
that is gone is in both at every other refresh, for as long as the engine runs:
`AvailableIsRecent` and `GhostsFade` are about the available peers only; the callback may report a peer that was
there already, when the list happens to show the newcomer first; the `lan`
preset announces the loopback address; `start()` of a running engine answers
`true` when its backend was stopped through another engine.

## Proofs

All theorems hold for every value of the constants that satisfies the
assumptions of the modules: `IdAssumption` (the empty id is not a node),
`RegistryAssumption` (windows are pairs of naturals), `LenAssumption`,
`NoneAssumption`, `BufferAssumption` (a cell that is read as a length has the width of one),
`BackendAssumption` (a packet is shorter than 2^32 bytes,
`max_datagram_size` is positive), `EngineAssumption` (interval and time to live
are positive, which `DiscoveryConfig::is_valid` demands before an engine runs),
`NetworkAssumption` (the same of the nodes of a network, whose announcement
interval is not longer than the time to live, and whose bounds are positive),
`ConfigurationAssumption`, `UseAssumption` (an application sets ports and
durations of the right type) and `ServiceAssumption` (finitely many nodes; the
bounds on batches and on nesting are positive).

* `PeerRegistry_proofs` says what each operator returns: `Put`, `Erase`,
  `MarkAs`, `UpsertAnnouncement`, `RefreshPeer`, `RefreshStates`, and that all
  of them keep entries typed, valid and filed under their own key.
  `UpsertAnnouncementIdempotent` is the tolerance of duplicates.
* `DiscoveryRegistry_proofs`: `TypeOK /\ EntriesValid` is inductive, one step
  per action. `RefreshSettles` and `RefreshOnlyAges` then follow from
  `RefreshPeerFacts`, because only a refresh, or time passing after one, leaves
  `call.op = "refresh"`. `RevivalAlwaysFresh` goes through the actions again: of
  those that make a peer available, each but an `upsert` of the caller's own
  entry writes the present instant, and a prune removes only what is `Expired`.
* `DiscoveryCodec_proofs`: `FieldShape`, `FieldWritten` and `FieldCut` say what
  a reader makes of one field, of any buffer, where a writer wrote, and of a
  buffer cut short. Applied to the fields in turn they give the theorems:
  what is accepted is canonical and what is written is read back, for messages
  and for announcements, and no beginning of a message is a message. They ask
  that lengths fit (`LengthsFit`: the buffer is shorter than 2^32, or no cell of
  it is wider than a length), which every buffer of the `codec` run does; so its
  four properties hold whatever the bounds on cells and buffers.
* `UdpBackend_proofs`: `SocketInStep` is inductive by itself. The guarantees
  about messages rest on `WireInv`: whatever carries a node's message carries
  its encoding and is shorter than 2^32 cells, because `sendto` refuses more
  than a packet; `HonestRead` then gets what a poll returns, on either platform,
  from the theorems on the wire format. The refinement of `MessageChannel`
  follows step by step.
* `DiscoveryService_proofs`, first the engine: the inductive invariant `IInv`
  joins the type invariant, `NoSelf`, `StoppedForgets` and `VerdictsAreEarned`
  with two strengthenings. `Clocked` says that the last refresh is not in the future and
  that every peer was seen at a valid instant; without it, the next refresh
  could un-earn a verdict, or skip a peer. `Waiting` says what the start of a
  receive left (available peers younger than the stale window, an announcement
  younger than the interval, or one that failed and is still due) and that the deadline is at most one interval per
  attempt after the refresh; `AvailableIsRecent` and `AnnounceFresh` are not
  inductive, and follow from it. `PresenceImplemented` is the refinement of
  `PeerPresence`; `NewsAlwaysNeedsMessage` an action property.
  Then the service, where `EngineImplemented` comes first. Every step of the
  service is a step of the engine or leaves the engine alone, so the engine's
  `IInv` holds in the service without another proof, and with it that the
  registry is a function on a subset of a finite `Node`. `SInv` adds the
  service's own part: `Remembered` (types, and that the count is at least what
  was available when it was set), `Stacked` (each loop on the stack has reported
  no more than it is entitled to) and `Undisturbed` (until somebody meddles
  there is one loop, and it works on the present registry).
  `KnownAlwaysBounded` and `CallbacksAlwaysBounded` are read off it, with
  cardinalities from the library.
* `DiscoveryNetwork_proofs`: `TypedInv` is inductive by itself, and so are
  `HonestMail` (what waits anywhere was made by an engine) and `RealInv` (what
  was announced was there), from which `OnlyRealPeersKnown` follows on any
  network. `ProbeAlwaysFinds` follows from `Answered`: whoever was asked still
  has the question before it, or its answer is on the way, or is in the registry.
  The theorems on timing go round in a circle. A queue is short because no two
  messages of one type and one sender wait in it (`OneEach`), and no node's answer
  waits beside the question it answers (`OneExchange`). A node has no announcement
  waiting when its next one is due because the last one was read in time, and
  neither question nor answers when it probes again because the question was
  read within one wait and each answer within another, which the gap exceeds
  (`Ages`, `ReadInTime`). And they were read in time because the queue is short.
  `QueueInv` is the conjunction that is inductive; `QueuesAlwaysDrain` is read off
  it, with cardinalities for the number of messages (`DistinctLen`). On top of it,
  `EachAnnounces` bounds the silence of
  a node, `SpokenBefore` says that whoever is listed has announced, and
  `AllHeard` that a listed peer was heard or has an announcement waiting that
  will be read before the stale window is over: `NobodyEverGivenUp`. The
  hypotheses are about constants only: owners who poll in time, leave a gap
  between two probes of their own and neither stop nor die, on a network that
  loses nothing (`OwnersInTime`), a socket of its own for each node
  (`OwnSockets`), broadcasts that reach everybody (`EveryoneHears`), and a stale
  window that is long enough (`PatientPeers`). The instance of `network`
  satisfies all of them. Nothing else limits who probes when.
* `EngineLifecycle_proofs`: the type invariant and the two properties are
  inductive together, because an engine that stops takes the backend down
  whatever the others think.
* `DiscoveryConfiguration_proofs`: `ConversionKeepsVerdict` compares the two
  validity tests field by field, and the two `...AlwaysExact` lemmas are the
  arithmetic of the timeouts, for every duration and every width of a `DWORD`.
  `PresetsAgree` follows from what each preset converts to.

Only model-checked: liveness (`PollReturns`, `Discovers`, `GhostsFade`), which
is out of the prover's reach. How long a node that dies is still offered to the
others of a network is `AvailableIsRecent` of the engine; that it is given up in
the end is liveness. Every other property of a passing run is a theorem.

## Not modelled

* What an application writes through the pointer `find()` returns, and whether
  that pointer still points to anything.
* Clocks that go back. `Timestamp::now()` is a wall clock; a peer last seen "in
  the future" has a negative age, and no refresh touches it until the clock has
  caught up.
* The `Serializer`, `NonCopyable` and the transport engine, which are other
  repositories; they are modelled as their callers use them.
* A bound on the registry. The engine refreshes and never prunes, so one entry
  per id ever heard stays until `stop()`. The models bound the ids, the code does
  not, and a callback that polls without condition recurses as long as it is
  reported peers; the models bound that by `MaxDepth`.
* The checked accessors of the context, which repeat parts of its validity test.
* Moving a socket, and the counter of attempts on an envelope: nothing in the
  library does the one or reads the other. `error_count` likewise.
* Winsock's own initialization, left to the application by the header.
* Names and wording of enumerators, results and log lines; the build, the
  examples, and the test files, which are empty.

What could still be added is larger, not other: `network` with three nodes that
probe, and `network_live` with losses on top of restarts of both nodes, are out
of reach of an exhaustive run of a few minutes.
