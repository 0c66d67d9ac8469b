---------------------------- MODULE DiscoveryNetwork ----------------------------
(***************************************************************************)
(* Several engines (engine/DiscoveryEngine.hpp) that hear one another      *)
(* through their UDP sockets and the network between them.                 *)
(*                                                                         *)
(* DiscoveryEngine shows what one engine does whatever it is sent.  Here   *)
(* every datagram was sent by an engine and waits in a socket's queue      *)
(* until that engine's owner polls, so that what the engines reach         *)
(* together can be asked: whether they find each other, whether a node     *)
(* that is there is ever given up, how long a node that died is offered,   *)
(* what becomes of an announcement that was overtaken.                     *)
(*                                                                         *)
(* Time has no beginning here: instants are kept relative to Now, and each *)
(* tick makes them all one older.  Older than peer_ttl is all alike, so    *)
(* the registry's own operators work on these instants.                    *)
(*                                                                         *)
(* Left to DiscoveryEngine: sends that fail, signals, the transport.       *)
(***************************************************************************)
EXTENDS PeerRegistry, SequencesExt, FiniteSets

CONSTANTS
  AnnounceInterval,   \* announce_interval of every node, in ticks
  PeerTtl,            \* peer_ttl of every node, in ticks
  Lives,              \* bound on the processes each node runs as, one after another
  MaxBatch,           \* bound on the argument of poll_many
  MaxIdle,            \* ticks an owner may let pass between two calls
  ProbeGap,           \* ticks an owner leaves between two calls of probe_now
  MaxInbox,           \* datagrams a socket's queue holds
  Config,             \* the DiscoveryConfig of each node
  Machine,            \* the machine each node runs on
  May                 \* what may happen to each node besides polling: see MayHappen

MayHappen == {"stop", "crash", "probe", "lose", "delay"}

ASSUME NetworkAssumption ==
  /\ AnnounceInterval \in Nat \ {0}
  /\ PeerTtl \in Nat \ {0}
  /\ AnnounceInterval =< PeerTtl
  /\ Addr \subseteq Nat
  /\ Lives \in [Node -> Nat \ {0}]
  /\ \A n \in Node : 1..Lives[n] \subseteq Addr
  /\ MaxBatch \in Nat \ {0}
  /\ MaxIdle \in Nat
  /\ ProbeGap \in Nat
  /\ MaxInbox \in Nat \ {0}
  /\ DOMAIN Config = Node
  /\ DOMAIN Machine = Node
  /\ May \in [Node -> SUBSET MayHappen]

VARIABLES
  order,      \* the running nodes, in the order in which they bound their sockets
  life,       \* life[n]: which process of n this is; each announces an endpoint of its own
  peers,      \* peers[n]: registry_ of n
  announced,  \* announced[n]: last_announce_at_ of n
  call,       \* call[n]: where n's owner is, as pc and todo in DiscoveryEngine;
              \*   left: ticks until the pending receive times out;
              \*   idle: ticks since the last call returned
  quiet,      \* quiet[n]: ticks until n's owner may probe again
  inbox,      \* inbox[n]: the queue of n's socket
  net,        \* datagrams under way, each with the node it is for
  asked       \* history: asked[n]: who was listening when n last probed, and still is

engineVars == <<peers, announced, call>>
vars == <<order, life, engineVars, quiet, inbox, net, asked>>

Now == PeerTtl + 1

(* Faulty: a peer is stale once one of its announcements is missing. *)
StaleAfter_Interval == AnnounceInterval

StaleAfter == PeerTtl \div 2

Running == Range(order)

Calling == [pc : {"idle", "loop", "recv"}, todo : 0..MaxBatch,
            left : 0..AnnounceInterval, idle : 0..MaxIdle]

NoCall == [pc |-> "idle", todo |-> 0, left |-> 0, idle |-> 0]

TypeOK ==
  /\ order \in Seq(Node)
  /\ IsInjective(order)
  /\ life \in [Node -> Addr]
  /\ DOMAIN peers = Node
  /\ \A n \in Node : IsRegistry(peers[n])
  /\ announced \in [Node -> 0..Now]
  /\ call \in [Node -> Calling]
  /\ quiet \in [Node -> 0..ProbeGap]
  /\ inbox \in [Node -> Seq(Message)]
  /\ \A n \in Node : Len(inbox[n]) =< MaxInbox
  /\ net \subseteq [to : Node, msg : Message]
  /\ asked \in [Node -> SUBSET Node]

Init ==
  /\ order = <<>>
  /\ life = [n \in Node |-> 1]
  /\ peers = [n \in Node |-> NoPeers]
  /\ announced = [n \in Node |-> NoTime]
  /\ call = [n \in Node |-> NoCall]
  /\ quiet = [n \in Node |-> 0]
  /\ inbox = [n \in Node |-> <<>>]
  /\ net = {}
  /\ asked = [n \in Node |-> {}]

-----------------------------------------------------------------------------
(* What an engine sends, and who receives it *)

LocalAnnouncement(n) == [node_id |-> n, addr |-> life[n]]

AnnounceMessage(n) ==
  [type |-> "Announce", from |-> n, ann |-> LocalAnnouncement(n), has_source |-> TRUE]

ReplyMessage(n) ==
  [type |-> "Reply", from |-> n, ann |-> LocalAnnouncement(n), has_source |-> TRUE]

ProbeMessage(n) ==
  [type |-> "Probe", from |-> n, ann |-> [node_id |-> NoNode, addr |-> NoAddr],
   has_source |-> TRUE]

Listening(n, port) == n \in Running /\ Config[n].bind_port = port

(* Sockets that share a port through SO_REUSEADDR: Linux hands a unicast   *)
(* datagram to the one that was bound last.                                *)
LastBound(machine, port) ==
  LET here == {i \in DOMAIN order : Machine[order[i]] = machine /\ Listening(order[i], port)}
  IN  {order[i] : i \in {j \in here : \A k \in here : k =< j}}

(* A datagram to the broadcast address reaches every socket on the port    *)
(* that is bound to any address, the sender's own included.                *)
Receivers(n, host, port) ==
  CASE host = "broadcast" -> {m \in Node : Listening(m, port) /\ Config[m].bind_host = "any"}
    [] host = "loopback"  -> LastBound(Machine[n], port)
    [] OTHER              -> {}

CanBroadcast(n) ==
  Config[n].broadcast_host = "broadcast" => Config[n].enable_broadcast

(* A socket that is closed or full takes nothing. *)
Enqueued(n, msg) ==
  IF n \in Running /\ Len(inbox[n]) < MaxInbox
  THEN [inbox EXCEPT ![n] = Append(@, msg)]
  ELSE inbox

(* The sender's own copy is in its queue when send returns; what is for    *)
(* others is under way.                                                    *)
Sent(n, msg, receivers) ==
  /\ net' = net \cup {[to |-> m, msg |-> msg] : m \in receivers \ {n}}
  /\ inbox' = IF n \in receivers THEN Enqueued(n, msg) ELSE inbox

Broadcast(n, msg) ==
  Sent(n, msg, Receivers(n, Config[n].broadcast_host, Config[n].broadcast_port))

(* A reply goes to the source of the probe, which is where the prober's    *)
(* socket is bound.                                                        *)
ReplyReceivers(prober) == LastBound(Machine[prober], Config[prober].bind_port)

-----------------------------------------------------------------------------
(* start, stop, probe_now; a process that dies *)

Start(n) ==
  /\ n \notin Running
  /\ order' = Append(order, n)
  /\ announced' = [announced EXCEPT ![n] = NoTime]
  /\ call' = [call EXCEPT ![n] = NoCall]
  /\ UNCHANGED <<life, peers, quiet, inbox, net, asked>>

(* The socket is closed, and what waited in it is gone. *)
Leave(n) ==
  /\ \E i \in DOMAIN order : order[i] = n /\ order' = RemoveAt(order, i)
  /\ peers' = [peers EXCEPT ![n] = NoPeers]
  /\ announced' = [announced EXCEPT ![n] = NoTime]
  /\ call' = [call EXCEPT ![n] = NoCall]
  /\ quiet' = [quiet EXCEPT ![n] = 0]
  /\ inbox' = [inbox EXCEPT ![n] = <<>>]
  /\ asked' = [m \in Node |-> IF m = n THEN {} ELSE asked[m] \ {n}]

Stop(n) ==
  /\ "stop" \in May[n]
  /\ call[n].pc = "idle"
  /\ Leave(n)
  /\ UNCHANGED <<life, net>>

(* The next process of the node announces another endpoint. *)
Crash(n) ==
  /\ "crash" \in May[n]
  /\ life[n] < Lives[n]
  /\ Leave(n)
  /\ life' = [life EXCEPT ![n] = @ + 1]
  /\ UNCHANGED net

(* The engine probes whenever it is told to; how often that is, is its     *)
(* owner's affair.                                                         *)
ProbeNow(n) ==
  /\ "probe" \in May[n]
  /\ n \in Running
  /\ call[n].pc = "idle"
  /\ CanBroadcast(n)
  /\ quiet[n] = 0
  /\ Broadcast(n, ProbeMessage(n))
  /\ asked' = [asked EXCEPT ![n] =
                  Receivers(n, Config[n].broadcast_host, Config[n].broadcast_port) \ {n}]
  /\ quiet' = [quiet EXCEPT ![n] = ProbeGap]
  /\ UNCHANGED <<order, life, engineVars>>

-----------------------------------------------------------------------------
(* poll_many and poll_once *)

PollMany(n, k) ==
  /\ n \in Running
  /\ call[n].pc = "idle"
  /\ call' = [call EXCEPT ![n] = [NoCall EXCEPT !.pc = "loop", !.todo = k]]
  /\ UNCHANGED <<order, life, peers, announced, quiet, inbox, net, asked>>

PollEnd(n) ==
  /\ call[n].pc = "loop"
  /\ call[n].todo = 0
  /\ call' = [call EXCEPT ![n] = NoCall]
  /\ UNCHANGED <<order, life, peers, announced, quiet, inbox, net, asked>>

AnnounceDue(n) ==
  ~ IsValidTime(announced[n]) \/ Now - announced[n] >= AnnounceInterval

(* Faulty: the instant of the announcement is not kept. *)
MaybeAnnounce_Unstamped(n) ==
  IF AnnounceDue(n) /\ CanBroadcast(n)
  THEN Broadcast(n, AnnounceMessage(n)) /\ UNCHANGED announced
  ELSE UNCHANGED <<net, inbox, announced>>

MaybeAnnounce(n) ==
  IF AnnounceDue(n) /\ CanBroadcast(n)
  THEN /\ Broadcast(n, AnnounceMessage(n))
       /\ announced' = [announced EXCEPT ![n] = Now]
  ELSE UNCHANGED <<net, inbox, announced>>

RefreshPeerStates(n) ==
  peers' = [peers EXCEPT ![n] = RefreshStates(@, Now, StaleAfter, PeerTtl)]

(* Faulty: the peers are not refreshed. *)
PollBegin_NoRefresh(n) ==
  /\ call[n].pc = "loop"
  /\ call[n].todo > 0
  /\ MaybeAnnounce(n)
  /\ call' = [call EXCEPT ![n].pc = "recv", ![n].left = AnnounceInterval]
  /\ UNCHANGED <<order, life, peers, quiet, asked>>

(* Faulty: one poll too many, when the batch is done already. *)
PollBegin_OnceMore(n) ==
  /\ call[n].pc = "loop"
  /\ MaybeAnnounce(n)
  /\ RefreshPeerStates(n)
  /\ call' = [call EXCEPT ![n].pc = "recv", ![n].left = AnnounceInterval]
  /\ UNCHANGED <<order, life, quiet, asked>>

PollBegin(n) ==
  /\ call[n].pc = "loop"
  /\ call[n].todo > 0
  /\ MaybeAnnounce(n)
  /\ RefreshPeerStates(n)
  /\ call' = [call EXCEPT ![n].pc = "recv", ![n].left = AnnounceInterval]
  /\ UNCHANGED <<order, life, quiet, asked>>

(* The receive ends; the loop goes on only if poll_once returned true. *)
Polled(n, processed) ==
  call' = [call EXCEPT ![n] = IF processed
                              THEN [NoCall EXCEPT !.pc = "loop", !.todo = call[n].todo - 1]
                              ELSE NoCall]

RecvTimeout(n) ==
  /\ call[n].pc = "recv"
  /\ call[n].left = 0
  /\ inbox[n] = <<>>
  /\ Polled(n, FALSE)
  /\ UNCHANGED <<order, life, peers, announced, quiet, inbox, net, asked>>

Accepts(n, a) == IsValidAnnouncement(a) /\ a.node_id # n

HandleAnnouncement(n, m) ==
  /\ m.type \in {"Announce", "Reply"}
  /\ Accepts(n, m.ann)
  /\ peers' = [peers EXCEPT ![n] = UpsertAnnouncement(@, m.ann, Now)]
  /\ inbox' = [inbox EXCEPT ![n] = Tail(@)]
  /\ Polled(n, TRUE)
  /\ UNCHANGED net

(* Faulty: strangers get no answer. *)
HandleProbe_KnownOnly(n, m) ==
  /\ m.type = "Probe"
  /\ LET to == {r \in ReplyReceivers(m.from) : m.from \in DOMAIN peers[n]}
     IN  /\ net' = net \cup {[to |-> r, msg |-> ReplyMessage(n)] : r \in to \ {n}}
         /\ inbox' = [inbox EXCEPT ![n] =
                         IF n \in to THEN Append(Tail(@), ReplyMessage(n)) ELSE Tail(@)]
  /\ Polled(n, TRUE)
  /\ UNCHANGED peers

(* The reply may come back to n itself, whose socket may be the last bound. *)
HandleProbe(n, m) ==
  /\ m.type = "Probe"
  /\ LET to == ReplyReceivers(m.from)
     IN  /\ net' = net \cup {[to |-> r, msg |-> ReplyMessage(n)] : r \in to \ {n}}
         /\ inbox' = [inbox EXCEPT ![n] =
                         IF n \in to THEN Append(Tail(@), ReplyMessage(n)) ELSE Tail(@)]
  /\ Polled(n, TRUE)
  /\ UNCHANGED peers

(* An echo of the engine's own broadcast ends the batch. *)
HandleEcho(n) ==
  /\ inbox' = [inbox EXCEPT ![n] = Tail(@)]
  /\ Polled(n, FALSE)
  /\ UNCHANGED <<peers, net>>

(* The engines send nothing that a handler would reject. *)
Recv(n) ==
  /\ call[n].pc = "recv"
  /\ inbox[n] # <<>>
  /\ LET m == Head(inbox[n])
     IN  IF m.from = n
         THEN HandleEcho(n)
         ELSE HandleAnnouncement(n, m) \/ HandleProbe(n, m)
  /\ UNCHANGED <<order, life, announced, quiet, asked>>

-----------------------------------------------------------------------------
(* The network and the clock *)

Deliver(p) ==
  /\ inbox' = Enqueued(p.to, p.msg)
  /\ net' = net \ {p}
  /\ UNCHANGED <<order, life, engineVars, quiet, asked>>

Lose(p) ==
  /\ "lose" \in May[p.to]
  /\ net' = net \ {p}
  /\ UNCHANGED <<order, life, engineVars, quiet, inbox, asked>>

Older(t) == IF t > 1 THEN t - 1 ELSE t

(* Time passes while every owner waits: in a receive that nothing ends yet, *)
(* or between two calls.  A datagram that is not delayed takes no time.    *)
MayTick ==
  /\ \A p \in net : "delay" \in May[p.to]
  /\ \A n \in Running :
       \/ call[n].pc = "idle" /\ call[n].idle < MaxIdle
       \/ call[n].pc = "recv" /\ call[n].left > 0 /\ inbox[n] = <<>>

Tick ==
  /\ MayTick
  /\ peers' = [n \in Node |->
                 [m \in DOMAIN peers[n] |-> Touch(peers[n][m], Older(peers[n][m].last_seen))]]
  /\ announced' = [n \in Node |-> Older(announced[n])]
  /\ call' = [n \in Node |->
                IF n \notin Running THEN call[n]
                ELSE IF call[n].pc = "recv" THEN [call[n] EXCEPT !.left = @ - 1]
                ELSE [call[n] EXCEPT !.idle = @ + 1]]
  /\ quiet' = [n \in Node |-> IF quiet[n] > 0 THEN quiet[n] - 1 ELSE 0]
  /\ UNCHANGED <<order, life, inbox, net, asked>>

-----------------------------------------------------------------------------
Poll(n) ==
  \/ \E k \in 1..MaxBatch : PollMany(n, k)
  \/ PollBegin(n)
  \/ PollEnd(n)
  \/ Recv(n)
  \/ RecvTimeout(n)

Next ==
  \/ \E n \in Node : Start(n) \/ Stop(n) \/ Crash(n) \/ ProbeNow(n) \/ Poll(n)
  \/ \E p \in net : Deliver(p) \/ Lose(p)
  \/ Tick

Spec == Init /\ [][Next]_vars

(* A datagram from one node to another that finds room in the socket. *)
GetsThrough(from, to) ==
  \E p \in net : /\ p.msg.from = from /\ p.to = to
                 /\ Len(inbox[to]) < MaxInbox
                 /\ Deliver(p)

(***************************************************************************)
(* Owners keep calling poll, time passes, the operating system honours the *)
(* timeout, and the network does not lose everything one node sends to     *)
(* another.  Nobody is obliged to start, stop or probe.                    *)
(***************************************************************************)
FairSpec ==
  /\ Spec
  /\ WF_vars(Tick)
  /\ \A n \in Node : WF_vars(Poll(n))
  /\ \A to \in Node : \A from \in Node \ {to} : SF_vars(GetsThrough(from, to))

-----------------------------------------------------------------------------
(* Properties *)

(* What is under way to n or waits for it in its socket's queue. *)
Waiting(n) == {p.msg : p \in {q \in net : q.to = n}} \cup Range(inbox[n])

Knows(n, m) ==
  m \in AvailablePeers(peers[n]) /\ peers[n][m].ann.addr = life[m]

(* On a network that works, with owners who poll in time, a node that is   *)
(* there is never given up: between two announcements of it, each delayed  *)
(* by a poll's wait and by what waits before it in the queue, the stale    *)
(* window of no other node passes (maybe_announce, refresh_peer_states).   *)
NobodyGivenUp ==
  \A n \in Running : \A m \in DOMAIN peers[n] \cap Running : peers[n][m].state = "Alive"

(* On such a network no socket fills, although a poll takes one datagram,  *)
(* and the echo of a node's own broadcast ends a batch (poll_many).        *)
QueuesDrain == \A n \in Node : Len(inbox[n]) < MaxInbox

(* Where n's question to m is, or m's answer: under way or in a queue. *)
AnswerDue(n, m) ==
  \/ ProbeMessage(n) \in Waiting(m)
  \/ \E msg \in Waiting(n) : msg.type = "Reply" /\ msg.from = m

(* A probe is answered by everyone who heard it, whoever else probes:      *)
(* the prober has each of them in its registry as soon as nothing of their *)
(* exchange waits any more, without waiting for the next announcement      *)
(* (handle_probe, handle_reply).                                           *)
ProbeFinds ==
  \A n \in Running : \A m \in asked[n] : m \in DOMAIN peers[n] \/ AnswerDue(n, m)

(* Two nodes that stay up find each other, at the endpoint of the process  *)
(* that runs, and find each other again whenever something late or lost    *)
(* made them forget it: an announcement's timestamp is never compared, so  *)
(* an old one may win, but not for good (update).                          *)
Finds(n, m) ==
  LET both == {n, m} \subseteq Running
  IN  both ~> (~ both \/ Knows(n, m))

(* A node that is gone is not offered for ever, whatever of it is still    *)
(* under way (refresh_states, stop).                                       *)
Forgets(n, m) ==
  m \notin Running ~> (m \in Running \/ m \notin AvailablePeers(peers[n]))
=============================================================================
