------------------------ MODULE DiscoveryNetwork_proofs ------------------------
(***************************************************************************)
(* What engines that hear one another reach together, for every number of  *)
(* nodes and every value of the times.                                     *)
(*                                                                         *)
(* TypeCorrect and OnlyRealPeersKnown hold on networks that lose and delay *)
(* whatever they carry, with nodes that stop and die; ProbeAlwaysFinds on  *)
(* those that lose nothing.  The others need owners who poll in time and   *)
(* do not probe again at once: the hypotheses (OwnersInTime, OwnSockets,   *)
(* EveryoneHears, PatientPeers) say how often, and SteadyNetwork.cfg is an *)
(* instance of them.                                                       *)
(*                                                                         *)
(* The argument goes round in a circle, which is why it is one invariant:  *)
(* a queue is short because no node has two messages of one type waiting   *)
(* in it; it has none because its last announcement was read before the    *)
(* next was due, and its last probe read, and answered, and the answers    *)
(* read before it probes again; and they were read in time because the     *)
(* queue is short.                                                         *)
(***************************************************************************)
EXTENDS DiscoveryNetwork, PeerRegistry_proofs, FiniteSetTheorems, SequenceTheorems

-----------------------------------------------------------------------------
(* What the operators return *)

LEMMA NetworkConstants ==
  /\ AnnounceInterval \in Nat \ {0}
  /\ PeerTtl \in Nat \ {0}
  /\ MaxBatch \in Nat \ {0}
  /\ MaxIdle \in Nat
  /\ ProbeGap \in Nat
  /\ MaxInbox \in Nat \ {0}
  /\ Now \in Nat /\ IsValidTime(Now)
  /\ StaleAfter \in Nat /\ StaleAfter =< PeerTtl
BY NetworkAssumption DEF Now, IsValidTime, NoTime, StaleAfter

LEMMA NoCallFacts == NoCall \in Calling
BY NetworkConstants DEF NoCall, Calling

(* One queue gets one message more. *)
LEMMA AppendFacts ==
  ASSUME NEW s \in Seq(Message), NEW msg \in Message
  PROVE  /\ Append(s, msg) \in Seq(Message)
         /\ Len(Append(s, msg)) = Len(s) + 1
         /\ Range(Append(s, msg)) = Range(s) \cup {msg}
<1> DEFINE new == Append(s, msg)
<1>1. /\ new \in Seq(Message)
      /\ Len(new) = Len(s) + 1
      /\ \A i \in 1..Len(s) : new[i] = s[i]
      /\ new[Len(s) + 1] = msg
  BY AppendProperties
<1>2. Len(s) \in Nat /\ DOMAIN s = 1..Len(s) /\ DOMAIN new = 1..Len(new)
  BY <1>1, LenProperties
<1> HIDE DEF new
<1>3. Range(new) \subseteq Range(s) \cup {msg}
  BY <1>1, <1>2 DEF Range
<1>4. Range(s) \cup {msg} \subseteq Range(new)
  BY <1>1, <1>2 DEF Range
<1> QED
  BY <1>1, <1>3, <1>4 DEF new

(* The first message leaves a queue. *)
LEMMA TailFacts ==
  ASSUME NEW s \in Seq(Message), s # <<>>
  PROVE  /\ Head(s) \in Message /\ Head(s) = s[1]
         /\ Tail(s) \in Seq(Message)
         /\ Len(Tail(s)) = Len(s) - 1
         /\ \A i \in 1..Len(Tail(s)) : Tail(s)[i] = s[i + 1]
         /\ Range(s) = Range(Tail(s)) \cup {Head(s)}
<1> DEFINE t == Tail(s)
           h == Head(s)
<1>1. /\ h \in Message /\ t \in Seq(Message)
      /\ Len(t) = Len(s) - 1
      /\ \A i \in 1..Len(t) : t[i] = s[i + 1]
  BY HeadTailProperties
<1>2. h = s[1]
  OBVIOUS
<1>3. Len(s) \in Nat \ {0} /\ DOMAIN s = 1..Len(s) /\ DOMAIN t = 1..Len(t)
  BY <1>1, LenProperties, EmptySeq
<1> HIDE DEF t, h
<1>4. Range(s) \subseteq Range(t) \cup {h}
  <2> SUFFICES ASSUME NEW i \in 1..Len(s) PROVE s[i] \in Range(t) \cup {h}
    BY <1>3 DEF Range
  <2>1. CASE i = 1
    BY <2>1, <1>2
  <2>2. CASE i # 1
    <3>1. i - 1 \in 1..Len(t) /\ t[i - 1] = s[i]
      BY <2>2, <1>1, <1>3
    <3> QED
      BY <3>1, <1>3 DEF Range
  <2> QED
    BY <2>1, <2>2
<1>5. Range(t) \cup {h} \subseteq Range(s)
  BY <1>1, <1>2, <1>3 DEF Range
<1> QED
  BY <1>1, <1>2, <1>4, <1>5 DEF t, h

(* Binding a socket, and closing one: the order stays free of repetitions. *)
LEMMA OrderAppend ==
  ASSUME NEW s \in Seq(Node), IsInjective(s), NEW n \in Node, n \notin Range(s)
  PROVE  /\ Append(s, n) \in Seq(Node)
         /\ IsInjective(Append(s, n))
         /\ Range(Append(s, n)) = Range(s) \cup {n}
<1> DEFINE t == Append(s, n)
<1>1. /\ t \in Seq(Node)
      /\ Len(t) = Len(s) + 1
      /\ \A i \in 1..Len(s) : t[i] = s[i]
      /\ t[Len(s) + 1] = n
  BY AppendProperties
<1>2. Len(s) \in Nat /\ DOMAIN s = 1..Len(s) /\ DOMAIN t = 1..Len(t)
  BY <1>1, LenProperties
<1> HIDE DEF t
<1>3. \A i \in 1..Len(s) : s[i] # n
  BY <1>2 DEF Range
<1>4. IsInjective(t)
  BY <1>1, <1>2, <1>3 DEF IsInjective
<1>5. Range(t) = Range(s) \cup {n}
  BY <1>1, <1>2 DEF Range
<1> QED
  BY <1>1, <1>4, <1>5 DEF t

LEMMA OrderRemove ==
  ASSUME NEW s \in Seq(Node), IsInjective(s), NEW k \in DOMAIN s
  PROVE  /\ RemoveAt(s, k) \in Seq(Node)
         /\ IsInjective(RemoveAt(s, k))
         /\ Range(RemoveAt(s, k)) = Range(s) \ {s[k]}
<1> DEFINE left == SubSeq(s, 1, k - 1)
           right == SubSeq(s, k + 1, Len(s))
           t == left \o right
<1>1. Len(s) \in Nat /\ DOMAIN s = 1..Len(s) /\ k \in 1..Len(s) /\ \A i \in 1..Len(s) : s[i] \in Node
  BY LenProperties, ElementOfSeq
<1>2. /\ left \in Seq(Node) /\ Len(left) = k - 1
      /\ \A i \in 1..(k - 1) : left[i] = s[i]
  <2>1. \A i \in 1..(k - 1) : s[i] \in Node
    BY <1>1
  <2>2. /\ left \in Seq(Node)
        /\ Len(left) = IF 1 =< k - 1 THEN (k - 1) - 1 + 1 ELSE 0
        /\ \A i \in 1..((k - 1) - 1 + 1) : left[i] = s[1 + i - 1]
    BY <1>1, <2>1, SubSeqProperties
  <2> HIDE DEF left
  <2> QED
    BY <1>1, <2>2
<1>3. /\ right \in Seq(Node) /\ Len(right) = Len(s) - k
      /\ \A i \in 1..(Len(s) - k) : right[i] = s[k + i]
  <2>1. \A i \in (k + 1)..Len(s) : s[i] \in Node
    BY <1>1
  <2>2. /\ right \in Seq(Node)
        /\ Len(right) = IF k + 1 =< Len(s) THEN Len(s) - (k + 1) + 1 ELSE 0
        /\ \A i \in 1..(Len(s) - (k + 1) + 1) : right[i] = s[(k + 1) + i - 1]
    BY <1>1, <2>1, SubSeqProperties
  <2> HIDE DEF right
  <2>3. Len(right) = Len(s) - k
    BY <1>1, <2>2
  <2>4. ASSUME NEW i \in 1..(Len(s) - k) PROVE right[i] = s[k + i]
    <3>1. i \in 1..(Len(s) - (k + 1) + 1) /\ (k + 1) + i - 1 = k + i
      BY <1>1
    <3> QED
      BY <3>1, <2>2
  <2> QED
    BY <2>2, <2>3, <2>4
<1> HIDE DEF left, right
<1>4. /\ t \in Seq(Node) /\ Len(t) = Len(s) - 1
      /\ \A i \in 1..(Len(s) - 1) : t[i] = IF i < k THEN s[i] ELSE s[i + 1]
  <2>1. /\ t \in Seq(Node) /\ Len(t) = Len(left) + Len(right)
        /\ \A i \in 1..(Len(left) + Len(right)) :
             t[i] = IF i =< Len(left) THEN left[i] ELSE right[i - Len(left)]
    BY <1>2, <1>3, ConcatProperties
  <2> HIDE DEF t
  <2>2. Len(t) = Len(s) - 1
    BY <1>1, <1>2, <1>3, <2>1
  <2>3. ASSUME NEW i \in 1..(k - 1) PROVE t[i] = s[i]
    BY <1>1, <1>2, <1>3, <2>1
  <2>4. ASSUME NEW i \in k..(Len(s) - 1) PROVE t[i] = s[i + 1]
    <3>1. t[i] = right[i - (k - 1)] /\ i - (k - 1) \in 1..(Len(s) - k)
      BY <1>1, <1>2, <1>3, <2>1
    <3>2. right[i - (k - 1)] = s[k + (i - (k - 1))] /\ k + (i - (k - 1)) = i + 1
      BY <3>1, <1>1, <1>3
    <3> QED
      BY <3>1, <3>2
  <2>5. ASSUME NEW i \in 1..(Len(s) - 1) PROVE t[i] = IF i < k THEN s[i] ELSE s[i + 1]
    <3>1. i \in 1..(k - 1) \/ i \in k..(Len(s) - 1)
      BY <1>1
    <3>2. i < k <=> i \in 1..(k - 1)
      BY <1>1
    <3> QED
      BY <3>1, <3>2, <2>3, <2>4
  <2> QED
    BY <2>1, <2>2, <2>5
<1>5. DOMAIN t = 1..(Len(s) - 1)
  BY <1>4, LenProperties
<1>6. RemoveAt(s, k) = t
  BY DEF RemoveAt, left, right
<1> HIDE DEF t
<1>7. IsInjective(t)
  <2> SUFFICES ASSUME NEW i \in 1..(Len(s) - 1), NEW j \in 1..(Len(s) - 1), t[i] = t[j] PROVE i = j
    BY <1>5 DEF IsInjective
  <2> DEFINE at(l) == IF l < k THEN l ELSE l + 1
  <2>1. at(i) \in DOMAIN s /\ at(j) \in DOMAIN s /\ s[at(i)] = s[at(j)]
    BY <1>1, <1>4
  <2>2. at(i) = at(j)
    BY <2>1 DEF IsInjective
  <2> QED
    BY <2>2, <1>1
<1>8. Range(t) \subseteq Range(s) \ {s[k]}
  <2> SUFFICES ASSUME NEW i \in 1..(Len(s) - 1) PROVE t[i] \in Range(s) \ {s[k]}
    BY <1>5 DEF Range
  <2>1. PICK j \in 1..Len(s) : j # k /\ t[i] = s[j]
    <3>1. CASE i < k
      BY <3>1, <1>1, <1>4
    <3>2. CASE ~ (i < k)
      BY <3>2, <1>1, <1>4
    <3> QED
      BY <3>1, <3>2
  <2> QED
    BY <2>1, <1>1 DEF IsInjective, Range
<1>9. Range(s) \ {s[k]} \subseteq Range(t)
  <2> SUFFICES ASSUME NEW i \in 1..Len(s), i # k PROVE s[i] \in Range(t)
    BY <1>1 DEF Range
  <2>1. CASE i < k
    BY <2>1, <1>1, <1>4, <1>5 DEF Range
  <2>2. CASE i > k
    <3>1. i - 1 \in 1..(Len(s) - 1) /\ t[i - 1] = s[i]
      BY <2>2, <1>1, <1>4
    <3> QED
      BY <3>1, <1>5 DEF Range
  <2> QED
    BY <2>1, <2>2, <1>1
<1> QED
  BY <1>4, <1>6, <1>7, <1>8, <1>9

-----------------------------------------------------------------------------
(* The type invariant *)

(* The parts of TypeOK that are proved apart: the order of the sockets, the *)
(* registries, the owners' calls, and the mail (every socket's queue, and   *)
(* the datagrams under way).  Beside the types, a receive is part of a      *)
(* batch that is not at its end.                                            *)
OrderOK(seq) == seq \in Seq(Node) /\ IsInjective(seq)

PeersOK(regs) == DOMAIN regs = Node /\ \A n \in Node : IsRegistry(regs[n])

CallsOK(c) ==
  /\ c \in [Node -> Calling]
  /\ \A n \in Node : c[n].pc = "recv" => c[n].todo > 0

MailOK(queues, way) ==
  /\ queues \in [Node -> Seq(Message)]
  /\ \A n \in Node : Len(queues[n]) =< MaxInbox
  /\ way \subseteq [to : Node, msg : Message]

TypedInv ==
  /\ OrderOK(order)
  /\ life \in [Node -> Addr]
  /\ PeersOK(peers)
  /\ announced \in [Node -> 0..Now]
  /\ CallsOK(call)
  /\ quiet \in [Node -> 0..ProbeGap]
  /\ MailOK(inbox, net)
  /\ asked \in [Node -> SUBSET Node]

LEMMA TypedIsTypeOK == TypedInv => TypeOK
BY DEF TypedInv, TypeOK, OrderOK, PeersOK, CallsOK, MailOK

LEMMA RunningNodes == ASSUME TypeOK PROVE Running \subseteq Node
BY RangeOfSeq DEF TypeOK, Running

LEMMA MessagesTyped ==
  ASSUME TypeOK, NEW n \in Node
  PROVE  /\ AnnounceMessage(n) \in Message
         /\ ReplyMessage(n) \in Message
         /\ ProbeMessage(n) \in Message
BY DEF TypeOK, AnnounceMessage, ReplyMessage, ProbeMessage, LocalAnnouncement, Message, MessageType,
       Announcement

LEMMA LastBoundFacts ==
  ASSUME TypeOK, NEW machine, NEW port
  PROVE  /\ LastBound(machine, port) \subseteq Running
         /\ \A a, b \in LastBound(machine, port) : a = b
<1>1. Len(order) \in Nat /\ DOMAIN order = 1..Len(order)
  BY LenProperties DEF TypeOK
<1> QED
  BY <1>1 DEF LastBound, Running, Range

LEMMA ReceiversRun ==
  ASSUME TypeOK, NEW n, NEW host, NEW port
  PROVE  Receivers(n, host, port) \subseteq Running
<1>1. CASE host = "broadcast"
  BY <1>1 DEF Receivers, Listening
<1>2. CASE host = "loopback"
  BY <1>2, LastBoundFacts DEF Receivers
<1>3. CASE host # "broadcast" /\ host # "loopback"
  BY <1>3 DEF Receivers
<1> QED
  BY <1>1, <1>2, <1>3

LEMMA EnqueuedFacts ==
  ASSUME TypeOK, NEW n \in Node, NEW msg \in Message
  PROVE  /\ MailOK(Enqueued(n, msg), net)
         /\ \A k \in Node \ {n} : Enqueued(n, msg)[k] = inbox[k]
         /\ \/ Enqueued(n, msg)[n] = inbox[n] /\ (n \in Running => Len(inbox[n]) >= MaxInbox)
            \/ /\ n \in Running
               /\ Len(inbox[n]) < MaxInbox
               /\ Enqueued(n, msg)[n] = Append(inbox[n], msg)
<1>1. /\ inbox \in [Node -> Seq(Message)]
      /\ \A k \in Node : Len(inbox[k]) =< MaxInbox
      /\ net \subseteq [to : Node, msg : Message]
  BY DEF TypeOK
<1>2. Len(inbox[n]) \in Nat /\ MaxInbox \in Nat
  BY <1>1, LenProperties, NetworkConstants
<1>3. CASE n \in Running /\ Len(inbox[n]) < MaxInbox
  <2> DEFINE s == Append(inbox[n], msg)
  <2>1. s \in Seq(Message) /\ Len(s) =< MaxInbox
    BY <1>1, <1>2, <1>3, AppendFacts
  <2>2. Enqueued(n, msg) = [inbox EXCEPT ![n] = s]
    BY <1>3 DEF Enqueued
  <2> HIDE DEF s
  <2>3. MailOK(Enqueued(n, msg), net)
    BY <1>1, <2>1, <2>2 DEF MailOK
  <2> QED
    BY <1>1, <1>3, <2>2, <2>3 DEF s
<1>4. CASE ~ (n \in Running /\ Len(inbox[n]) < MaxInbox)
  BY <1>1, <1>2, <1>4 DEF Enqueued, MailOK
<1> QED
  BY <1>3, <1>4

LEMMA SentFacts ==
  ASSUME TypeOK, NEW n \in Node, NEW msg \in Message, NEW receivers \in SUBSET Running,
         Sent(n, msg, receivers)
  PROVE  /\ MailOK(inbox', net')
         /\ net' = net \cup {[to |-> m, msg |-> msg] : m \in receivers \ {n}}
         /\ \A k \in Node \ {n} : inbox'[k] = inbox[k]
         /\ \/ inbox'[n] = inbox[n] /\ (n \in receivers => Len(inbox[n]) >= MaxInbox)
            \/ n \in receivers /\ inbox'[n] = Append(inbox[n], msg)
<1>1. net' = net \cup {[to |-> m, msg |-> msg] : m \in receivers \ {n}}
  BY DEF Sent
<1>2. Running \subseteq Node
  BY RunningNodes
<1>3. net' \subseteq [to : Node, msg : Message]
  BY <1>1, <1>2 DEF TypeOK
<1>4. CASE n \in receivers
  <2>1. inbox' = Enqueued(n, msg) /\ n \in Running
    BY <1>4 DEF Sent
  <2> QED
    BY <1>1, <1>3, <1>4, <2>1, EnqueuedFacts DEF MailOK
<1>5. CASE n \notin receivers
  <2>1. inbox' = inbox
    BY <1>5 DEF Sent
  <2> QED
    BY <1>1, <1>3, <1>5, <2>1 DEF MailOK, TypeOK
<1> QED
  BY <1>4, <1>5

LEMMA BroadcastFacts ==
  ASSUME TypeOK, NEW n \in Node, NEW msg \in Message, Broadcast(n, msg)
  PROVE  LET receivers == Receivers(n, Config[n].broadcast_host, Config[n].broadcast_port)
         IN  /\ MailOK(inbox', net')
             /\ net' = net \cup {[to |-> m, msg |-> msg] : m \in receivers \ {n}}
             /\ \A k \in Node \ {n} : inbox'[k] = inbox[k]
             /\ \/ inbox'[n] = inbox[n] /\ (n \in receivers => Len(inbox[n]) >= MaxInbox)
                \/ n \in receivers /\ inbox'[n] = Append(inbox[n], msg)
<1> DEFINE receivers == Receivers(n, Config[n].broadcast_host, Config[n].broadcast_port)
<1>1. receivers \in SUBSET Running
  BY ReceiversRun
<1>2. Sent(n, msg, receivers)
  BY DEF Broadcast
<1> HIDE DEF receivers
<1> QED
  BY <1>1, <1>2, SentFacts DEF receivers

(* What the end of a receive takes from the queue, and what it sends. *)
LEMMA HandleProbeFacts ==
  ASSUME TypeOK, NEW n \in Node, inbox[n] # <<>>, NEW msg, HandleProbe(n, msg)
  PROVE  LET to == ReplyReceivers(msg.from)
         IN  /\ MailOK(inbox', net')
             /\ net' = net \cup {[to |-> r, msg |-> ReplyMessage(n)] : r \in to \ {n}}
             /\ \A k \in Node \ {n} : inbox'[k] = inbox[k]
             /\ inbox'[n] = IF n \in to THEN Append(Tail(inbox[n]), ReplyMessage(n))
                                        ELSE Tail(inbox[n])
<1> DEFINE to == ReplyReceivers(msg.from)
           s == IF n \in to THEN Append(Tail(inbox[n]), ReplyMessage(n)) ELSE Tail(inbox[n])
<1>1. /\ inbox \in [Node -> Seq(Message)]
      /\ \A k \in Node : Len(inbox[k]) =< MaxInbox
      /\ net \subseteq [to : Node, msg : Message]
  BY DEF TypeOK
<1>2. to \subseteq Node
  BY LastBoundFacts, RunningNodes DEF ReplyReceivers
<1>3. ReplyMessage(n) \in Message
  BY MessagesTyped
<1>4. /\ net' = net \cup {[to |-> r, msg |-> ReplyMessage(n)] : r \in to \ {n}}
      /\ inbox' = [inbox EXCEPT ![n] = s]
  BY DEF HandleProbe
<1>5. s \in Seq(Message) /\ Len(s) =< MaxInbox
  <2>1. Tail(inbox[n]) \in Seq(Message) /\ Len(Tail(inbox[n])) = Len(inbox[n]) - 1
    BY <1>1, TailFacts
  <2>2. Len(inbox[n]) \in Nat /\ MaxInbox \in Nat
    BY <1>1, LenProperties, NetworkConstants
  <2> QED
    BY <1>1, <1>3, <2>1, <2>2, AppendFacts
<1>6. s = IF n \in to THEN Append(Tail(inbox[n]), ReplyMessage(n)) ELSE Tail(inbox[n])
  OBVIOUS
<1> HIDE DEF to, s
<1>7. MailOK(inbox', net')
  <2>1. inbox' \in [Node -> Seq(Message)] /\ \A k \in Node : Len(inbox'[k]) =< MaxInbox
    BY <1>1, <1>4, <1>5
  <2>2. net' \subseteq [to : Node, msg : Message]
    BY <1>1, <1>2, <1>3, <1>4
  <2> QED
    BY <2>1, <2>2 DEF MailOK
<1> QED
  BY <1>1, <1>4, <1>6, <1>7 DEF to

(* The first message leaves the queue of n, and nothing is sent. *)
LEMMA TakenFacts ==
  ASSUME TypeOK, NEW n \in Node, inbox[n] # <<>>,
         inbox' = [inbox EXCEPT ![n] = Tail(@)], net' = net
  PROVE  /\ MailOK(inbox', net')
         /\ \A k \in Node \ {n} : inbox'[k] = inbox[k]
         /\ inbox'[n] = Tail(inbox[n])
<1>1. /\ inbox \in [Node -> Seq(Message)]
      /\ \A k \in Node : Len(inbox[k]) =< MaxInbox
      /\ net \subseteq [to : Node, msg : Message]
  BY DEF TypeOK
<1>2. Tail(inbox[n]) \in Seq(Message) /\ Len(Tail(inbox[n])) = Len(inbox[n]) - 1
  BY <1>1, TailFacts
<1>3. Len(inbox[n]) \in Nat /\ MaxInbox \in Nat
  BY <1>1, LenProperties, NetworkConstants
<1> QED
  BY <1>1, <1>2, <1>3 DEF MailOK

(* One owner goes from one place of a call to another. *)
LEMMA CallFacts ==
  ASSUME CallsOK(call), NEW n \in Node, NEW c \in Calling, c.pc = "recv" => c.todo > 0,
         call' = [call EXCEPT ![n] = c]
  PROVE  CallsOK(call') /\ call'[n] = c /\ \A k \in Node \ {n} : call'[k] = call[k]
BY DEF CallsOK

LEMMA LoopCall ==
  ASSUME NEW k
  PROVE  [NoCall EXCEPT !.pc = "loop", !.todo = k]
           = [pc |-> "loop", todo |-> k, left |-> 0, idle |-> 0]
<1> DEFINE c == [NoCall EXCEPT !.pc = "loop"]
           d == [c EXCEPT !.todo = k]
<1>1. c = [pc |-> "loop", todo |-> 0, left |-> 0, idle |-> 0]
  BY DEF NoCall
<1>2. [NoCall EXCEPT !.pc = "loop", !.todo = k] = d
  BY Zenon
<1> HIDE DEF c
<1>3. d = [pc |-> "loop", todo |-> k, left |-> 0, idle |-> 0]
  BY <1>1
<1> QED
  BY <1>2, <1>3

LEMMA PolledFacts ==
  ASSUME CallsOK(call), NEW n \in Node, call[n].pc = "recv", NEW processed \in BOOLEAN,
         Polled(n, processed)
  PROVE  /\ CallsOK(call')
         /\ \A k \in Node \ {n} : call'[k] = call[k]
         /\ processed => call'[n] = [pc |-> "loop", todo |-> call[n].todo - 1, left |-> 0, idle |-> 0]
         /\ ~ processed => call'[n] = NoCall
<1> DEFINE c == [NoCall EXCEPT !.pc = "loop", !.todo = call[n].todo - 1]
           d == [pc |-> "loop", todo |-> call[n].todo - 1, left |-> 0, idle |-> 0]
<1>1. c = d
  BY LoopCall
<1>2. call[n].todo \in 0..MaxBatch /\ call[n].todo > 0
  BY DEF CallsOK, Calling
<1>3. d \in Calling /\ d.pc # "recv"
  BY <1>2, NetworkConstants DEF Calling
<1>4. NoCall \in Calling /\ NoCall.pc # "recv"
  BY NoCallFacts DEF NoCall
<1>5. call' = [call EXCEPT ![n] = IF processed THEN c ELSE NoCall]
  BY DEF Polled
<1> HIDE DEF c, d
<1>6. CASE processed
  <2>1. call' = [call EXCEPT ![n] = d]
    BY <1>1, <1>5, <1>6
  <2> QED
    BY <1>3, <1>6, <2>1, CallFacts DEF d
<1>7. CASE ~ processed
  <2>1. call' = [call EXCEPT ![n] = NoCall]
    BY <1>5, <1>7
  <2> QED
    BY <1>4, <1>7, <2>1, CallFacts
<1> QED
  BY <1>6, <1>7

-----------------------------------------------------------------------------
(* Every action keeps the types. *)

LEMMA InitTyped == Init => TypedInv
<1> SUFFICES ASSUME Init PROVE TypedInv
  OBVIOUS
<1>1. OrderOK(order)
  BY EmptySeq DEF Init, OrderOK, IsInjective
<1>2. life \in [Node -> Addr]
  <2>1. ASSUME NEW n \in Node PROVE 1 \in Addr
    <3>1. 1 \in 1..Lives[n] /\ 1..Lives[n] \subseteq Addr
      BY NetworkAssumption
    <3> QED
      BY <3>1
  <2> QED
    BY <2>1 DEF Init
<1>3. PeersOK(peers)
  BY NoPeersFacts DEF Init, PeersOK
<1>4. announced \in [Node -> 0..Now]
  BY NetworkConstants DEF Init, NoTime
<1>5. CallsOK(call)
  BY NoCallFacts DEF Init, CallsOK, NoCall
<1>6. quiet \in [Node -> 0..ProbeGap]
  BY NetworkConstants DEF Init
<1>7. MailOK(inbox, net)
  BY NetworkConstants, EmptySeq DEF Init, MailOK
<1> QED
  BY <1>1, <1>2, <1>3, <1>4, <1>5, <1>6, <1>7 DEF Init, TypedInv

LEMMA StartTyped == ASSUME TypedInv, NEW n \in Node, Start(n) PROVE TypedInv'
<1>1. OrderOK(order)'
  BY OrderAppend DEF TypedInv, OrderOK, Start, Running
<1>2. announced' \in [Node -> 0..Now]
  BY NetworkConstants DEF TypedInv, Start, NoTime
<1>3. CallsOK(call)'
  BY NoCallFacts, CallFacts DEF TypedInv, Start, NoCall
<1> QED
  BY <1>1, <1>2, <1>3 DEF TypedInv, Start

(* What n forgets when it leaves, and what stays. *)
LEMMA LeaveFacts ==
  ASSUME TypedInv, NEW n \in Node, Leave(n)
  PROVE  /\ n \in Running
         /\ OrderOK(order') /\ Running' = Running \ {n}
         /\ PeersOK(peers') /\ DOMAIN peers'[n] = {}
         /\ \A k \in Node \ {n} : peers'[k] = peers[k]
         /\ announced' \in [Node -> 0..Now]
         /\ CallsOK(call')
         /\ \A k \in Node \ {n} : call'[k] = call[k]
         /\ inbox' \in [Node -> Seq(Message)]
         /\ \A k \in Node : Len(inbox'[k]) =< MaxInbox
         /\ inbox'[n] = <<>>
         /\ \A k \in Node \ {n} : inbox'[k] = inbox[k]
         /\ quiet' \in [Node -> 0..ProbeGap]
         /\ asked' \in [Node -> SUBSET Node]
         /\ asked'[n] = {}
         /\ \A k \in Node \ {n} : asked'[k] = asked[k] \ {n}
<1>1. n \in Running /\ OrderOK(order') /\ Running' = Running \ {n}
  <2>1. PICK i \in DOMAIN order : order[i] = n /\ order' = RemoveAt(order, i)
    BY DEF Leave
  <2>2. /\ RemoveAt(order, i) \in Seq(Node)
        /\ IsInjective(RemoveAt(order, i))
        /\ Range(RemoveAt(order, i)) = Range(order) \ {order[i]}
    BY OrderRemove DEF TypedInv, OrderOK
  <2> QED
    BY <2>1, <2>2 DEF OrderOK, Running, Range
<1>2. /\ PeersOK(peers') /\ DOMAIN peers'[n] = {}
      /\ \A k \in Node \ {n} : peers'[k] = peers[k]
  BY NoPeersFacts DEF TypedInv, PeersOK, Leave
<1>3. announced' \in [Node -> 0..Now]
  BY NetworkConstants DEF TypedInv, Leave, NoTime
<1>4. CallsOK(call') /\ \A k \in Node \ {n} : call'[k] = call[k]
  BY NoCallFacts, CallFacts DEF TypedInv, Leave, NoCall
<1>5. /\ inbox' \in [Node -> Seq(Message)]
      /\ \A k \in Node : Len(inbox'[k]) =< MaxInbox
      /\ inbox'[n] = <<>>
      /\ \A k \in Node \ {n} : inbox'[k] = inbox[k]
  BY EmptySeq, NetworkConstants DEF TypedInv, MailOK, Leave
<1>6. /\ asked' \in [Node -> SUBSET Node]
      /\ asked'[n] = {}
      /\ \A k \in Node \ {n} : asked'[k] = asked[k] \ {n}
  BY DEF TypedInv, Leave
<1>7. quiet' \in [Node -> 0..ProbeGap]
  BY NetworkConstants DEF TypedInv, Leave
<1> QED
  BY <1>1, <1>2, <1>3, <1>4, <1>5, <1>6, <1>7

LEMMA StopTyped == ASSUME TypedInv, NEW n \in Node, Stop(n) PROVE TypedInv'
<1>1. Leave(n) /\ UNCHANGED <<life, net>>
  BY DEF Stop
<1> QED
  BY <1>1, LeaveFacts DEF TypedInv, MailOK

LEMMA CrashTyped == ASSUME TypedInv, NEW n \in Node, Crash(n) PROVE TypedInv'
<1>1. Leave(n) /\ UNCHANGED net
  BY DEF Crash
<1>2. life' \in [Node -> Addr]
  <2>1. life[n] \in Nat /\ life[n] < Lives[n] /\ Lives[n] \in Nat
    BY NetworkAssumption DEF TypedInv, Crash
  <2>2. life[n] + 1 \in 1..Lives[n]
    BY <2>1
  <2>3. life[n] + 1 \in Addr
    BY <2>2, NetworkAssumption
  <2> QED
    BY <2>3 DEF TypedInv, Crash
<1> QED
  BY <1>1, <1>2, LeaveFacts DEF TypedInv, MailOK

LEMMA ProbeNowTyped == ASSUME TypedInv, NEW n \in Node, ProbeNow(n) PROVE TypedInv'
<1> DEFINE heard == Receivers(n, Config[n].broadcast_host, Config[n].broadcast_port)
<1>1. TypeOK
  BY TypedIsTypeOK
<1>2. heard \subseteq Node
  BY <1>1, ReceiversRun, RunningNodes
<1>3. MailOK(inbox', net')
  BY <1>1, MessagesTyped, BroadcastFacts DEF ProbeNow
<1>4. asked' = [asked EXCEPT ![n] = heard \ {n}]
  BY DEF ProbeNow
<1> HIDE DEF heard
<1>5. asked' \in [Node -> SUBSET Node]
  BY <1>2, <1>4 DEF TypedInv
<1>6. quiet' \in [Node -> 0..ProbeGap]
  BY NetworkConstants DEF TypedInv, ProbeNow
<1> QED
  BY <1>3, <1>5, <1>6 DEF TypedInv, ProbeNow, engineVars

LEMMA PollManyTyped ==
  ASSUME TypedInv, NEW n \in Node, NEW k \in 1..MaxBatch, PollMany(n, k)
  PROVE  TypedInv' /\ call'[n] = [pc |-> "loop", todo |-> k, left |-> 0, idle |-> 0]
                   /\ \A m \in Node \ {n} : call'[m] = call[m]
<1> DEFINE c == [pc |-> "loop", todo |-> k, left |-> 0, idle |-> 0]
<1>1. call' = [call EXCEPT ![n] = c]
  BY LoopCall DEF PollMany
<1>2. c \in Calling /\ c.pc # "recv"
  BY NetworkConstants DEF Calling
<1> HIDE DEF c
<1>3. CallsOK(call') /\ call'[n] = c /\ \A m \in Node \ {n} : call'[m] = call[m]
  BY <1>1, <1>2, CallFacts DEF TypedInv
<1> QED
  BY <1>3 DEF TypedInv, PollMany, c

LEMMA PollEndTyped == ASSUME TypedInv, NEW n \in Node, PollEnd(n) PROVE TypedInv'
<1>1. CallsOK(call')
  BY NoCallFacts, CallFacts DEF TypedInv, PollEnd, NoCall
<1> QED
  BY <1>1 DEF TypedInv, PollEnd

(* What an announcement under maybe_announce leaves: at most one datagram  *)
(* for everyone who hears n, and the instant of it.                        *)
LEMMA MaybeAnnounceFacts ==
  ASSUME TypedInv, NEW n \in Node, MaybeAnnounce(n)
  PROVE  /\ announced' \in [Node -> 0..Now]
         /\ MailOK(inbox', net')
         /\ \A k \in Node \ {n} : announced'[k] = announced[k] /\ inbox'[k] = inbox[k]
         /\ \/ /\ ~ (AnnounceDue(n) /\ CanBroadcast(n))
               /\ UNCHANGED <<net, inbox, announced>>
            \/ /\ AnnounceDue(n) /\ CanBroadcast(n)
               /\ Broadcast(n, AnnounceMessage(n))
               /\ announced'[n] = Now
<1>1. TypeOK
  BY TypedIsTypeOK
<1>2. CASE ~ (AnnounceDue(n) /\ CanBroadcast(n))
  BY <1>2 DEF MaybeAnnounce, TypedInv
<1>3. CASE AnnounceDue(n) /\ CanBroadcast(n)
  <2>1. Broadcast(n, AnnounceMessage(n)) /\ announced' = [announced EXCEPT ![n] = Now]
    BY <1>3 DEF MaybeAnnounce
  <2>2. MailOK(inbox', net') /\ \A k \in Node \ {n} : inbox'[k] = inbox[k]
    BY <1>1, <2>1, MessagesTyped, BroadcastFacts
  <2>3. /\ announced' \in [Node -> 0..Now]
        /\ announced'[n] = Now
        /\ \A k \in Node \ {n} : announced'[k] = announced[k]
    BY <2>1, NetworkConstants DEF TypedInv
  <2> QED
    BY <1>3, <2>1, <2>2, <2>3
<1> QED
  BY <1>2, <1>3

LEMMA RefreshFacts ==
  ASSUME TypedInv, NEW n \in Node, RefreshPeerStates(n)
  PROVE  /\ PeersOK(peers')
         /\ \A k \in Node \ {n} : peers'[k] = peers[k]
         /\ DOMAIN peers'[n] = DOMAIN peers[n]
         /\ \A m \in DOMAIN peers[n] :
              peers'[n][m] = RefreshPeer(peers[n][m], Now, StaleAfter, PeerTtl)
<1> DEFINE new == RefreshStates(peers[n], Now, StaleAfter, PeerTtl)
<1>1. IsRegistry(peers[n]) /\ DOMAIN peers = Node
  BY DEF TypedInv, PeersOK
<1>2. StaleAfter \in Int /\ PeerTtl \in Int /\ Now \in Nat /\ IsValidTime(Now)
  BY NetworkConstants
<1>3. /\ IsRegistry(new)
      /\ DOMAIN new = DOMAIN peers[n]
      /\ \A m \in DOMAIN peers[n] : new[m] = RefreshPeer(peers[n][m], Now, StaleAfter, PeerTtl)
  BY <1>1, <1>2, RefreshStatesFacts
<1>4. peers' = [peers EXCEPT ![n] = new]
  BY DEF RefreshPeerStates
<1> HIDE DEF new
<1>5. PeersOK(peers') /\ peers'[n] = new /\ \A k \in Node \ {n} : peers'[k] = peers[k]
  BY <1>1, <1>3, <1>4 DEF TypedInv, PeersOK
<1> QED
  BY <1>3, <1>5

LEMMA ReceiveCall ==
  ASSUME TypedInv, NEW n \in Node, call[n].todo > 0,
         call' = [call EXCEPT ![n].pc = "recv", ![n].left = AnnounceInterval]
  PROVE  /\ CallsOK(call')
         /\ call'[n].pc = "recv" /\ call'[n].left = AnnounceInterval
         /\ \A m \in Node \ {n} : call'[m] = call[m]
<1> DEFINE d == [call EXCEPT ![n].pc = "recv"]
           e == [d EXCEPT ![n].left = AnnounceInterval]
<1>1. call \in [Node -> Calling] /\ \A m \in Node : call[m].pc = "recv" => call[m].todo > 0
  BY DEF TypedInv, CallsOK
<1>2. call' = e
  BY Zenon
<1>3. /\ d \in [Node -> Calling]
      /\ d[n].pc = "recv" /\ d[n].todo > 0
      /\ \A m \in Node \ {n} : d[m] = call[m]
  BY <1>1 DEF Calling
<1> HIDE DEF d
<1>4. /\ e \in [Node -> Calling]
      /\ e[n].pc = "recv" /\ e[n].todo > 0 /\ e[n].left = AnnounceInterval
      /\ \A m \in Node \ {n} : e[m] = d[m]
  BY <1>3, NetworkConstants DEF Calling
<1> HIDE DEF e
<1> QED
  BY <1>1, <1>2, <1>3, <1>4 DEF CallsOK

LEMMA PollBeginTyped == ASSUME TypedInv, NEW n \in Node, PollBegin(n) PROVE TypedInv'
<1>1. announced' \in [Node -> 0..Now] /\ MailOK(inbox', net')
  BY MaybeAnnounceFacts DEF PollBegin
<1>2. PeersOK(peers')
  BY RefreshFacts DEF PollBegin
<1>3. CallsOK(call')
  BY ReceiveCall DEF PollBegin
<1> QED
  BY <1>1, <1>2, <1>3 DEF TypedInv, PollBegin

LEMMA RecvTimeoutTyped == ASSUME TypedInv, NEW n \in Node, RecvTimeout(n) PROVE TypedInv'
<1>1. CallsOK(call')
  BY PolledFacts DEF TypedInv, RecvTimeout
<1> QED
  BY <1>1 DEF TypedInv, RecvTimeout

(* A valid announcement from somebody else files its sender, seen now. *)
LEMMA HandleAnnouncementFacts ==
  ASSUME TypedInv, NEW n \in Node, inbox[n] # <<>>, HandleAnnouncement(n, Head(inbox[n]))
  PROVE  LET a == Head(inbox[n]).ann
         IN  /\ PeersOK(peers')
             /\ \A k \in Node \ {n} : peers'[k] = peers[k]
             /\ DOMAIN peers'[n] = DOMAIN peers[n] \cup {a.node_id}
             /\ peers'[n][a.node_id] = [ann |-> a, state |-> "Alive", last_seen |-> Now]
             /\ \A m \in DOMAIN peers[n] \ {a.node_id} : peers'[n][m] = peers[n][m]
<1> DEFINE msg == Head(inbox[n])
           a == msg.ann
           new == UpsertAnnouncement(peers[n], a, Now)
<1>1. msg \in Message
  BY TailFacts DEF TypedInv, MailOK
<1>2. /\ IsValidAnnouncement(msg.ann)
      /\ peers' = [peers EXCEPT ![n] = UpsertAnnouncement(@, msg.ann, Now)]
  BY DEF HandleAnnouncement, Accepts
<1> HIDE DEF msg
<1>3. a \in Announcement /\ IsValidAnnouncement(a)
  BY <1>1, <1>2 DEF Message
<1>4. peers' = [peers EXCEPT ![n] = new]
  BY <1>2
<1> HIDE DEF a
<1>5. IsRegistry(peers[n]) /\ DOMAIN peers = Node /\ Now \in Nat
  BY NetworkConstants DEF TypedInv, PeersOK
<1>6. /\ IsRegistry(new)
      /\ DOMAIN new = DOMAIN peers[n] \cup {a.node_id}
      /\ new[a.node_id] = [ann |-> a, state |-> "Alive", last_seen |-> Now]
      /\ \A m \in DOMAIN peers[n] \ {a.node_id} : new[m] = peers[n][m]
  BY <1>3, <1>5, UpsertAnnouncementFacts
<1> HIDE DEF new
<1>7. PeersOK(peers') /\ peers'[n] = new /\ \A k \in Node \ {n} : peers'[k] = peers[k]
  BY <1>4, <1>5, <1>6 DEF TypedInv, PeersOK
<1>8. /\ DOMAIN peers'[n] = DOMAIN peers[n] \cup {a.node_id}
      /\ peers'[n][a.node_id] = [ann |-> a, state |-> "Alive", last_seen |-> Now]
      /\ \A m \in DOMAIN peers[n] \ {a.node_id} : peers'[n][m] = peers[n][m]
  BY <1>6, <1>7, Zenon
<1> QED
  BY <1>7, <1>8, Zenon DEF a, msg

LEMMA RecvTyped == ASSUME TypedInv, NEW n \in Node, Recv(n) PROVE TypedInv'
<1> DEFINE m == Head(inbox[n])
<1>1. /\ TypeOK /\ CallsOK(call) /\ inbox[n] # <<>> /\ call[n].pc = "recv"
      /\ UNCHANGED <<order, life, announced, quiet, asked>>
  BY TypedIsTypeOK DEF TypedInv, Recv
<1>2. CASE HandleEcho(n)
  <2>1. CallsOK(call') /\ MailOK(inbox', net')
    BY <1>1, <1>2, PolledFacts, TakenFacts DEF HandleEcho
  <2> QED
    BY <1>1, <1>2, <2>1 DEF HandleEcho, TypedInv
<1>3. CASE HandleAnnouncement(n, m)
  <2>1. CallsOK(call') /\ MailOK(inbox', net')
    BY <1>1, <1>3, PolledFacts, TakenFacts DEF HandleAnnouncement
  <2>2. PeersOK(peers')
    BY <1>1, <1>3, HandleAnnouncementFacts
  <2> QED
    BY <1>1, <2>1, <2>2 DEF TypedInv
<1>4. CASE HandleProbe(n, m)
  <2>1. MailOK(inbox', net')
    BY <1>1, <1>4, HandleProbeFacts
  <2>2. CallsOK(call') /\ UNCHANGED peers
    BY <1>1, <1>4, PolledFacts DEF HandleProbe
  <2> QED
    BY <1>1, <2>1, <2>2 DEF TypedInv
<1> QED
  BY <1>2, <1>3, <1>4 DEF Recv

LEMMA DeliverTyped == ASSUME TypedInv, NEW p \in net, Deliver(p) PROVE TypedInv'
<1>1. TypeOK /\ p.to \in Node /\ p.msg \in Message /\ net \subseteq [to : Node, msg : Message]
  BY TypedIsTypeOK DEF TypedInv, MailOK
<1>2. MailOK(inbox', net')
  BY <1>1, EnqueuedFacts DEF Deliver, MailOK
<1> QED
  BY <1>2 DEF TypedInv, Deliver, engineVars

LEMMA LoseTyped == ASSUME TypedInv, NEW p \in net, Lose(p) PROVE TypedInv'
BY DEF TypedInv, MailOK, Lose, engineVars

LEMMA OlderFacts ==
  ASSUME NEW t \in Nat
  PROVE  Older(t) \in Nat /\ Older(t) =< t /\ t =< Older(t) + 1 /\ (IsValidTime(t) <=> IsValidTime(Older(t)))
BY DEF Older, IsValidTime, NoTime

(* A tick makes every instant one older, and leaves the rest alone. *)
LEMMA TickFacts ==
  ASSUME TypedInv, Tick
  PROVE  /\ PeersOK(peers')
         /\ \A n \in Node : DOMAIN peers'[n] = DOMAIN peers[n]
         /\ \A n \in Node : \A m \in DOMAIN peers[n] :
              /\ peers'[n][m].ann = peers[n][m].ann
              /\ peers'[n][m].state = peers[n][m].state
              /\ peers'[n][m].last_seen = Older(peers[n][m].last_seen)
         /\ announced' \in [Node -> 0..Now]
         /\ \A n \in Node : announced'[n] = Older(announced[n])
         /\ quiet' \in [Node -> 0..ProbeGap]
         /\ \A n \in Node : quiet'[n] =< quiet[n] /\ quiet[n] =< quiet'[n] + 1
<1>1. ASSUME NEW n \in Node, NEW m \in DOMAIN peers[n]
      PROVE  /\ Touch(peers[n][m], Older(peers[n][m].last_seen)) \in Peer
             /\ Touch(peers[n][m], Older(peers[n][m].last_seen)).ann = peers[n][m].ann
             /\ Touch(peers[n][m], Older(peers[n][m].last_seen)).state = peers[n][m].state
             /\ Touch(peers[n][m], Older(peers[n][m].last_seen)).last_seen = Older(peers[n][m].last_seen)
  <2>1. peers[n][m] \in Peer
    BY DEF TypedInv, PeersOK, IsRegistry
  <2>2. peers[n][m].last_seen \in Nat
    BY <2>1 DEF Peer
  <2> QED
    BY <2>1, <2>2, OlderFacts, TouchFacts
<1>2. \A n \in Node : IsRegistry(peers[n])
  BY DEF TypedInv, PeersOK
<1>3. /\ DOMAIN peers' = Node
      /\ \A n \in Node : peers'[n] = [m \in DOMAIN peers[n] |->
                                       Touch(peers[n][m], Older(peers[n][m].last_seen))]
  BY DEF Tick
<1>4. ASSUME NEW n \in Node
      PROVE  /\ IsRegistry(peers'[n])
             /\ DOMAIN peers'[n] = DOMAIN peers[n]
             /\ \A m \in DOMAIN peers[n] :
                  /\ peers'[n][m].ann = peers[n][m].ann
                  /\ peers'[n][m].state = peers[n][m].state
                  /\ peers'[n][m].last_seen = Older(peers[n][m].last_seen)
  <2>1. DOMAIN peers[n] \subseteq Node
    BY <1>2 DEF IsRegistry
  <2> QED
    BY <1>1, <1>3, <2>1 DEF IsRegistry
<1>5. /\ announced' \in [Node -> 0..Now]
      /\ \A n \in Node : announced'[n] = Older(announced[n])
  <2>1. \A n \in Node : announced[n] \in 0..Now /\ Older(announced[n]) \in 0..Now
    BY NetworkConstants DEF TypedInv, Older
  <2> QED
    BY <2>1 DEF Tick
<1>6. /\ quiet' \in [Node -> 0..ProbeGap]
      /\ \A n \in Node : quiet'[n] =< quiet[n] /\ quiet[n] =< quiet'[n] + 1
  <2>1. \A n \in Node : quiet[n] \in 0..ProbeGap
    BY DEF TypedInv
  <2>2. \A n \in Node : quiet'[n] = IF quiet[n] > 0 THEN quiet[n] - 1 ELSE 0
    BY DEF Tick
  <2>3. quiet' = [n \in Node |-> quiet'[n]]
    BY DEF Tick
  <2>4. ASSUME NEW n \in Node
        PROVE  quiet'[n] \in 0..ProbeGap /\ quiet'[n] =< quiet[n] /\ quiet[n] =< quiet'[n] + 1
    BY <2>1, <2>2, NetworkConstants
  <2> QED
    BY <2>3, <2>4
<1> QED
  BY <1>3, <1>4, <1>5, <1>6 DEF PeersOK

LEMMA TickCalls ==
  ASSUME TypedInv, Tick, NEW n \in Node
  PROVE  /\ call'[n] \in Calling
         /\ call'[n].pc = call[n].pc /\ call'[n].todo = call[n].todo
         /\ n \notin Running => call'[n] = call[n]
         /\ n \in Running /\ call[n].pc = "recv" =>
              call'[n].left = call[n].left - 1 /\ inbox[n] = <<>>
         /\ n \in Running /\ call[n].pc # "recv" =>
              call[n].pc = "idle" /\ call'[n].idle = call[n].idle + 1 /\ call[n].idle < MaxIdle
<1>1. call[n] \in Calling
  BY DEF TypedInv, CallsOK
<1>2. call'[n] = IF n \notin Running THEN call[n]
                 ELSE IF call[n].pc = "recv" THEN [call[n] EXCEPT !.left = @ - 1]
                 ELSE [call[n] EXCEPT !.idle = @ + 1]
  BY DEF Tick
<1>3. n \in Running => \/ call[n].pc = "idle" /\ call[n].idle < MaxIdle
                       \/ call[n].pc = "recv" /\ call[n].left > 0 /\ inbox[n] = <<>>
  BY DEF Tick, MayTick
<1>4. CASE n \notin Running
  BY <1>1, <1>2, <1>4
<1>5. CASE n \in Running /\ call[n].pc = "recv"
  <2>1. call'[n] = [call[n] EXCEPT !.left = call[n].left - 1]
    BY <1>2, <1>5
  <2>2. call[n].left - 1 \in 0..AnnounceInterval
    BY <1>1, <1>3, <1>5, NetworkConstants DEF Calling
  <2> QED
    BY <1>1, <1>3, <1>5, <2>1, <2>2 DEF Calling
<1>6. CASE n \in Running /\ call[n].pc # "recv"
  <2>1. call'[n] = [call[n] EXCEPT !.idle = call[n].idle + 1]
    BY <1>2, <1>6
  <2>2. call[n].idle + 1 \in 0..MaxIdle
    BY <1>1, <1>3, <1>6, NetworkConstants DEF Calling
  <2> QED
    BY <1>1, <1>3, <1>6, <2>1, <2>2 DEF Calling
<1> QED
  BY <1>4, <1>5, <1>6

LEMMA TickTyped == ASSUME TypedInv, Tick PROVE TypedInv'
<1>1. CallsOK(call')
  <2>1. call' = [n \in Node |-> call'[n]]
    BY DEF Tick
  <2>2. \A n \in Node : call'[n] \in Calling /\ (call'[n].pc = "recv" => call'[n].todo > 0)
    BY TickCalls DEF TypedInv, CallsOK
  <2> QED
    BY <2>1, <2>2 DEF CallsOK
<1> QED
  BY <1>1, TickFacts DEF TypedInv, Tick

LEMMA StepTyped == ASSUME TypedInv, [Next]_vars PROVE TypedInv'
<1>1. ASSUME NEW n \in Node, Start(n) \/ Stop(n) \/ Crash(n) \/ ProbeNow(n) \/ Poll(n)
      PROVE  TypedInv'
  BY <1>1, StartTyped, StopTyped, CrashTyped, ProbeNowTyped, PollManyTyped, PollBeginTyped,
     PollEndTyped, RecvTyped, RecvTimeoutTyped DEF Poll
<1>2. ASSUME NEW p \in net, Deliver(p) \/ Lose(p) PROVE TypedInv'
  BY <1>2, DeliverTyped, LoseTyped
<1>3. CASE Tick
  BY <1>3, TickTyped
<1>4. CASE UNCHANGED vars
  BY <1>4 DEF TypedInv, vars, engineVars
<1> QED
  BY <1>1, <1>2, <1>3, <1>4 DEF Next

LEMMA AlwaysTyped == Spec => []TypedInv
BY InitTyped, StepTyped, PTL DEF Spec

(* In every network the state is well typed: no queue grows beyond the     *)
(* socket's, no owner is in a receive that is not part of a batch, and     *)
(* whatever was asked and refreshed the registries stay registries.        *)
THEOREM TypeCorrect == Spec => []TypeOK
BY AlwaysTyped, TypedIsTypeOK, PTL

-----------------------------------------------------------------------------
(* The mail, wherever it is *)

(* A message for n that is under way, or in the queue of its socket. *)
Waits(n, msg) == [to |-> n, msg |-> msg] \in net \/ msg \in Range(inbox[n])

LEMMA WaitsIsWaiting ==
  ASSUME TypedInv, NEW n \in Node, NEW msg, Waits(n, msg)
  PROVE  msg \in Message /\ msg \in Waiting(n)
<1>1. Range(inbox[n]) \subseteq Message
  BY RangeOfSeq DEF TypedInv, MailOK
<1>2. CASE msg \in Range(inbox[n])
  BY <1>1, <1>2 DEF Waiting
<1>3. CASE [to |-> n, msg |-> msg] \in net
  <2> DEFINE p == [to |-> n, msg |-> msg]
  <2>1. p \in net /\ p.to = n /\ p.msg = msg
    BY <1>3
  <2>2. p.msg \in Message
    BY <2>1 DEF TypedInv, MailOK
  <2> HIDE DEF p
  <2> QED
    BY <2>1, <2>2 DEF Waiting
<1> QED
  BY <1>2, <1>3 DEF Waits

(* What the steps add to the mail, and what they take from it. *)
LEMMA BroadcastMail ==
  ASSUME TypedInv, NEW n \in Node, NEW msg \in Message, Broadcast(n, msg)
  PROVE  LET heard == Receivers(n, Config[n].broadcast_host, Config[n].broadcast_port)
         IN  \A k \in Node, x \in Message :
               /\ Waits(k, x) => Waits(k, x)'
               /\ Waits(k, x)' => Waits(k, x) \/ (x = msg /\ k \in heard)
               /\ k \in heard /\ (k = n => Len(inbox[n]) < MaxInbox) => Waits(k, msg)'
<1> DEFINE heard == Receivers(n, Config[n].broadcast_host, Config[n].broadcast_port)
<1>1. /\ net' = net \cup {[to |-> m, msg |-> msg] : m \in heard \ {n}}
      /\ \A k \in Node \ {n} : inbox'[k] = inbox[k]
      /\ \/ inbox'[n] = inbox[n] /\ (n \in heard => Len(inbox[n]) >= MaxInbox)
         \/ n \in heard /\ inbox'[n] = Append(inbox[n], msg)
  BY TypedIsTypeOK, BroadcastFacts
<1>2. Range(Append(inbox[n], msg)) = Range(inbox[n]) \cup {msg}
  BY AppendFacts DEF TypedInv, MailOK
<1>3. Len(inbox[n]) \in Nat /\ MaxInbox \in Nat
  BY LenProperties, NetworkConstants DEF TypedInv, MailOK
<1>4. heard \subseteq Node
  BY ReceiversRun, RunningNodes, TypedIsTypeOK
<1> HIDE DEF heard
<1>5. \A k \in Node, x \in Message :
        [to |-> k, msg |-> x] \in net' <=>
          [to |-> k, msg |-> x] \in net \/ (x = msg /\ k \in heard \ {n})
  BY <1>1, <1>4
<1>6. \A k \in Node \ {n} : Range(inbox'[k]) = Range(inbox[k])
  BY <1>1
<1>7. \/ Range(inbox'[n]) = Range(inbox[n]) /\ (n \in heard => ~ (Len(inbox[n]) < MaxInbox))
      \/ n \in heard /\ Range(inbox'[n]) = Range(inbox[n]) \cup {msg}
  <2>1. ~ (Len(inbox[n]) < MaxInbox) <=> Len(inbox[n]) >= MaxInbox
    BY <1>3
  <2>2. inbox'[n] = inbox[n] => Range(inbox'[n]) = Range(inbox[n])
    OBVIOUS
  <2>3. inbox'[n] = Append(inbox[n], msg) => Range(inbox'[n]) = Range(inbox[n]) \cup {msg}
    BY <1>2
  <2> QED
    BY <1>1, <2>1, <2>2, <2>3, Zenon
<1> SUFFICES ASSUME NEW k \in Node, NEW x \in Message
             PROVE  /\ Waits(k, x) => Waits(k, x)'
                    /\ Waits(k, x)' => Waits(k, x) \/ (x = msg /\ k \in heard)
                    /\ k \in heard /\ (k = n => Len(inbox[n]) < MaxInbox) => Waits(k, msg)'
  BY DEF heard
<1>8. CASE k = n
  BY <1>5, <1>7, <1>8 DEF Waits
<1>9. CASE k # n
  BY <1>5, <1>6, <1>9 DEF Waits
<1> QED
  BY <1>8, <1>9

LEMMA TakenMail ==
  ASSUME TypedInv, NEW n \in Node, inbox[n] # <<>>,
         inbox' = [inbox EXCEPT ![n] = Tail(@)], net' = net
  PROVE  \A k \in Node, x \in Message :
           /\ Waits(k, x)' => Waits(k, x)
           /\ Waits(k, x) => Waits(k, x)' \/ (k = n /\ x = Head(inbox[n]))
<1>1. /\ \A k \in Node \ {n} : inbox'[k] = inbox[k]
      /\ inbox'[n] = Tail(inbox[n])
  BY TypedIsTypeOK, TakenFacts
<1>2. Range(inbox[n]) = Range(inbox'[n]) \cup {Head(inbox[n])}
  BY <1>1, TailFacts DEF TypedInv, MailOK
<1>3. \A k \in Node \ {n} : Range(inbox'[k]) = Range(inbox[k])
  BY <1>1
<1> QED
  BY <1>2, <1>3 DEF Waits

LEMMA HandleProbeMail ==
  ASSUME TypedInv, NEW n \in Node, inbox[n] # <<>>, NEW msg, HandleProbe(n, msg)
  PROVE  LET to == ReplyReceivers(msg.from)
         IN  \A k \in Node, x \in Message :
               /\ Waits(k, x)' => Waits(k, x) \/ (k \in to /\ x = ReplyMessage(n))
               /\ Waits(k, x) => Waits(k, x)' \/ (k = n /\ x = Head(inbox[n]))
               /\ k \in to /\ x = ReplyMessage(n) => Waits(k, x)'
<1> DEFINE to == ReplyReceivers(msg.from)
<1>1. /\ net' = net \cup {[to |-> r, msg |-> ReplyMessage(n)] : r \in to \ {n}}
      /\ \A k \in Node \ {n} : inbox'[k] = inbox[k]
      /\ inbox'[n] = IF n \in to THEN Append(Tail(inbox[n]), ReplyMessage(n)) ELSE Tail(inbox[n])
  BY TypedIsTypeOK, HandleProbeFacts
<1>2. to \subseteq Node /\ ReplyMessage(n) \in Message
  BY LastBoundFacts, RunningNodes, TypedIsTypeOK, MessagesTyped DEF ReplyReceivers
<1> HIDE DEF to
<1>3. /\ Range(inbox[n]) = Range(Tail(inbox[n])) \cup {Head(inbox[n])}
      /\ Tail(inbox[n]) \in Seq(Message)
  BY TailFacts DEF TypedInv, MailOK
<1>4. Range(inbox'[n]) = Range(Tail(inbox[n])) \cup {x \in {ReplyMessage(n)} : n \in to}
  <2>1. Range(Append(Tail(inbox[n]), ReplyMessage(n))) = Range(Tail(inbox[n])) \cup {ReplyMessage(n)}
    BY <1>2, <1>3, AppendFacts
  <2> QED
    BY <1>1, <2>1
<1>5. \A k \in Node, x \in Message :
        [to |-> k, msg |-> x] \in net' <=>
          [to |-> k, msg |-> x] \in net \/ (x = ReplyMessage(n) /\ k \in to \ {n})
  BY <1>1, <1>2
<1>6. \A k \in Node \ {n} : Range(inbox'[k]) = Range(inbox[k])
  BY <1>1
<1>7. ASSUME NEW x \in Message
      PROVE  /\ Waits(n, x)' => Waits(n, x) \/ (n \in to /\ x = ReplyMessage(n))
             /\ Waits(n, x) => Waits(n, x)' \/ x = Head(inbox[n])
             /\ n \in to /\ x = ReplyMessage(n) => Waits(n, x)'
  <2>1. [to |-> n, msg |-> x] \in net' <=> [to |-> n, msg |-> x] \in net
    BY <1>5
  <2>2. /\ x \in Range(inbox'[n]) <=>
             x \in Range(Tail(inbox[n])) \/ (x = ReplyMessage(n) /\ n \in to)
        /\ x \in Range(inbox[n]) <=> x \in Range(Tail(inbox[n])) \/ x = Head(inbox[n])
        /\ n \in to => ReplyMessage(n) \in Range(inbox'[n])
    BY <1>3, <1>4
  <2> QED
    BY <2>1, <2>2 DEF Waits
<1>8. ASSUME NEW k \in Node, k # n, NEW x \in Message
      PROVE  /\ Waits(k, x)' <=> Waits(k, x) \/ (k \in to /\ x = ReplyMessage(n))
             /\ k \in to /\ x = ReplyMessage(n) => Waits(k, x)'
  <2>1. /\ [to |-> k, msg |-> x] \in net' <=>
             [to |-> k, msg |-> x] \in net \/ (x = ReplyMessage(n) /\ k \in to)
        /\ k \in to => [to |-> k, msg |-> ReplyMessage(n)] \in net'
    BY <1>2, <1>5, <1>8
  <2>2. Range(inbox'[k]) = Range(inbox[k])
    BY <1>6, <1>8
  <2> QED
    BY <2>1, <2>2 DEF Waits
<1> QED
  BY <1>7, <1>8 DEF to

LEMMA DeliverMail ==
  ASSUME TypedInv, NEW p \in net, Deliver(p)
  PROVE  \A k \in Node, x \in Message :
           /\ Waits(k, x)' => Waits(k, x)
           /\ Waits(k, x) /\ k \in Running /\ Len(inbox[k]) < MaxInbox => Waits(k, x)'
<1>1. p.to \in Node /\ p.msg \in Message /\ p = [to |-> p.to, msg |-> p.msg]
  BY DEF TypedInv, MailOK
<1>2. inbox' = Enqueued(p.to, p.msg) /\ net' = net \ {p}
  BY DEF Deliver
<1>3. /\ \A k \in Node \ {p.to} : inbox'[k] = inbox[k]
      /\ \/ /\ inbox'[p.to] = inbox[p.to]
            /\ p.to \in Running => Len(inbox[p.to]) >= MaxInbox
         \/ inbox'[p.to] = Append(inbox[p.to], p.msg)
  BY <1>1, <1>2, EnqueuedFacts, TypedIsTypeOK
<1>4. Range(Append(inbox[p.to], p.msg)) = Range(inbox[p.to]) \cup {p.msg}
  BY <1>1, AppendFacts DEF TypedInv, MailOK
<1>5. Len(inbox[p.to]) \in Nat /\ MaxInbox \in Nat
  BY <1>1, LenProperties, NetworkConstants DEF TypedInv, MailOK
<1>6. \A k \in Node, x \in Message :
        [to |-> k, msg |-> x] \in net' <=>
          [to |-> k, msg |-> x] \in net /\ ~ (k = p.to /\ x = p.msg)
  BY <1>1, <1>2
<1>7. \A k \in Node \ {p.to} : Range(inbox'[k]) = Range(inbox[k])
  BY <1>3
<1>8. ASSUME NEW x \in Message
      PROVE  /\ Waits(p.to, x)' => Waits(p.to, x)
             /\ Waits(p.to, x) /\ p.to \in Running /\ Len(inbox[p.to]) < MaxInbox => Waits(p.to, x)'
  <2>1. /\ x \in Range(inbox'[p.to]) => x \in Range(inbox[p.to]) \/ x = p.msg
        /\ x \in Range(inbox[p.to]) => x \in Range(inbox'[p.to])
        /\ p.to \in Running /\ Len(inbox[p.to]) < MaxInbox => p.msg \in Range(inbox'[p.to])
    <3>1. inbox'[p.to] = inbox[p.to] => Range(inbox'[p.to]) = Range(inbox[p.to])
      OBVIOUS
    <3>2. inbox'[p.to] = Append(inbox[p.to], p.msg) =>
            Range(inbox'[p.to]) = Range(inbox[p.to]) \cup {p.msg}
      BY <1>4
    <3> QED
      BY <1>3, <1>5, <3>1, <3>2
  <2>2. [to |-> p.to, msg |-> x] \in net' <=> [to |-> p.to, msg |-> x] \in net /\ x # p.msg
    BY <1>1, <1>6
  <2>3. [to |-> p.to, msg |-> p.msg] \in net
    BY <1>1
  <2> QED
    BY <2>1, <2>2, <2>3 DEF Waits
<1>9. ASSUME NEW k \in Node, k # p.to, NEW x \in Message PROVE Waits(k, x)' <=> Waits(k, x)
  BY <1>6, <1>7, <1>9 DEF Waits
<1> QED
  BY <1>8, <1>9

LEMMA LeaveMail ==
  ASSUME TypedInv, NEW n \in Node, Leave(n), net' = net
  PROVE  \A k \in Node, x \in Message :
           /\ Waits(k, x)' => Waits(k, x)
           /\ Waits(k, x) /\ k # n => Waits(k, x)'
<1>1. /\ inbox'[n] = <<>>
      /\ \A k \in Node \ {n} : inbox'[k] = inbox[k]
  BY LeaveFacts
<1>2. Range(inbox'[n]) = {}
  BY <1>1 DEF Range
<1>3. \A k \in Node \ {n} : Range(inbox'[k]) = Range(inbox[k])
  BY <1>1
<1> QED
  BY <1>2, <1>3 DEF Waits

(* What an engine sends.  A probe carries nothing; the rest announces its *)
(* sender.                                                                *)
FromEngine(msg) ==
  /\ msg.from \in Node
  /\ msg.type \in {"Announce", "Probe", "Reply"}
  /\ msg.type # "Probe" => IsValidAnnouncement(msg.ann) /\ msg.ann.node_id = msg.from

HonestMail == \A n \in Node, msg \in Message : Waits(n, msg) => FromEngine(msg)

LEMMA MessagesHonest ==
  ASSUME TypedInv, NEW n \in Node
  PROVE  FromEngine(AnnounceMessage(n)) /\ FromEngine(ReplyMessage(n)) /\ FromEngine(ProbeMessage(n))
BY IdAssumption DEF TypedInv, FromEngine, AnnounceMessage, ReplyMessage, ProbeMessage,
   LocalAnnouncement, IsValidAnnouncement

LEMMA HeadWaits ==
  ASSUME TypedInv, NEW n \in Node, inbox[n] # <<>>
  PROVE  Head(inbox[n]) \in Message /\ Waits(n, Head(inbox[n]))
BY TailFacts DEF TypedInv, MailOK, Waits

LEMMA InitHonest == Init => HonestMail
BY DEF Init, HonestMail, Waits, Range

LEMMA StepHonest == ASSUME TypedInv, HonestMail, [Next]_vars PROVE HonestMail'
<1> SUFFICES ASSUME NEW k \in Node, NEW x \in Message, Waits(k, x)', ~ FromEngine(x)
             PROVE  FALSE
  BY DEF HonestMail, FromEngine
<1>1. ~ Waits(k, x)
  BY DEF HonestMail
<1>2. ASSUME NEW n \in Node, ProbeNow(n) PROVE FALSE
  BY <1>1, <1>2, BroadcastMail, MessagesTyped, MessagesHonest, TypedIsTypeOK DEF ProbeNow
<1>3. ASSUME NEW n \in Node, PollBegin(n) PROVE FALSE
  <2>1. \/ UNCHANGED <<net, inbox>>
        \/ Broadcast(n, AnnounceMessage(n))
    BY <1>3, MaybeAnnounceFacts DEF PollBegin
  <2>2. CASE UNCHANGED <<net, inbox>>
    BY <1>1, <2>2 DEF Waits
  <2>3. CASE Broadcast(n, AnnounceMessage(n))
    BY <1>1, <2>3, BroadcastMail, MessagesTyped, MessagesHonest, TypedIsTypeOK
  <2> QED
    BY <2>1, <2>2, <2>3
<1>4. ASSUME NEW n \in Node, Recv(n) PROVE FALSE
  <2> DEFINE m == Head(inbox[n])
  <2>1. inbox[n] # <<>>
    BY <1>4 DEF Recv
  <2>2. CASE HandleEcho(n) \/ HandleAnnouncement(n, m)
    BY <1>1, <2>1, <2>2, TakenMail DEF HandleEcho, HandleAnnouncement
  <2>3. CASE HandleProbe(n, m)
    BY <1>1, <2>1, <2>3, HandleProbeMail, MessagesHonest
  <2> QED
    BY <1>4, <2>2, <2>3 DEF Recv
<1>5. ASSUME NEW n \in Node, Stop(n) \/ Crash(n) PROVE FALSE
  <2>1. Leave(n) /\ net' = net
    BY <1>5 DEF Stop, Crash
  <2> QED
    BY <1>1, <2>1, LeaveMail
<1>6. ASSUME NEW n \in Node,
             Start(n) \/ (\E j \in 1..MaxBatch : PollMany(n, j)) \/ PollEnd(n) \/ RecvTimeout(n)
      PROVE  FALSE
  <2>1. UNCHANGED <<net, inbox>>
    BY <1>6 DEF Start, PollMany, PollEnd, RecvTimeout
  <2> QED
    BY <1>1, <2>1 DEF Waits
<1>7. ASSUME NEW p \in net, Deliver(p) PROVE FALSE
  BY <1>1, <1>7, DeliverMail
<1>8. ASSUME NEW p \in net, Lose(p) PROVE FALSE
  BY <1>1, <1>8 DEF Lose, Waits
<1>9. CASE Tick \/ UNCHANGED vars
  BY <1>1, <1>9 DEF Tick, vars, Waits
<1> QED
  BY <1>2, <1>3, <1>4, <1>5, <1>6, <1>7, <1>8, <1>9 DEF Next, Poll

-----------------------------------------------------------------------------
(* A probe is answered *)

(* The hypotheses: the network may delay what it carries, and nodes may    *)
(* stop and die, but no datagram is lost and no two nodes share a socket's *)
(* address, so that a reply goes to the node that asked.                   *)
NothingLost == \A n \in Node : "lose" \notin May[n]

OwnSockets ==
  \A n, m \in Node :
    n # m => Machine[n] # Machine[m] \/ Config[n].bind_port # Config[m].bind_port

LEMMA OwnSocketReplies ==
  ASSUME TypedInv, OwnSockets, NEW n \in Running
  PROVE  ReplyReceivers(n) = {n}
<1> DEFINE here == {i \in DOMAIN order : /\ Machine[order[i]] = Machine[n]
                                         /\ Listening(order[i], Config[n].bind_port)}
<1>1. Len(order) \in Nat /\ DOMAIN order = 1..Len(order) /\ IsInjective(order)
  BY LenProperties DEF TypedInv, OrderOK
<1>2. PICK i \in DOMAIN order : order[i] = n
  BY DEF Running, Range
<1>3. Running \subseteq Node
  BY RunningNodes, TypedIsTypeOK
<1>4. \A j \in DOMAIN order : order[j] \in Running
  BY DEF Running, Range
<1>5. here = {i}
  <2>1. i \in here
    BY <1>2 DEF Listening
  <2>2. ASSUME NEW j \in here PROVE j = i
    <3>1. order[j] = n
      BY <1>3, <1>4 DEF OwnSockets, Listening
    <3> QED
      BY <3>1, <1>1, <1>2 DEF IsInjective
  <2> QED
    BY <2>1, <2>2
<1>6. ReplyReceivers(n) = {order[j] : j \in {l \in here : \A k \in here : k =< l}}
  BY DEF ReplyReceivers, LastBound
<1> HIDE DEF here
<1>7. {l \in here : \A k \in here : k =< l} = {i}
  BY <1>1, <1>5
<1> QED
  BY <1>2, <1>6, <1>7

(* Whoever n asked is known to it, or the question or an answer is still   *)
(* in the mail.                                                            *)
Answering(n, m) ==
  \/ m \in DOMAIN peers[n]
  \/ Waits(m, ProbeMessage(n))
  \/ \E reply \in Message : reply.type = "Reply" /\ reply.from = m /\ Waits(n, reply)

Answered ==
  \A n \in Node : \A m \in asked[n] :
    n \in Running /\ m \in Running /\ m # n /\ Answering(n, m)

LEMMA AnswerKept ==
  ASSUME TypedInv, NEW n \in Node, NEW m \in Node, Answering(n, m),
         DOMAIN peers[n] \subseteq DOMAIN peers'[n],
         \A x \in Message : Waits(n, x) => Waits(n, x)',
         \A x \in Message : Waits(m, x) => Waits(m, x)'
  PROVE  Answering(n, m)'
<1>1. CASE m \in DOMAIN peers[n]
  BY <1>1 DEF Answering
<1>2. CASE Waits(m, ProbeMessage(n))
  <2>1. ProbeMessage(n) \in Message /\ ProbeMessage(n)' = ProbeMessage(n)
    BY MessagesTyped, TypedIsTypeOK DEF ProbeMessage
  <2>2. Waits(m, ProbeMessage(n))'
    BY <1>2, <2>1
  <2> QED
    BY <2>2 DEF Answering
<1>3. CASE \E reply \in Message : reply.type = "Reply" /\ reply.from = m /\ Waits(n, reply)
  BY <1>3 DEF Answering
<1> QED
  BY <1>1, <1>2, <1>3 DEF Answering

LEMMA AnsweredProbeNow ==
  ASSUME TypedInv, Answered, QueuesDrain, NEW n \in Node, ProbeNow(n)
  PROVE  Answered'
<1> DEFINE heard == Receivers(n, Config[n].broadcast_host, Config[n].broadcast_port)
<1>1. ProbeMessage(n) \in Message
  BY MessagesTyped, TypedIsTypeOK
<1>2. /\ Broadcast(n, ProbeMessage(n))
      /\ asked' = [asked EXCEPT ![n] = heard \ {n}]
      /\ n \in Running
      /\ UNCHANGED <<order, peers>>
  BY DEF ProbeNow, engineVars
<1>3. heard \subseteq Running /\ Running \subseteq Node
  BY ReceiversRun, RunningNodes, TypedIsTypeOK
<1>4. /\ \A k \in Node, x \in Message : Waits(k, x) => Waits(k, x)'
      /\ \A k \in heard : k # n => Waits(k, ProbeMessage(n))'
  BY <1>1, <1>2, <1>3, BroadcastMail DEF ProbeMessage
<1> HIDE DEF heard
<1> SUFFICES ASSUME NEW k \in Node, NEW m \in asked'[k]
             PROVE  k \in Running' /\ m \in Running' /\ m # k /\ Answering(k, m)'
  BY DEF Answered
<1>5. Running' = Running
  BY <1>2 DEF Running
<1>6. CASE k = n
  <2>1. m \in heard /\ m # n
    BY <1>2, <1>6 DEF TypedInv
  <2>2. Answering(n, m)'
    BY <2>1, <1>4 DEF Answering, ProbeMessage
  <2> QED
    BY <1>2, <1>3, <1>5, <1>6, <2>1, <2>2
<1>7. CASE k # n
  <2>1. m \in asked[k]
    BY <1>2, <1>7 DEF TypedInv
  <2>2. k \in Running /\ m \in Running /\ m # k /\ Answering(k, m)
    BY <2>1 DEF Answered
  <2>3. Answering(k, m)'
    BY <1>2, <1>3, <1>4, <2>2, AnswerKept
  <2> QED
    BY <1>5, <2>2, <2>3
<1> QED
  BY <1>6, <1>7

(* An answer is read, and with it goes nothing but itself. *)
LEMMA AnsweredRecv ==
  ASSUME TypedInv, HonestMail, Answered, OwnSockets, NEW n \in Node, Recv(n)
  PROVE  Answered'
<1> DEFINE h == Head(inbox[n])
<1>1. /\ inbox[n] # <<>>
      /\ UNCHANGED <<order, asked>>
  BY DEF Recv
<1>2. h \in Message /\ Waits(n, h) /\ FromEngine(h)
  BY <1>1, HeadWaits DEF HonestMail
<1>3. Running' = Running /\ Running \subseteq Node
  BY <1>1, RunningNodes, TypedIsTypeOK DEF Running
<1>4. /\ \A k \in Node, x \in Message : Waits(k, x) => Waits(k, x)' \/ (k = n /\ x = h)
      /\ \A k \in Node : DOMAIN peers[k] \subseteq DOMAIN peers'[k]
  <2>1. CASE HandleEcho(n)
    BY <1>1, <2>1, TakenMail DEF HandleEcho
  <2>2. CASE HandleAnnouncement(n, h)
    <3>1. /\ DOMAIN peers[n] \subseteq DOMAIN peers'[n]
          /\ \A k \in Node \ {n} : peers'[k] = peers[k]
      BY <1>1, <2>2, HandleAnnouncementFacts
    <3>2. \A k \in Node, x \in Message : Waits(k, x) => Waits(k, x)' \/ (k = n /\ x = h)
      BY <1>1, <2>2, TakenMail DEF HandleAnnouncement
    <3> QED
      BY <3>1, <3>2
  <2>3. CASE HandleProbe(n, h)
    BY <1>1, <2>3, HandleProbeMail DEF HandleProbe
  <2> QED
    BY <2>1, <2>2, <2>3 DEF Recv
<1> SUFFICES ASSUME NEW k \in Node, NEW m \in asked[k]
             PROVE  k \in Running /\ m \in Running /\ m # k /\ Answering(k, m)'
  BY <1>1, <1>3 DEF Answered
<1>5. k \in Running /\ m \in Running /\ m \in Node /\ m # k /\ Answering(k, m)
  BY <1>3 DEF Answered
<1> HIDE DEF h
<1> SUFFICES Answering(k, m)'
  BY <1>5
<1>6. CASE m \in DOMAIN peers[k]
  BY <1>4, <1>6 DEF Answering
<1>7. CASE Waits(m, ProbeMessage(k))
  <2>1. ProbeMessage(k) \in Message /\ ProbeMessage(k)' = ProbeMessage(k)
    BY MessagesTyped, TypedIsTypeOK DEF ProbeMessage
  <2>2. CASE Waits(m, ProbeMessage(k))'
    BY <2>1, <2>2 DEF Answering
  <2>3. CASE ~ Waits(m, ProbeMessage(k))'
    <3>1. m = n /\ h = ProbeMessage(k)
      BY <1>4, <1>5, <1>7, <2>1, <2>3
    <3>2. h.from = k /\ h.type = "Probe"
      BY <3>1 DEF ProbeMessage
    <3>3. HandleProbe(n, h)
      BY <1>5, <3>1, <3>2 DEF Recv, HandleAnnouncement, h
    <3>4. k \in ReplyReceivers(h.from)
      BY <1>5, <3>2, OwnSocketReplies
    <3>5. ReplyMessage(n) \in Message
      BY MessagesTyped, TypedIsTypeOK
    <3>6. \E reply \in Message : reply.type = "Reply" /\ reply.from = m /\ Waits(k, reply)'
      <4> DEFINE r == ReplyMessage(n)
      <4>1. r \in Message /\ r.type = "Reply" /\ r.from = m
        BY <3>1, <3>5 DEF ReplyMessage
      <4>2. \A x \in Message : x = r => Waits(k, x)'
        BY <1>1, <3>3, <3>4, HandleProbeMail
      <4> HIDE DEF r
      <4> QED
        BY <4>1, <4>2
    <3> QED
      BY <3>6 DEF Answering
  <2> QED
    BY <2>2, <2>3
<1>8. CASE \E reply \in Message : reply.type = "Reply" /\ reply.from = m /\ Waits(k, reply)
  <2>1. PICK reply \in Message : reply.type = "Reply" /\ reply.from = m /\ Waits(k, reply)
    BY <1>8
  <2>2. CASE Waits(k, reply)'
    BY <2>1, <2>2 DEF Answering
  <2>3. CASE ~ Waits(k, reply)'
    <3>1. k = n /\ h = reply
      BY <1>4, <2>1, <2>3
    <3>2. HandleAnnouncement(n, h)
      BY <1>5, <2>1, <3>1 DEF Recv, HandleProbe, h
    <3>3. m = h.ann.node_id
      BY <1>2, <2>1, <3>1 DEF FromEngine
    <3>4. m \in DOMAIN peers'[n]
      BY <1>1, <3>2, <3>3, HandleAnnouncementFacts DEF h
    <3> QED
      BY <3>1, <3>4 DEF Answering
  <2> QED
    BY <2>2, <2>3
<1> QED
  BY <1>5, <1>6, <1>7, <1>8 DEF Answering

LEMMA AnsweredLeave ==
  ASSUME TypedInv, Answered, NEW n \in Node, Leave(n), net' = net
  PROVE  Answered'
<1> SUFFICES ASSUME NEW k \in Node, NEW m \in asked'[k]
             PROVE  k \in Running' /\ m \in Running' /\ m # k /\ Answering(k, m)'
  BY DEF Answered
<1>1. k # n /\ m \in asked[k] /\ m # n
  BY LeaveFacts
<1>2. k \in Running /\ m \in Running /\ m # k /\ Answering(k, m)
  BY <1>1 DEF Answered
<1>3. m \in Node
  BY <1>2, RunningNodes, TypedIsTypeOK
<1>4. peers'[k] = peers[k] /\ Running' = Running \ {n}
  BY <1>1, LeaveFacts
<1>5. \A x \in Message : (Waits(k, x) => Waits(k, x)') /\ (Waits(m, x) => Waits(m, x)')
  BY <1>1, <1>3, LeaveMail
<1>6. Answering(k, m)'
  BY <1>2, <1>3, <1>4, <1>5, AnswerKept
<1> QED
  BY <1>1, <1>2, <1>4, <1>6

(* The steps that leave who was asked alone, and take nothing from the     *)
(* mail or the registries.                                                 *)
LEMMA AnsweredElse ==
  ASSUME TypedInv, Answered, UNCHANGED asked,
         Running \subseteq Running',
         \A k \in Node : DOMAIN peers[k] \subseteq DOMAIN peers'[k],
         \A k \in Node, x \in Message : k \in Running /\ Waits(k, x) => Waits(k, x)'
  PROVE  Answered'
<1> SUFFICES ASSUME NEW k \in Node, NEW m \in asked[k]
             PROVE  k \in Running' /\ m \in Running' /\ m # k /\ Answering(k, m)'
  BY DEF Answered
<1>1. k \in Running /\ m \in Running /\ m \in Node /\ m # k /\ Answering(k, m)
  BY RunningNodes, TypedIsTypeOK DEF Answered
<1>2. Answering(k, m)'
  BY <1>1, AnswerKept
<1> QED
  BY <1>1, <1>2

LEMMA StepAnswered ==
  ASSUME NothingLost, OwnSockets, TypedInv, HonestMail, Answered, QueuesDrain, [Next]_vars
  PROVE  Answered'
<1>1. ASSUME NEW n \in Node, Stop(n) \/ Crash(n) PROVE Answered'
  BY <1>1, AnsweredLeave DEF Stop, Crash
<1>2. ASSUME NEW n \in Node, PollBegin(n) PROVE Answered'
  <2>1. \A k \in Node : DOMAIN peers[k] \subseteq DOMAIN peers'[k]
    BY <1>2, RefreshFacts DEF PollBegin
  <2>2. \A k \in Node, x \in Message : Waits(k, x) => Waits(k, x)'
    <3>1. UNCHANGED <<net, inbox>> \/ Broadcast(n, AnnounceMessage(n))
      BY <1>2, MaybeAnnounceFacts DEF PollBegin
    <3>2. CASE UNCHANGED <<net, inbox>>
      BY <3>2 DEF Waits
    <3>3. CASE Broadcast(n, AnnounceMessage(n))
      BY <3>3, BroadcastMail, MessagesTyped, TypedIsTypeOK
    <3> QED
      BY <3>1, <3>2, <3>3
  <2>3. UNCHANGED <<order, asked>>
    BY <1>2 DEF PollBegin
  <2> QED
    BY <2>1, <2>2, <2>3, AnsweredElse DEF Running
<1>3. ASSUME NEW n \in Node,
             (\E j \in 1..MaxBatch : PollMany(n, j)) \/ PollEnd(n) \/ RecvTimeout(n)
      PROVE  Answered'
  <2>1. UNCHANGED <<order, peers, net, inbox, asked>>
    BY <1>3 DEF PollMany, PollEnd, RecvTimeout
  <2> QED
    BY <2>1, AnsweredElse DEF Running, Waits
<1>4. ASSUME NEW n \in Node, Start(n) PROVE Answered'
  <2>1. Running' = Running \cup {n}
    BY <1>4, OrderAppend DEF TypedInv, OrderOK, Start, Running
  <2> QED
    BY <1>4, <2>1, AnsweredElse DEF Start, Waits
<1>5. ASSUME NEW p \in net, Deliver(p) PROVE Answered'
  <2>1. UNCHANGED <<order, peers, asked>>
    BY <1>5 DEF Deliver, engineVars
  <2>2. \A k \in Node, x \in Message : k \in Running /\ Waits(k, x) => Waits(k, x)'
    BY <1>5, DeliverMail DEF QueuesDrain
  <2> QED
    BY <2>1, <2>2, AnsweredElse DEF Running
<1>6. ASSUME NEW p \in net, Lose(p) PROVE FALSE
  BY <1>6 DEF Lose, NothingLost, TypedInv, MailOK
<1>7. CASE Tick
  <2>1. UNCHANGED <<order, net, inbox, asked>>
    BY <1>7 DEF Tick
  <2>2. \A k \in Node : DOMAIN peers[k] \subseteq DOMAIN peers'[k]
    BY <1>7, TickFacts
  <2> QED
    BY <2>1, <2>2, AnsweredElse DEF Running, Waits
<1>8. CASE UNCHANGED vars
  <2>1. UNCHANGED <<order, peers, net, inbox, asked>>
    BY <1>8 DEF vars, engineVars
  <2> QED
    BY <2>1, AnsweredElse DEF Running, Waits
<1> QED
  BY <1>1, <1>2, <1>3, <1>4, <1>5, <1>6, <1>7, <1>8, AnsweredProbeNow, AnsweredRecv DEF Next, Poll

LEMMA AlwaysHonest == Spec => []HonestMail
BY AlwaysTyped, InitHonest, StepHonest, PTL DEF Spec

LEMMA AnsweredFinds == ASSUME TypedInv, Answered PROVE ProbeFinds
<1> SUFFICES ASSUME NEW n \in Running, NEW m \in asked[n], m \notin DOMAIN peers[n]
             PROVE  AnswerDue(n, m)
  BY DEF ProbeFinds
<1>1. n \in Node /\ m \in Node /\ Answering(n, m)
  BY RunningNodes, TypedIsTypeOK DEF Answered
<1>2. CASE Waits(m, ProbeMessage(n))
  BY <1>1, <1>2, WaitsIsWaiting DEF AnswerDue
<1>3. CASE \E reply \in Message : reply.type = "Reply" /\ reply.from = m /\ Waits(n, reply)
  BY <1>1, <1>3, WaitsIsWaiting DEF AnswerDue
<1> QED
  BY <1>1, <1>2, <1>3 DEF Answering

(* In every network that loses nothing, whose sockets have addresses of    *)
(* their own and never fill, a probe finds everyone who heard it, however  *)
(* late the question and the answers are, and whoever else starts, stops,  *)
(* dies and comes back meanwhile (handle_probe, handle_reply).             *)
THEOREM ProbeAlwaysFinds ==
  ASSUME NothingLost, OwnSockets
  PROVE  Spec /\ []QueuesDrain => []ProbeFinds
<1>1. Init => Answered
  BY DEF Init, Answered
<1>2. TypedInv /\ HonestMail /\ QueuesDrain /\ Answered /\ [Next]_vars => Answered'
  BY StepAnswered
<1>3. TypedInv /\ Answered => ProbeFinds
  BY AnsweredFinds
<1> QED
  BY <1>1, <1>2, <1>3, AlwaysTyped, AlwaysHonest, PTL DEF Spec

-----------------------------------------------------------------------------
(* One place for every message *)

(* Of two messages for a node with the same slot, one is one too many.     *)
Slot(msg) == <<msg.from, msg.type>>

(* No two messages of a queue and of what is under way to it share a slot. *)
Distinct(queue, way) ==
  /\ \A i, j \in DOMAIN queue : Slot(queue[i]) = Slot(queue[j]) => i = j
  /\ \A x \in way : \A i \in DOMAIN queue : Slot(queue[i]) # Slot(x)
  /\ \A x, y \in way : Slot(x) = Slot(y) => x = y

LEMMA SlotFacts ==
  ASSUME NEW x, NEW y
  PROVE  Slot(x) = Slot(y) <=> x.from = y.from /\ x.type = y.type
BY DEF Slot

LEMMA DistinctAppend ==
  ASSUME NEW queue \in Seq(Message), NEW way, NEW x \in Message, Distinct(queue, way),
         \A y \in Range(queue) \cup way : Slot(y) # Slot(x)
  PROVE  Distinct(Append(queue, x), way) /\ Distinct(queue, way \cup {x})
<1> DEFINE new == Append(queue, x)
<1>1. /\ Len(queue) \in Nat /\ DOMAIN queue = 1..Len(queue) /\ DOMAIN new = 1..(Len(queue) + 1)
      /\ \A i \in 1..Len(queue) : new[i] = queue[i]
      /\ new[Len(queue) + 1] = x
  BY AppendProperties, LenProperties
<1> HIDE DEF new
<1>2. \A i \in DOMAIN queue : Slot(queue[i]) # Slot(x)
  BY DEF Range
<1>3. /\ \A i, j \in DOMAIN queue : Slot(queue[i]) = Slot(queue[j]) => i = j
      /\ \A y \in way : \A i \in DOMAIN queue : Slot(queue[i]) # Slot(y)
      /\ \A y, z \in way : Slot(y) = Slot(z) => y = z
  BY DEF Distinct
<1>4. Distinct(queue, way \cup {x})
  BY <1>2, <1>3 DEF Distinct
<1>5. ASSUME NEW i \in DOMAIN new, NEW j \in DOMAIN new, Slot(new[i]) = Slot(new[j]) PROVE i = j
  <2>1. i \in DOMAIN queue \/ i = Len(queue) + 1
    BY <1>1
  <2>2. j \in DOMAIN queue \/ j = Len(queue) + 1
    BY <1>1
  <2> QED
    BY <2>1, <2>2, <1>1, <1>2, <1>3, <1>5
<1>6. ASSUME NEW y \in way, NEW i \in DOMAIN new PROVE Slot(new[i]) # Slot(y)
  <2>1. i \in DOMAIN queue \/ i = Len(queue) + 1
    BY <1>1
  <2> QED
    BY <2>1, <1>1, <1>3
<1>7. Distinct(new, way)
  BY <1>3, <1>5, <1>6 DEF Distinct
<1> QED
  BY <1>4, <1>7 DEF new

LEMMA DistinctArrives ==
  ASSUME NEW queue \in Seq(Message), NEW way, NEW x \in Message, Distinct(queue, way),
         x \in way
  PROVE  Distinct(Append(queue, x), way \ {x}) /\ Distinct(queue, way \ {x})
<1>1. Distinct(queue, way \ {x})
  BY DEF Distinct
<1>2. \A y \in Range(queue) \cup (way \ {x}) : Slot(y) # Slot(x)
  BY DEF Distinct, Range
<1> QED
  BY <1>1, <1>2, DistinctAppend

LEMMA DistinctTail ==
  ASSUME NEW queue \in Seq(Message), NEW way, Distinct(queue, way), queue # <<>>
  PROVE  /\ Distinct(Tail(queue), way)
         /\ \A y \in Range(Tail(queue)) \cup way : Slot(y) # Slot(Head(queue))
<1> DEFINE t == Tail(queue)
<1>1. /\ Len(queue) \in Nat \ {0} /\ DOMAIN queue = 1..Len(queue) /\ DOMAIN t = 1..(Len(queue) - 1)
      /\ \A i \in 1..(Len(queue) - 1) : t[i] = queue[i + 1]
      /\ Head(queue) = queue[1]
  <2>1. t \in Seq(Message) /\ Len(t) = Len(queue) - 1 /\ \A i \in 1..Len(t) : t[i] = queue[i + 1]
    BY TailFacts
  <2> QED
    BY <2>1, TailFacts, LenProperties, EmptySeq
<1> HIDE DEF t
<1>2. /\ \A i, j \in DOMAIN queue : Slot(queue[i]) = Slot(queue[j]) => i = j
      /\ \A y \in way : \A i \in DOMAIN queue : Slot(queue[i]) # Slot(y)
      /\ \A y, z \in way : Slot(y) = Slot(z) => y = z
  BY DEF Distinct
<1>3. ASSUME NEW i \in DOMAIN t
      PROVE  i + 1 \in DOMAIN queue /\ t[i] = queue[i + 1] /\ i + 1 # 1
  BY <1>1
<1>4. ASSUME NEW i \in DOMAIN t, NEW j \in DOMAIN t, Slot(t[i]) = Slot(t[j]) PROVE i = j
  <2>1. i + 1 = j + 1
    BY <1>2, <1>3, <1>4
  <2> QED
    BY <2>1, <1>1
<1>5. Distinct(t, way)
  BY <1>2, <1>3, <1>4 DEF Distinct
<1>6. ASSUME NEW i \in DOMAIN t PROVE Slot(t[i]) # Slot(Head(queue))
  <2>1. 1 \in DOMAIN queue
    BY <1>1
  <2> QED
    BY <2>1, <1>1, <1>2, <1>3
<1>7. \A y \in way : Slot(y) # Slot(Head(queue))
  <2>1. 1 \in DOMAIN queue
    BY <1>1
  <2> QED
    BY <2>1, <1>1, <1>2
<1> QED
  BY <1>5, <1>6, <1>7 DEF t, Range

(* A queue has slots for an announcement, a question and an answer of each *)
(* node, but for an answer of its own engine.                              *)
MostWaiting == 3 * Cardinality(Node) - 1

LEMMA DistinctLen ==
  ASSUME IsFiniteSet(Node), NEW n \in Node, NEW queue \in Seq(Message), NEW way,
         Distinct(queue, way),
         \A y \in Range(queue) : FromEngine(y) /\ (y.type = "Reply" => y.from # n)
  PROVE  Len(queue) =< MostWaiting
<1> DEFINE kinds == {"Announce", "Probe", "Reply"}
           slots == (Node \X kinds) \ {<<n, "Reply">>}
           f == [i \in 1..Len(queue) |-> Slot(queue[i])]
<1>1. Len(queue) \in Nat /\ DOMAIN queue = 1..Len(queue)
  BY LenProperties
<1>2. IsFiniteSet(kinds) /\ Cardinality(kinds) = 3
  <2> DEFINE one == {"Announce"}
             two == one \cup {"Probe"}
  <2>1. IsFiniteSet(one) /\ Cardinality(one) = 1
    BY FS_Singleton
  <2>2. "Probe" \notin one /\ "Reply" \notin two /\ kinds = two \cup {"Reply"}
    OBVIOUS
  <2> HIDE DEF one, kinds
  <2>3. IsFiniteSet(two) /\ Cardinality(two) = 2
    BY <2>1, <2>2, FS_AddElement
  <2> HIDE DEF two
  <2> QED
    BY <2>2, <2>3, FS_AddElement
<1>3. ASSUME NEW i \in 1..Len(queue) PROVE Slot(queue[i]) \in slots
  <2>1. FromEngine(queue[i]) /\ (queue[i].type = "Reply" => queue[i].from # n)
    BY <1>1 DEF Range
  <2> QED
    BY <2>1 DEF Slot, FromEngine
<1>4. IsFiniteSet(slots) /\ Cardinality(slots) = Cardinality(Node) * Cardinality(kinds) - 1
  <2>1. <<n, "Reply">> \in Node \X kinds
    OBVIOUS
  <2> HIDE DEF kinds
  <2>2. IsFiniteSet(Node \X kinds) /\ Cardinality(Node \X kinds) = Cardinality(Node) * Cardinality(kinds)
    BY <1>2, FS_Product
  <2> QED
    BY <2>1, <2>2, FS_RemoveElement
<1>5. Cardinality(Node) \in Nat
  BY FS_CardinalityType
<1> HIDE DEF kinds, slots
<1>6. f \in Injection(1..Len(queue), slots)
  BY <1>1, <1>3 DEF Injection, IsInjective, Distinct
<1> HIDE DEF f
<1>7. Cardinality(1..Len(queue)) =< Cardinality(slots)
  BY <1>4, <1>6, FS_Injection
<1>8. Cardinality(1..Len(queue)) = Len(queue)
  <2>1. Cardinality(1..Len(queue)) = IF 1 > Len(queue) THEN 0 ELSE Len(queue) - 1 + 1
    BY <1>1, FS_Interval
  <2> QED
    BY <1>1, <2>1
<1>9. Cardinality(Node) * 3 = 3 * Cardinality(Node)
  BY <1>5
<1> QED
  BY <1>1, <1>2, <1>4, <1>5, <1>7, <1>8, <1>9 DEF MostWaiting

(* What is under way to n. *)
Way(n) == {x \in Message : [to |-> n, msg |-> x] \in net}

OneEach == \A n \in Node : Distinct(inbox[n], Way(n))

(* An answer that waits is somebody else's, and the question it answers    *)
(* waits for the one who gave it no more.                                  *)
OneExchange ==
  \A n, m \in Node, x \in Message :
    Waits(n, x) /\ x.type = "Reply" /\ x.from = m =>
      /\ m # n
      /\ \A y \in Message : Waits(m, y) /\ y.type = "Probe" => y.from # n

LEMMA WaitsWhere ==
  ASSUME TypedInv, NEW n \in Node, NEW x
  PROVE  Waits(n, x) <=> x \in Range(inbox[n]) \cup Way(n)
BY DEF Waits, Way, TypedInv, MailOK

LEMMA BroadcastUnique ==
  ASSUME TypedInv, OneEach, NEW n \in Node, NEW msg \in Message, Broadcast(n, msg),
         \A k \in Node, y \in Message : Waits(k, y) => Slot(y) # Slot(msg)
  PROVE  OneEach'
<1> DEFINE heard == Receivers(n, Config[n].broadcast_host, Config[n].broadcast_port)
<1>1. /\ net' = net \cup {[to |-> m, msg |-> msg] : m \in heard \ {n}}
      /\ \A k \in Node \ {n} : inbox'[k] = inbox[k]
      /\ inbox'[n] = inbox[n] \/ inbox'[n] = Append(inbox[n], msg)
  BY TypedIsTypeOK, BroadcastFacts
<1>2. heard \subseteq Node
  BY ReceiversRun, RunningNodes, TypedIsTypeOK
<1> HIDE DEF heard
<1> SUFFICES ASSUME NEW k \in Node PROVE Distinct(inbox'[k], Way(k)')
  BY DEF OneEach
<1>3. /\ Distinct(inbox[k], Way(k))
      /\ inbox[k] \in Seq(Message)
  BY DEF OneEach, TypedInv, MailOK
<1>4. \A y \in Range(inbox[k]) \cup Way(k) : Slot(y) # Slot(msg)
  BY WaitsWhere, WaitsIsWaiting
<1>5. Distinct(Append(inbox[k], msg), Way(k)) /\ Distinct(inbox[k], Way(k) \cup {msg})
  BY <1>3, <1>4, DistinctAppend
<1>6. CASE k = n
  <2>1. Way(k)' = Way(k)
    BY <1>1, <1>6 DEF Way
  <2> QED
    BY <1>1, <1>3, <1>5, <1>6, <2>1
<1>7. CASE k # n
  <2>1. Way(k)' = Way(k) \cup {msg} \/ Way(k)' = Way(k)
    BY <1>1, <1>2, <1>7 DEF Way
  <2> QED
    BY <1>1, <1>3, <1>5, <1>7, <2>1
<1> QED
  BY <1>6, <1>7

LEMMA TakenUnique ==
  ASSUME TypedInv, OneEach, NEW n \in Node, inbox[n] # <<>>,
         inbox' = [inbox EXCEPT ![n] = Tail(@)], net' = net
  PROVE  OneEach'
<1>1. /\ \A k \in Node \ {n} : inbox'[k] = inbox[k]
      /\ inbox'[n] = Tail(inbox[n])
  BY TypedIsTypeOK, TakenFacts
<1> SUFFICES ASSUME NEW k \in Node PROVE Distinct(inbox'[k], Way(k)')
  BY DEF OneEach
<1>2. /\ Distinct(inbox[k], Way(k))
      /\ inbox[k] \in Seq(Message)
      /\ Way(k)' = Way(k)
  BY DEF OneEach, TypedInv, MailOK, Way
<1> QED
  BY <1>1, <1>2, DistinctTail

LEMMA DeliverUnique ==
  ASSUME TypedInv, OneEach, NEW p \in net, Deliver(p)
  PROVE  OneEach'
<1>1. p.to \in Node /\ p.msg \in Message /\ p = [to |-> p.to, msg |-> p.msg]
  BY DEF TypedInv, MailOK
<1>2. inbox' = Enqueued(p.to, p.msg) /\ net' = net \ {p}
  BY DEF Deliver
<1>3. /\ \A k \in Node \ {p.to} : inbox'[k] = inbox[k]
      /\ inbox'[p.to] = inbox[p.to] \/ inbox'[p.to] = Append(inbox[p.to], p.msg)
  BY <1>1, <1>2, EnqueuedFacts, TypedIsTypeOK
<1> SUFFICES ASSUME NEW k \in Node PROVE Distinct(inbox'[k], Way(k)')
  BY DEF OneEach
<1>4. /\ Distinct(inbox[k], Way(k))
      /\ inbox[k] \in Seq(Message)
  BY DEF OneEach, TypedInv, MailOK
<1>5. CASE k = p.to
  <2>1. p.msg \in Way(k) /\ Way(k)' = Way(k) \ {p.msg}
    BY <1>1, <1>2, <1>5 DEF Way
  <2>2. Distinct(Append(inbox[k], p.msg), Way(k) \ {p.msg}) /\ Distinct(inbox[k], Way(k) \ {p.msg})
    BY <1>1, <1>4, <2>1, DistinctArrives
  <2> QED
    BY <1>3, <1>5, <2>1, <2>2
<1>6. CASE k # p.to
  <2>1. Way(k)' = Way(k)
    BY <1>1, <1>2, <1>6 DEF Way
  <2> QED
    BY <1>3, <1>4, <1>6, <2>1
<1> QED
  BY <1>5, <1>6

(* A question is taken from the mail, and its answer goes to who asked.    *)
LEMMA HandleProbeUnique ==
  ASSUME OwnSockets, TypedInv, OneEach, OneExchange, NEW n \in Node, inbox[n] # <<>>,
         HandleProbe(n, Head(inbox[n])),
         Head(inbox[n]).from \in Running, Head(inbox[n]).from # n
  PROVE  OneEach' /\ OneExchange'
<1> DEFINE h == Head(inbox[n])
           p == h.from
           r == ReplyMessage(n)
           t == Tail(inbox[n])
<1>1. p \in Node /\ p # n
  BY RunningNodes, TypedIsTypeOK
<1>2. /\ net' = net \cup {[to |-> p, msg |-> r]}
      /\ \A k \in Node \ {n} : inbox'[k] = inbox[k]
      /\ inbox'[n] = t
  <2> DEFINE to == ReplyReceivers(p)
  <2>1. to = {p}
    BY OwnSocketReplies
  <2>2. /\ net' = net \cup {[to |-> m, msg |-> r] : m \in to \ {n}}
        /\ \A k \in Node \ {n} : inbox'[k] = inbox[k]
        /\ inbox'[n] = IF n \in to THEN Append(t, r) ELSE t
    BY TypedIsTypeOK, HandleProbeFacts
  <2> HIDE DEF to, h, r, t
  <2> QED
    BY <1>1, <2>1, <2>2
<1>3. r \in Message /\ r.type = "Reply" /\ r.from = n
  BY TypedIsTypeOK, MessagesTyped DEF ReplyMessage
<1>4. h \in Message /\ Waits(n, h) /\ h.type = "Probe"
  BY HeadWaits DEF HandleProbe
<1>5. /\ Distinct(t, Way(n))
      /\ \A y \in Range(t) \cup Way(n) : Slot(y) # Slot(h)
      /\ t \in Seq(Message)
      /\ Range(inbox[n]) = Range(t) \cup {h}
  BY DistinctTail, TailFacts DEF OneEach, TypedInv, MailOK
<1> HIDE DEF h, r, t
(* No other answer of n's waits for who asked. *)
<1>6. ASSUME NEW y \in Message, Waits(p, y), y.type = "Reply" PROVE y.from # n
  BY <1>1, <1>4, <1>6 DEF OneExchange, p
<1> HIDE DEF p
<1>7. OneEach'
  <2> SUFFICES ASSUME NEW k \in Node PROVE Distinct(inbox'[k], Way(k)')
    BY DEF OneEach
  <2>1. CASE k = n
    <3>1. Way(n)' = Way(n)
      BY <1>1, <1>2 DEF Way
    <3> QED
      BY <1>2, <1>5, <2>1, <3>1
  <2>2. CASE k # n
    <3>1. Distinct(inbox[k], Way(k)) /\ inbox[k] \in Seq(Message) /\ inbox'[k] = inbox[k]
      BY <1>2, <2>2 DEF OneEach, TypedInv, MailOK
    <3>2. CASE k # p
      <4>1. Way(k)' = Way(k)
        BY <1>2, <3>2 DEF Way
      <4> QED
        BY <3>1, <4>1
    <3>3. CASE k = p
      <4>1. Way(k)' = Way(k) \cup {r}
        BY <1>2, <1>3, <3>3 DEF Way
      <4>2. ASSUME NEW y \in Range(inbox[k]) \cup Way(k) PROVE Slot(y) # Slot(r)
        <5>1. y \in Message /\ Waits(k, y)
          BY WaitsWhere, WaitsIsWaiting
        <5>2. ~ (y.type = "Reply" /\ y.from = n)
          BY <1>6, <3>3, <5>1
        <5> QED
          BY <1>3, <5>2, SlotFacts
      <4>3. Distinct(inbox[k], Way(k) \cup {r})
        BY <1>3, <3>1, <4>2, DistinctAppend
      <4> QED
        BY <3>1, <4>1, <4>3
    <3> QED
      BY <3>2, <3>3
  <2> QED
    BY <2>1, <2>2
<1>8. ASSUME NEW k \in Node, NEW x \in Message, Waits(k, x)'
      PROVE  \/ k = p /\ x = r
             \/ Waits(k, x) /\ (k = n => x \in Range(t) \cup Way(n))
  <2>1. CASE k = n
    <3>1. x \in Range(t) \cup Way(n)
      BY <1>1, <1>2, <1>8, <2>1 DEF Waits, Way
    <3> QED
      BY <1>5, <2>1, <3>1, WaitsWhere
  <2>2. CASE k # n
    BY <1>2, <1>8, <2>2 DEF Waits
  <2> QED
    BY <2>1, <2>2
<1>9. OneExchange'
  <2> SUFFICES ASSUME NEW k \in Node, NEW m \in Node, NEW x \in Message,
                      Waits(k, x)', x.type = "Reply", x.from = m
               PROVE  /\ m # k
                      /\ \A y \in Message : Waits(m, y)' /\ y.type = "Probe" => y.from # k
    BY DEF OneExchange
  <2>1. \A y \in Message : Waits(m, y)' /\ y.type = "Probe" => Waits(m, y)
    BY <1>3, <1>8
  <2>2. CASE Waits(k, x)
    BY <2>1, <2>2 DEF OneExchange
  <2>3. CASE k = p /\ x = r
    <3>1. m = n
      BY <1>3, <2>3
    <3>2. ASSUME NEW y \in Message, Waits(n, y)', y.type = "Probe" PROVE y.from # p
      <4>1. y \in Range(t) \cup Way(n)
        BY <1>1, <1>8, <3>2
      <4> QED
        BY <1>4, <1>5, <3>2, <4>1, SlotFacts DEF p
    <3> QED
      BY <1>1, <2>3, <3>1, <3>2
  <2> QED
    BY <1>8, <2>2, <2>3
<1> QED
  BY <1>7, <1>9

-----------------------------------------------------------------------------
(* Owners who poll in time *)

(* How long a message waits in a queue: each that is before it costs a     *)
(* poll, which the owner may put off for MaxIdle.                          *)
LongestWait == MostWaiting * MaxIdle

(* The hypotheses: nobody stops, dies, or is sent messages that are lost   *)
(* or late; an announcement has been read when the next one is due; an     *)
(* owner probes again only when the question and the answer have had their *)
(* time; and a socket has room for all that may wait, and one more.        *)
OwnersInTime ==
  /\ IsFiniteSet(Node) /\ Node # {}
  /\ \A n \in Node : May[n] \subseteq {"probe"}
  /\ LongestWait < AnnounceInterval
  /\ 2 * LongestWait < ProbeGap
  /\ MostWaiting < MaxInbox

LEMMA Times ==
  ASSUME NEW a \in Nat, NEW b \in Nat, NEW c \in Nat, a =< b
  PROVE  a * c \in Nat /\ a * c =< b * c /\ (a + 1) * c = a * c + c
<1>1. PICK d \in Nat : b = a + d
  <2>1. b - a \in Nat /\ b = a + (b - a)
    OBVIOUS
  <2> QED
    BY <2>1
<1>2. a * c \in Nat /\ d * c \in Nat /\ (a + d) * c = a * c + d * c
  OBVIOUS
<1>3. (a + 1) * c = a * c + c
  OBVIOUS
<1> QED
  BY <1>1, <1>2, <1>3

LEMMA WaitFacts ==
  ASSUME OwnersInTime
  PROVE  MostWaiting \in Nat /\ LongestWait \in Nat
<1>1. Cardinality(Node) \in Nat \ {0} /\ MaxIdle \in Nat
  BY FS_CardinalityType, FS_EmptySet, NetworkConstants DEF OwnersInTime
<1>2. MostWaiting \in Nat
  BY <1>1 DEF MostWaiting
<1> QED
  BY <1>1, <1>2, Times DEF LongestWait

(* Until n's owner has read what is first in its queue. *)
Rest(n) ==
  IF call[n].pc = "idle" THEN MaxIdle - call[n].idle
  ELSE IF call[n].pc = "loop" /\ call[n].todo = 0 THEN MaxIdle
  ELSE 0

LEMMA RestFacts ==
  ASSUME CallsOK(call), NEW n \in Node
  PROVE  Rest(n) \in 0..MaxIdle
BY NetworkConstants DEF CallsOK, Calling, Rest

(* How old a message for n is.  An announcement and a question were sent   *)
(* when their sender last announced and last probed; an answer counts from *)
(* the last instant at which n's question can have been read.              *)
AgesOf(n, instants, gaps) ==
  [x \in Message |->
     CASE x.type = "Announce" -> Now - instants[x.from]
       [] x.type = "Probe"    -> ProbeGap - gaps[x.from]
       [] OTHER               -> ProbeGap - gaps[n] - LongestWait]

Ages(n) == AgesOf(n, announced, quiet)

LEMMA AgesOfFacts ==
  ASSUME OwnersInTime, NEW instants \in [Node -> 0..Now], NEW gaps \in [Node -> 0..ProbeGap],
         NEW n \in Node, NEW x \in Message, FromEngine(x)
  PROVE  LET age == AgesOf(n, instants, gaps)[x]
         IN  /\ x.type = "Announce" => age = Now - instants[x.from]
             /\ x.type = "Probe" => age = ProbeGap - gaps[x.from]
             /\ x.type = "Reply" => age = ProbeGap - gaps[n] - LongestWait
             /\ age \in Int
<1>1. x.from \in Node /\ x.type \in {"Announce", "Probe", "Reply"}
  BY DEF FromEngine
<1>2. instants[x.from] \in 0..Now /\ gaps[x.from] \in 0..ProbeGap /\ gaps[n] \in 0..ProbeGap
  BY <1>1
<1>3. Now \in Nat /\ ProbeGap \in Nat /\ LongestWait \in Nat
  BY NetworkConstants, WaitFacts
<1>4. CASE x.type = "Announce"
  BY <1>2, <1>3, <1>4 DEF AgesOf
<1>5. CASE x.type = "Probe"
  BY <1>2, <1>3, <1>5 DEF AgesOf
<1>6. CASE x.type = "Reply"
  BY <1>2, <1>3, <1>6 DEF AgesOf
<1> QED
  BY <1>1, <1>4, <1>5, <1>6

LEMMA AgesFacts ==
  ASSUME OwnersInTime, TypedInv, NEW n \in Node, NEW x \in Message, FromEngine(x)
  PROVE  /\ x.type = "Announce" => Ages(n)[x] = Now - announced[x.from]
         /\ x.type = "Probe" => Ages(n)[x] = ProbeGap - quiet[x.from]
         /\ x.type = "Reply" => Ages(n)[x] = ProbeGap - quiet[n] - LongestWait
         /\ Ages(n)[x] \in Int
BY AgesOfFacts DEF Ages, TypedInv

LEMMA AgesAfter ==
  ASSUME OwnersInTime, announced' \in [Node -> 0..Now], quiet' \in [Node -> 0..ProbeGap],
         NEW n \in Node, NEW x \in Message, FromEngine(x)
  PROVE  /\ x.type = "Announce" => Ages(n)'[x] = Now - announced'[x.from]
         /\ x.type = "Probe" => Ages(n)'[x] = ProbeGap - quiet'[x.from]
         /\ x.type = "Reply" => Ages(n)'[x] = ProbeGap - quiet'[n] - LongestWait
         /\ Ages(n)'[x] \in Int
<1>1. Ages(n)' = AgesOf(n, announced', quiet')
  BY DEF Ages, AgesOf, Now
<1> QED
  BY <1>1, AgesOfFacts

(* Every message of the queue will be read before it is too old. *)
InTime(queue, rest, age) ==
  \A i \in DOMAIN queue : age[queue[i]] + rest + (i - 1) * MaxIdle =< LongestWait

LEMMA InTimeAppend ==
  ASSUME OwnersInTime, NEW queue \in Seq(Message), NEW rest \in 0..MaxIdle, NEW age,
         InTime(queue, rest, age), NEW x \in Message, age[x] \in Int, age[x] =< 0,
         Len(queue) + 1 =< MostWaiting
  PROVE  InTime(Append(queue, x), rest, age)
<1> DEFINE new == Append(queue, x)
           last == Len(queue) + 1
<1>1. /\ Len(queue) \in Nat /\ DOMAIN queue = 1..Len(queue) /\ DOMAIN new = 1..last
      /\ \A i \in 1..Len(queue) : new[i] = queue[i]
      /\ new[last] = x
  BY AppendProperties, LenProperties
<1>2. Len(queue) * MaxIdle \in Nat /\ MaxIdle \in Nat /\ Len(queue) * MaxIdle + MaxIdle =< LongestWait
  <2>1. MaxIdle \in Nat /\ Len(queue) + 1 \in Nat /\ MostWaiting \in Nat
    BY <1>1, NetworkConstants, WaitFacts
  <2>2. (Len(queue) + 1) * MaxIdle =< MostWaiting * MaxIdle
    BY <2>1, Times
  <2>3. Len(queue) * MaxIdle \in Nat /\ (Len(queue) + 1) * MaxIdle = Len(queue) * MaxIdle + MaxIdle
    BY <1>1, <2>1, Times
  <2> QED
    BY <2>1, <2>2, <2>3 DEF LongestWait
<1> SUFFICES ASSUME NEW i \in DOMAIN new
             PROVE  age[new[i]] + rest + (i - 1) * MaxIdle =< LongestWait
  BY DEF InTime
<1> HIDE DEF new
<1>3. CASE i = last
  <2>1. new[i] = x /\ i - 1 = Len(queue)
    BY <1>1, <1>3
  <2>2. (i - 1) * MaxIdle = Len(queue) * MaxIdle
    BY <2>1
  <2> QED
    BY <1>2, <2>1, <2>2, WaitFacts
<1>4. CASE i # last
  <2>1. i \in DOMAIN queue /\ new[i] = queue[i]
    BY <1>1, <1>4
  <2> QED
    BY <2>1 DEF InTime
<1> QED
  BY <1>3, <1>4

LEMMA InTimeTail ==
  ASSUME OwnersInTime, NEW queue \in Seq(Message), queue # <<>>, NEW rest \in 0..MaxIdle,
         NEW age, InTime(queue, 0, age), \A y \in Range(queue) : age[y] \in Int
  PROVE  InTime(Tail(queue), rest, age)
<1> DEFINE t == Tail(queue)
<1>1. /\ Len(queue) \in Nat \ {0} /\ DOMAIN queue = 1..Len(queue) /\ DOMAIN t = 1..(Len(queue) - 1)
      /\ \A i \in 1..(Len(queue) - 1) : t[i] = queue[i + 1]
  <2>1. t \in Seq(Message) /\ Len(t) = Len(queue) - 1 /\ \A i \in 1..Len(t) : t[i] = queue[i + 1]
    BY TailFacts
  <2> QED
    BY <2>1, LenProperties, EmptySeq
<1> HIDE DEF t
<1> SUFFICES ASSUME NEW i \in DOMAIN t
             PROVE  age[t[i]] + rest + (i - 1) * MaxIdle =< LongestWait
  BY DEF InTime, t
<1>2. i + 1 \in DOMAIN queue /\ t[i] = queue[i + 1] /\ i - 1 \in Nat /\ (i + 1) - 1 = (i - 1) + 1
  BY <1>1
<1>3. age[t[i]] + 0 + ((i + 1) - 1) * MaxIdle =< LongestWait
  BY <1>2 DEF InTime
<1>4. (i - 1) * MaxIdle \in Nat /\ ((i - 1) + 1) * MaxIdle = (i - 1) * MaxIdle + MaxIdle /\ MaxIdle \in Nat
  <2> DEFINE j == i - 1
  <2>1. j \in Nat /\ MaxIdle \in Nat
    BY <1>2, NetworkConstants
  <2> HIDE DEF j
  <2>2. j * MaxIdle \in Nat /\ (j + 1) * MaxIdle = j * MaxIdle + MaxIdle
    BY ONLY <2>1, Times
  <2> QED
    BY <2>1, <2>2, Zenon DEF j
<1>5. age[t[i]] \in Int
  BY <1>2 DEF Range
<1> DEFINE old == age[t[i]]
           product == (i - 1) * MaxIdle
<1>6. ((i + 1) - 1) * MaxIdle = product + MaxIdle
  BY <1>2, <1>4
<1>7. old + 0 + (product + MaxIdle) =< LongestWait /\ product \in Nat /\ old \in Int
  BY <1>3, <1>4, <1>5, <1>6
<1> HIDE DEF old, product
<1>8. old + rest + product =< LongestWait
  BY <1>7, NetworkConstants, WaitFacts
<1> QED
  BY <1>8, Zenon DEF old, product

(* The ages that count stay, or all grow by one at most and there is as    *)
(* much less time to rest.                                                 *)
LEMMA InTimeLess ==
  ASSUME OwnersInTime, NEW queue \in Seq(Message), NEW rest \in 0..MaxIdle, NEW less \in 0..MaxIdle,
         NEW age, NEW later, InTime(queue, rest, age),
         \A y \in Range(queue) :
           age[y] \in Int /\ later[y] \in Int /\ later[y] + less =< age[y] + rest
  PROVE  InTime(queue, less, later)
<1> SUFFICES ASSUME NEW i \in DOMAIN queue
             PROVE  later[queue[i]] + less + (i - 1) * MaxIdle =< LongestWait
  BY DEF InTime
<1>1. queue[i] \in Range(queue) /\ i - 1 \in Nat
  BY LenProperties DEF Range
<1>2. (i - 1) * MaxIdle \in Nat /\ MaxIdle \in Nat /\ LongestWait \in Nat
  BY <1>1, NetworkConstants, Times, WaitFacts
<1>3. age[queue[i]] + rest + (i - 1) * MaxIdle =< LongestWait
  BY DEF InTime
<1> DEFINE old == age[queue[i]]
           new == later[queue[i]]
           product == (i - 1) * MaxIdle
<1>4. /\ old \in Int /\ new \in Int /\ product \in Nat
      /\ new + less =< old + rest
      /\ old + rest + product =< LongestWait
  BY <1>1, <1>2, <1>3
<1> HIDE DEF old, new, product
<1>5. new + less + product =< LongestWait
  <2>1. rest \in Nat /\ less \in Nat /\ LongestWait \in Nat
    BY <1>2
  <2> QED
    BY ONLY <1>4, <2>1
<1> QED
  BY <1>5, Zenon DEF new, product

(* What waits was sent by somebody who runs. *)
SendersRun == \A n \in Node, x \in Message : Waits(n, x) => x.from \in Running

(* What is under way was sent just now, an answer while it was in time. *)
JustSent == \A n \in Node : \A x \in Way(n) : Ages(n)[x] =< 0

ReadInTime == \A n \in Node : InTime(inbox[n], Rest(n), Ages(n))

(* Where no engine runs, there is no queue and no call. *)
OutOfUse == \A n \in Node \ Running : inbox[n] = <<>> /\ call[n].pc = "idle"

Timely == SendersRun /\ JustSent /\ ReadInTime /\ OutOfUse

QueueInv == TypedInv /\ HonestMail /\ OneEach /\ OneExchange /\ Timely

LEMMA QueueSenders ==
  ASSUME TypedInv, HonestMail, NEW n \in Node, NEW y \in Range(inbox[n])
  PROVE  Waits(n, y) /\ y \in Message /\ y.from \in Node /\ FromEngine(y)
<1>1. Waits(n, y)
  BY DEF Waits
<1>2. y \in Message
  BY <1>1, WaitsIsWaiting
<1> QED
  BY <1>1, <1>2 DEF HonestMail, FromEngine

LEMMA QueueLen ==
  ASSUME OwnersInTime, TypedInv, HonestMail, OneEach, OneExchange, NEW n \in Node
  PROVE  Len(inbox[n]) =< MostWaiting
<1>1. inbox[n] \in Seq(Message) /\ Distinct(inbox[n], Way(n))
  BY DEF OneEach, TypedInv, MailOK
<1>2. ASSUME NEW y \in Range(inbox[n]) PROVE FromEngine(y) /\ (y.type = "Reply" => y.from # n)
  BY QueueSenders DEF OneExchange
<1> QED
  BY <1>1, <1>2, DistinctLen DEF OwnersInTime

LEMMA QueueRoom ==
  ASSUME OwnersInTime, TypedInv, HonestMail, OneEach, OneExchange
  PROVE  QueuesDrain
<1> SUFFICES ASSUME NEW n \in Node PROVE Len(inbox[n]) < MaxInbox
  BY DEF QueuesDrain
<1>1. Len(inbox[n]) \in Nat /\ MaxInbox \in Nat /\ MostWaiting \in Nat
  BY LenProperties, NetworkConstants, WaitFacts DEF TypedInv, MailOK
<1> QED
  BY <1>1, QueueLen DEF OwnersInTime

(* Nothing that waits is older than the longest wait. *)
LEMMA AgeBound ==
  ASSUME OwnersInTime, QueueInv, NEW k \in Node, NEW x \in Message, Waits(k, x)
  PROVE  FromEngine(x) /\ Ages(k)[x] \in Int /\ Ages(k)[x] =< LongestWait
<1>1. FromEngine(x) /\ Ages(k)[x] \in Int
  BY AgesFacts DEF QueueInv, HonestMail
<1>2. x \in Way(k) \/ x \in Range(inbox[k])
  BY WaitsWhere DEF QueueInv
<1>3. CASE x \in Way(k)
  <2>1. Ages(k)[x] =< 0
    BY <1>3 DEF QueueInv, Timely, JustSent
  <2> QED
    BY <1>1, <2>1, WaitFacts
<1>4. CASE x \in Range(inbox[k])
  <2>1. PICK i \in DOMAIN inbox[k] : inbox[k][i] = x
    BY <1>4 DEF Range
  <2>2. i - 1 \in Nat
    BY <2>1, LenProperties DEF QueueInv, TypedInv, MailOK
  <2>3. Ages(k)[x] + Rest(k) + (i - 1) * MaxIdle =< LongestWait
    BY <2>1 DEF QueueInv, Timely, ReadInTime, InTime
  <2>4. Rest(k) \in Nat /\ (i - 1) * MaxIdle \in Nat
    BY <2>2, RestFacts, Times, NetworkConstants DEF QueueInv, TypedInv
  <2> DEFINE product == (i - 1) * MaxIdle
             rest == Rest(k)
             age == Ages(k)[x]
  <2>5. rest \in Nat /\ product \in Nat /\ age \in Int /\ age + rest + product =< LongestWait
    BY <1>1, <2>3, <2>4
  <2> HIDE DEF product, rest, age
  <2>6. age =< LongestWait
    BY <2>5, WaitFacts
  <2> QED
    BY <1>1, <2>6 DEF age
<1> QED
  BY <1>2, <1>3, <1>4

(* When an announcement is due, the last one has been read by everybody.   *)
LEMMA DueMeansRead ==
  ASSUME OwnersInTime, QueueInv, NEW n \in Node, AnnounceDue(n),
         NEW k \in Node, NEW x \in Message, Waits(k, x), x.type = "Announce"
  PROVE  x.from # n
<1> SUFFICES ASSUME x.from = n PROVE FALSE
  OBVIOUS
<1>1. announced[n] \in 0..Now /\ Now \in Nat /\ AnnounceInterval \in Nat /\ LongestWait \in Nat
  BY NetworkConstants, WaitFacts DEF QueueInv, TypedInv
<1>2. Now - announced[n] =< LongestWait
  BY AgeBound, AgesFacts DEF QueueInv
<1>3. Now - announced[n] >= AnnounceInterval
  BY <1>1, NetworkAssumption DEF AnnounceDue, IsValidTime, NoTime, Now
<1> QED
  BY <1>1, <1>2, <1>3 DEF OwnersInTime

(* When n's owner may probe again, nothing of its last probe waits.        *)
LEMMA QuietMeansRead ==
  ASSUME OwnersInTime, QueueInv, NEW n \in Node, quiet[n] = 0,
         NEW k \in Node, NEW x \in Message, Waits(k, x)
  PROVE  /\ ~ (x.type = "Probe" /\ x.from = n)
         /\ ~ (x.type = "Reply" /\ k = n)
<1>1. FromEngine(x) /\ Ages(k)[x] =< LongestWait
  BY AgeBound
<1>2. /\ x.type = "Probe" => Ages(k)[x] = ProbeGap - quiet[x.from]
      /\ x.type = "Reply" => Ages(k)[x] = ProbeGap - quiet[k] - LongestWait
  BY <1>1, AgesFacts DEF QueueInv
<1>3. ProbeGap \in Nat /\ LongestWait \in Nat /\ 2 * LongestWait < ProbeGap
  BY NetworkConstants, WaitFacts DEF OwnersInTime
<1>4. CASE x.type = "Probe" /\ x.from = n
  BY <1>1, <1>2, <1>3, <1>4
<1>5. CASE x.type = "Reply" /\ k = n
  BY <1>1, <1>2, <1>3, <1>5
<1> QED
  BY <1>4, <1>5

(* The mail of a broadcast that nothing like it precedes. *)
LEMMA AnnounceFreshSlot ==
  ASSUME OwnersInTime, QueueInv, NEW n \in Node, AnnounceDue(n),
         NEW k \in Node, NEW y \in Message, Waits(k, y)
  PROVE  Slot(y) # Slot(AnnounceMessage(n))
<1>1. AnnounceMessage(n).type = "Announce" /\ AnnounceMessage(n).from = n
  BY DEF AnnounceMessage
<1> QED
  BY <1>1, SlotFacts, DueMeansRead

LEMMA ProbeFreshSlot ==
  ASSUME OwnersInTime, QueueInv, NEW n \in Node, quiet[n] = 0,
         NEW k \in Node, NEW y \in Message, Waits(k, y)
  PROVE  Slot(y) # Slot(ProbeMessage(n))
<1>1. ProbeMessage(n).type = "Probe" /\ ProbeMessage(n).from = n
  BY DEF ProbeMessage
<1> QED
  BY <1>1, SlotFacts, QuietMeansRead

(* Where no message of a probe is new. *)
LEMMA ExchangeKept ==
  ASSUME OneExchange,
         \A k \in Node, x \in Message : Waits(k, x)' /\ x.type # "Announce" => Waits(k, x)
  PROVE  OneExchange'
BY DEF OneExchange

LEMMA StepUnique ==
  ASSUME OwnersInTime, OwnSockets, QueueInv, [Next]_vars
  PROVE  OneEach' /\ OneExchange'
<1>1. TypedInv /\ OneEach /\ OneExchange
  BY DEF QueueInv
<1>2. CASE UNCHANGED <<net, inbox>>
  <2>1. \A k \in Node : Way(k)' = Way(k) /\ \A x \in Message : Waits(k, x)' => Waits(k, x)
    BY <1>2 DEF Way, Waits
  <2> QED
    BY <1>1, <1>2, <2>1, ExchangeKept DEF OneEach
<1>3. ASSUME NEW n \in Node, ProbeNow(n) PROVE OneEach' /\ OneExchange'
  <2>1. /\ ProbeMessage(n) \in Message /\ ProbeMessage(n).type = "Probe" /\ ProbeMessage(n).from = n
        /\ Broadcast(n, ProbeMessage(n)) /\ quiet[n] = 0
    BY <1>1, <1>3, MessagesTyped, TypedIsTypeOK DEF ProbeNow, ProbeMessage
  <2>2. OneEach'
    BY <1>1, <2>1, BroadcastUnique, ProbeFreshSlot
  <2>3. \A k \in Node, x \in Message : Waits(k, x)' => Waits(k, x) \/ x = ProbeMessage(n)
    BY <1>1, <2>1, BroadcastMail
  <2>4. OneExchange'
    <3> SUFFICES ASSUME NEW k \in Node, NEW m \in Node, NEW x \in Message,
                        Waits(k, x)', x.type = "Reply", x.from = m
                 PROVE  /\ m # k
                        /\ \A y \in Message : Waits(m, y)' /\ y.type = "Probe" => y.from # k
      BY DEF OneExchange
    <3>1. Waits(k, x) /\ k # n
      BY <2>1, <2>3, QuietMeansRead
    <3>2. m # k /\ \A y \in Message : Waits(m, y) /\ y.type = "Probe" => y.from # k
      BY <1>1, <3>1 DEF OneExchange
    <3> QED
      BY <2>1, <2>3, <3>1, <3>2
  <2> QED
    BY <2>2, <2>4
<1>4. ASSUME NEW n \in Node, PollBegin(n), ~ UNCHANGED <<net, inbox>> PROVE OneEach' /\ OneExchange'
  <2>1. AnnounceDue(n) /\ Broadcast(n, AnnounceMessage(n)) /\ AnnounceMessage(n) \in Message
    BY <1>1, <1>4, MaybeAnnounceFacts, MessagesTyped, TypedIsTypeOK DEF PollBegin
  <2>2. OneEach'
    BY <1>1, <2>1, BroadcastUnique, AnnounceFreshSlot
  <2>3. \A k \in Node, x \in Message : Waits(k, x)' /\ x.type # "Announce" => Waits(k, x)
    BY <1>1, <2>1, BroadcastMail DEF AnnounceMessage
  <2> QED
    BY <1>1, <2>2, <2>3, ExchangeKept
<1>5. ASSUME NEW n \in Node, Recv(n) PROVE OneEach' /\ OneExchange'
  <2>1. inbox[n] # <<>>
    BY <1>5 DEF Recv
  <2>2. CASE HandleProbe(n, Head(inbox[n])) /\ Head(inbox[n]).from # n
    <3>1. Head(inbox[n]).from \in Running
      BY <1>1, <2>1, HeadWaits DEF QueueInv, Timely, SendersRun
    <3> QED
      BY <1>1, <2>1, <2>2, <3>1, HandleProbeUnique
  <2>3. CASE HandleEcho(n) \/ HandleAnnouncement(n, Head(inbox[n]))
    <3>1. inbox' = [inbox EXCEPT ![n] = Tail(@)] /\ net' = net
      BY <2>3 DEF HandleEcho, HandleAnnouncement
    <3> QED
      BY <1>1, <2>1, <3>1, TakenUnique, TakenMail, ExchangeKept
  <2> QED
    BY <1>5, <2>2, <2>3 DEF Recv
<1>6. ASSUME NEW p \in net, Deliver(p) PROVE OneEach' /\ OneExchange'
  BY <1>1, <1>6, DeliverUnique, DeliverMail, ExchangeKept
<1>7. ASSUME NEW n \in Node, Stop(n) \/ Crash(n) PROVE FALSE
  BY <1>7 DEF OwnersInTime, Stop, Crash
<1>8. ASSUME NEW p \in net, Lose(p) PROVE FALSE
  BY <1>1, <1>8 DEF OwnersInTime, Lose, TypedInv, MailOK
<1>9. ASSUME NEW n \in Node,
             Start(n) \/ (\E j \in 1..MaxBatch : PollMany(n, j)) \/ PollEnd(n) \/ RecvTimeout(n)
      PROVE  UNCHANGED <<net, inbox>>
  BY <1>9 DEF Start, PollMany, PollEnd, RecvTimeout
<1>10. Tick \/ UNCHANGED vars => UNCHANGED <<net, inbox>>
  BY DEF Tick, vars
<1> QED
  BY <1>2, <1>3, <1>4, <1>5, <1>6, <1>7, <1>8, <1>9, <1>10 DEF Next, Poll

-----------------------------------------------------------------------------
(* Every step keeps what waits in time. *)

LEMMA NothingQueued == DOMAIN <<>> = {} /\ Range(<<>>) = {}
BY DEF Range

LEMMA InitTimely == Init => OneEach /\ OneExchange /\ Timely
<1> SUFFICES ASSUME Init PROVE OneEach /\ OneExchange /\ Timely
  OBVIOUS
<1>1. /\ \A n \in Node : inbox[n] = <<>> /\ Way(n) = {} /\ call[n].pc = "idle"
      /\ \A n \in Node, x \in Message : ~ Waits(n, x)
  <2>1. net = {} /\ \A n \in Node : inbox[n] = <<>> /\ call[n] = NoCall
    BY DEF Init
  <2>2. \A n \in Node : Range(inbox[n]) = {}
    BY <2>1, NothingQueued
  <2> QED
    BY <2>1, <2>2 DEF Way, Waits, NoCall
<1>2. OneEach
  BY <1>1, NothingQueued DEF OneEach, Distinct
<1>3. OneExchange
  BY <1>1 DEF OneExchange
<1>4. SendersRun /\ JustSent
  BY <1>1 DEF SendersRun, JustSent
<1>5. ReadInTime
  BY <1>1, NothingQueued DEF ReadInTime, InTime
<1>6. OutOfUse
  BY <1>1 DEF OutOfUse
<1> QED
  BY <1>2, <1>3, <1>4, <1>5, <1>6 DEF Timely

LEMMA CallersRun ==
  ASSUME QueueInv, NEW n \in Node, call[n].pc # "idle"
  PROVE  n \in Running
BY DEF QueueInv, Timely, OutOfUse

(* A message that finds its slot free comes in time, too: at worst it is   *)
(* the last of all that may wait.                                          *)
LEMMA ArrivalInTime ==
  ASSUME OwnersInTime, NEW n \in Node, NEW queue \in Seq(Message), NEW x \in Message, NEW way,
         Distinct(Append(queue, x), way),
         \A y \in Range(queue) \cup {x} : FromEngine(y) /\ (y.type = "Reply" => y.from # n),
         NEW rest \in 0..MaxIdle, NEW age, InTime(queue, rest, age), age[x] \in Int, age[x] =< 0
  PROVE  InTime(Append(queue, x), rest, age)
<1> DEFINE new == Append(queue, x)
<1>1. new \in Seq(Message) /\ Len(new) = Len(queue) + 1 /\ Range(new) = Range(queue) \cup {x}
  BY AppendFacts
<1> HIDE DEF new
<1>2. /\ Distinct(new, way)
      /\ \A y \in Range(new) : FromEngine(y) /\ (y.type = "Reply" => y.from # n)
  BY <1>1 DEF new
<1>3. Len(new) =< MostWaiting
  BY <1>1, <1>2, DistinctLen DEF OwnersInTime
<1> QED
  BY <1>1, <1>3, InTimeAppend

(* Nobody leaves, so that what waits for and from those who run stays so.  *)
LEMMA StaysTimely ==
  ASSUME QueueInv, UNCHANGED <<net, inbox, announced, quiet>>, Running \subseteq Running',
         NEW n \in Node, n \in Running' \/ call'[n].pc = "idle",
         \A k \in Node \ {n} : call'[k] = call[k],
         InTime(inbox[n], Rest(n)', Ages(n))
  PROVE  Timely'
<1>1. /\ \A k \in Node, x \in Message : Waits(k, x)' <=> Waits(k, x)
      /\ \A k \in Node : Way(k)' = Way(k) /\ Ages(k)' = Ages(k)
  BY DEF Waits, Way, Ages, AgesOf, Now
<1>2. SendersRun' /\ JustSent'
  BY <1>1 DEF QueueInv, Timely, SendersRun, JustSent
<1>3. ReadInTime'
  <2> SUFFICES ASSUME NEW k \in Node PROVE InTime(inbox'[k], Rest(k)', Ages(k)')
    BY DEF ReadInTime
  <2>1. CASE k = n
    BY <1>1, <2>1
  <2>2. CASE k # n
    <3>1. Rest(k)' = Rest(k)
      BY <2>2 DEF Rest
    <3> QED
      BY <1>1, <3>1 DEF QueueInv, Timely, ReadInTime
  <2> QED
    BY <2>1, <2>2
<1>4. OutOfUse'
  BY DEF QueueInv, Timely, OutOfUse
<1> QED
  BY <1>2, <1>3, <1>4 DEF Timely

LEMMA StartTimely ==
  ASSUME OwnersInTime, QueueInv, NEW n \in Node, Start(n)
  PROVE  Timely'
<1>1. Running' = Running \cup {n} /\ n \notin Running
  BY OrderAppend DEF QueueInv, TypedInv, OrderOK, Start, Running
<1>2. /\ UNCHANGED <<net, inbox, quiet>>
      /\ announced' \in [Node -> 0..Now] /\ quiet' \in [Node -> 0..ProbeGap]
      /\ \A k \in Node \ {n} : announced'[k] = announced[k] /\ call'[k] = call[k]
      /\ call'[n].pc = "idle"
  BY NetworkConstants DEF Start, QueueInv, TypedInv, CallsOK, NoCall, NoTime
<1>3. /\ \A k \in Node, x \in Message : Waits(k, x)' <=> Waits(k, x)
      /\ \A k \in Node : Way(k)' = Way(k)
  BY <1>2 DEF Waits, Way
<1>4. \A k \in Node, x \in Message : Waits(k, x) => x.from \in Running /\ FromEngine(x) /\ x.from # n
  BY <1>1 DEF QueueInv, Timely, SendersRun, HonestMail
<1>5. SendersRun'
  BY <1>1, <1>3, <1>4 DEF SendersRun
(* What waits is not n's. *)
<1>6. ASSUME NEW k \in Node, NEW x \in Message, Waits(k, x) PROVE Ages(k)'[x] = Ages(k)[x]
  <2>1. FromEngine(x) /\ x.from # n /\ x.from \in Node
    BY <1>4, <1>6 DEF FromEngine
  <2> QED
    BY <1>2, <2>1, AgesFacts, AgesAfter DEF QueueInv, FromEngine
<1>7. JustSent'
  <2> SUFFICES ASSUME NEW k \in Node, NEW x \in Way(k) PROVE Ages(k)'[x] =< 0
    BY <1>3 DEF JustSent
  <2>1. x \in Message /\ Waits(k, x)
    BY WaitsWhere, WaitsIsWaiting DEF QueueInv
  <2> QED
    BY <1>6, <2>1 DEF QueueInv, Timely, JustSent
<1>8. ReadInTime'
  <2> SUFFICES ASSUME NEW k \in Node PROVE InTime(inbox[k], Rest(k)', Ages(k)')
    BY <1>2 DEF ReadInTime
  <2>1. CASE k = n
    BY <1>1, <2>1, NothingQueued DEF QueueInv, Timely, OutOfUse, InTime
  <2>2. CASE k # n
    <3>1. Rest(k)' = Rest(k) /\ InTime(inbox[k], Rest(k), Ages(k))
      BY <1>2, <2>2 DEF Rest, QueueInv, Timely, ReadInTime
    <3>2. ASSUME NEW i \in DOMAIN inbox[k] PROVE Ages(k)'[inbox[k][i]] = Ages(k)[inbox[k][i]]
      <4>1. inbox[k][i] \in Range(inbox[k])
        BY DEF Range
      <4>2. inbox[k][i] \in Message /\ Waits(k, inbox[k][i])
        BY <4>1, QueueSenders DEF QueueInv
      <4> QED
        BY <1>6, <4>2
    <3> QED
      BY <3>1, <3>2 DEF InTime
  <2> QED
    BY <2>1, <2>2
<1>9. OutOfUse'
  BY <1>1, <1>2 DEF QueueInv, Timely, OutOfUse
<1> QED
  BY <1>5, <1>7, <1>8, <1>9 DEF Timely

(* A broadcast that nothing like it precedes, and that makes nothing that  *)
(* waits older.                                                            *)
LEMMA BroadcastTimely ==
  ASSUME OwnersInTime, QueueInv, OneEach', NEW n \in Running, NEW msg \in Message,
         FromEngine(msg), msg.from = n, msg.type # "Reply", Broadcast(n, msg), UNCHANGED order,
         announced' \in [Node -> 0..Now], quiet' \in [Node -> 0..ProbeGap],
         \A k \in Node : Rest(k)' = Rest(k) /\ (k \notin Running => call'[k].pc = "idle"),
         \A k \in Node : Ages(k)'[msg] = 0,
         \A k \in Node, x \in Message : Waits(k, x) => Ages(k)'[x] = Ages(k)[x]
  PROVE  Timely'
<1>1. TypedInv /\ TypeOK /\ Running' = Running /\ n \in Node
  BY TypedIsTypeOK, RunningNodes DEF QueueInv, Running
<1>2. \A k \in Node, x \in Message : Waits(k, x)' => Waits(k, x) \/ x = msg
  BY <1>1, BroadcastMail
<1>3. /\ \A k \in Node \ {n} : inbox'[k] = inbox[k]
      /\ inbox'[n] = inbox[n] \/ inbox'[n] = Append(inbox[n], msg)
      /\ \A p \in net' : p \in net \/ p.msg = msg
  BY <1>1, BroadcastFacts
<1>4. SendersRun'
  BY <1>1, <1>2 DEF QueueInv, Timely, SendersRun
<1>5. JustSent'
  <2> SUFFICES ASSUME NEW k \in Node, NEW x \in Way(k)' PROVE Ages(k)'[x] =< 0
    BY DEF JustSent
  <2>1. x \in Message /\ (x = msg \/ x \in Way(k))
    BY <1>3 DEF Way
  <2>2. CASE x = msg
    BY <2>2
  <2>3. CASE x \in Way(k)
    <3>1. Waits(k, x) /\ Ages(k)[x] =< 0
      BY <1>1, <2>1, <2>3, WaitsWhere DEF QueueInv, Timely, JustSent
    <3> QED
      BY <2>1, <3>1
  <2> QED
    BY <2>1, <2>2, <2>3
<1>6. ASSUME NEW k \in Node PROVE InTime(inbox[k], Rest(k), Ages(k)')
  <2>1. InTime(inbox[k], Rest(k), Ages(k))
    BY DEF QueueInv, Timely, ReadInTime
  <2>2. ASSUME NEW i \in DOMAIN inbox[k] PROVE Ages(k)'[inbox[k][i]] = Ages(k)[inbox[k][i]]
    <3>1. inbox[k][i] \in Range(inbox[k])
      BY DEF Range
    <3>2. inbox[k][i] \in Message /\ Waits(k, inbox[k][i])
      BY <3>1, QueueSenders DEF QueueInv
    <3> QED
      BY <3>2
  <2> QED
    BY <2>1, <2>2 DEF InTime
<1>7. ReadInTime'
  <2> SUFFICES ASSUME NEW k \in Node PROVE InTime(inbox'[k], Rest(k)', Ages(k)')
    BY DEF ReadInTime
  <2>1. CASE inbox'[k] = inbox[k]
    BY <1>6, <2>1
  <2>2. CASE k = n /\ inbox'[n] = Append(inbox[n], msg)
    <3> DEFINE later == Ages(n)'
               rest == Rest(n)
               way == Way(n)'
    <3>1. inbox[n] \in Seq(Message) /\ Distinct(Append(inbox[n], msg), way)
      BY <1>1, <2>2 DEF OneEach, TypedInv, MailOK
    <3>2. \A y \in Range(inbox[n]) \cup {msg} : FromEngine(y) /\ (y.type = "Reply" => y.from # n)
      BY <1>1, QueueSenders DEF QueueInv, OneExchange
    <3>3. /\ InTime(inbox[n], rest, later) /\ rest \in 0..MaxIdle
          /\ later[msg] \in Int /\ later[msg] =< 0
      BY <1>1, <1>6, RestFacts DEF TypedInv
    <3> HIDE DEF later, rest, way
    <3>4. InTime(Append(inbox[n], msg), rest, later)
      BY <1>1, <3>1, <3>2, <3>3, ArrivalInTime
    <3> QED
      BY <2>2, <3>4 DEF later, rest
  <2> QED
    BY <1>3, <2>1, <2>2
<1>8. OutOfUse'
  BY <1>1, <1>3 DEF QueueInv, Timely, OutOfUse
<1> QED
  BY <1>4, <1>5, <1>7, <1>8 DEF Timely

LEMMA ProbeNowTimely ==
  ASSUME OwnersInTime, QueueInv, OneEach', NEW n \in Node, ProbeNow(n)
  PROVE  Timely'
<1> DEFINE msg == ProbeMessage(n)
<1>1. msg \in Message /\ msg.type = "Probe" /\ msg.from = n /\ FromEngine(msg)
  BY MessagesTyped, MessagesHonest, TypedIsTypeOK DEF QueueInv, ProbeMessage
<1>2. /\ Broadcast(n, msg) /\ n \in Running /\ quiet[n] = 0
      /\ UNCHANGED <<order, announced, call>>
      /\ quiet' = [quiet EXCEPT ![n] = ProbeGap]
  BY DEF ProbeNow, engineVars
<1> HIDE DEF msg
<1>3. /\ TypedInv /\ announced' \in [Node -> 0..Now] /\ quiet' \in [Node -> 0..ProbeGap]
      /\ quiet'[n] = ProbeGap /\ \A k \in Node \ {n} : quiet'[k] = quiet[k]
  BY <1>2, NetworkConstants DEF QueueInv, TypedInv
<1>4. \A k \in Node : Rest(k)' = Rest(k) /\ (k \notin Running => call'[k].pc = "idle")
  BY <1>2 DEF Rest, QueueInv, Timely, OutOfUse
<1>5. \A k \in Node : Ages(k)'[msg] = 0
  BY <1>1, <1>3, AgesAfter, NetworkConstants
(* Nothing of n's last exchange waits. *)
<1>6. ASSUME NEW k \in Node, NEW x \in Message, Waits(k, x) PROVE Ages(k)'[x] = Ages(k)[x]
  <2>1. FromEngine(x) /\ ~ (x.type = "Probe" /\ x.from = n) /\ ~ (x.type = "Reply" /\ k = n)
    BY <1>2, <1>6, QuietMeansRead DEF QueueInv, HonestMail
  <2>2. x.type = "Probe" => quiet'[x.from] = quiet[x.from]
    BY <1>3, <2>1 DEF FromEngine
  <2>3. x.type = "Reply" => quiet'[k] = quiet[k]
    BY <1>3, <2>1
  <2> QED
    BY <1>2, <1>3, <2>1, <2>2, <2>3, AgesFacts, AgesAfter DEF FromEngine
<1> QED
  BY <1>1, <1>2, <1>3, <1>4, <1>5, <1>6, BroadcastTimely

LEMMA PollBeginTimely ==
  ASSUME OwnersInTime, QueueInv, OneEach', NEW n \in Node, PollBegin(n)
  PROVE  Timely'
<1>1. TypedInv /\ TypeOK /\ UNCHANGED <<order, quiet>> /\ call[n].pc = "loop" /\ call[n].todo > 0
  BY TypedIsTypeOK DEF QueueInv, PollBegin
<1>2. Running' = Running /\ n \in Running
  BY <1>1, CallersRun DEF Running
<1>3. call'[n].pc = "recv" /\ \A k \in Node \ {n} : call'[k] = call[k]
  BY <1>1, ReceiveCall DEF PollBegin
<1>4. Rest(n) = 0 /\ \A k \in Node : Rest(k)' = Rest(k) /\ Rest(k) \in 0..MaxIdle
  <2>1. Rest(n) = 0 /\ Rest(n)' = 0
    BY <1>1, <1>3 DEF Rest, TypedInv, CallsOK, Calling
  <2>2. \A k \in Node \ {n} : Rest(k)' = Rest(k)
    BY <1>3 DEF Rest
  <2> QED
    BY <1>1, <2>1, <2>2, RestFacts DEF TypedInv
<1>5. CASE UNCHANGED <<net, inbox, announced>>
  <2>1. InTime(inbox[n], Rest(n)', Ages(n))
    BY <1>4 DEF QueueInv, Timely, ReadInTime
  <2> QED
    BY <1>1, <1>2, <1>3, <1>5, <2>1, StaysTimely
<1>6. CASE ~ UNCHANGED <<net, inbox, announced>>
  <2> DEFINE msg == AnnounceMessage(n)
  <2>1. /\ AnnounceDue(n) /\ Broadcast(n, msg) /\ announced'[n] = Now
        /\ announced' \in [Node -> 0..Now]
        /\ \A k \in Node \ {n} : announced'[k] = announced[k]
    BY <1>1, <1>6, MaybeAnnounceFacts DEF PollBegin
  <2>2. msg \in Message /\ msg.type = "Announce" /\ msg.from = n /\ FromEngine(msg)
    BY <1>1, MessagesTyped, MessagesHonest DEF AnnounceMessage
  <2> HIDE DEF msg
  <2>3. quiet' \in [Node -> 0..ProbeGap]
    BY <1>1 DEF TypedInv
  <2>4. \A k \in Node : k \notin Running => call'[k].pc = "idle"
    BY <1>2, <1>3 DEF QueueInv, Timely, OutOfUse
  <2>5. \A k \in Node : Ages(k)'[msg] = 0
    BY <2>1, <2>2, <2>3, AgesAfter, NetworkConstants
  (* What waits already is no announcement of n's. *)
  <2>6. ASSUME NEW k \in Node, NEW x \in Message, Waits(k, x) PROVE Ages(k)'[x] = Ages(k)[x]
    <3>1. FromEngine(x) /\ ~ (x.type = "Announce" /\ x.from = n)
      BY <2>1, <2>6, DueMeansRead DEF QueueInv, HonestMail
    <3>2. x.type = "Announce" => announced'[x.from] = announced[x.from]
      BY <2>1, <3>1 DEF FromEngine
    <3> QED
      BY <1>1, <2>1, <2>3, <3>1, <3>2, AgesFacts, AgesAfter DEF FromEngine
  <2> QED
    BY <1>1, <1>2, <1>4, <2>1, <2>2, <2>3, <2>4, <2>5, <2>6, BroadcastTimely
<1> QED
  BY <1>5, <1>6

(* A receive ends with one message less to read, and at worst leaves its   *)
(* owner MaxIdle before it reads the next.  A question read in time is     *)
(* answered in time.                                                       *)
LEMMA RecvTimely ==
  ASSUME OwnersInTime, OwnSockets, QueueInv, NEW n \in Node, Recv(n)
  PROVE  Timely'
<1> DEFINE h == Head(inbox[n])
           t == Tail(inbox[n])
           r == ReplyMessage(n)
<1>1. /\ TypedInv /\ TypeOK /\ CallsOK(call)
      /\ inbox[n] # <<>> /\ inbox[n] \in Seq(Message) /\ call[n].pc = "recv"
      /\ UNCHANGED <<order, life, announced, quiet, asked>>
  BY TypedIsTypeOK DEF QueueInv, TypedInv, MailOK, Recv
<1>2. Running' = Running /\ n \in Running
  BY <1>1, CallersRun DEF Running
<1>3. r \in Message /\ r.type = "Reply" /\ r.from = n /\ FromEngine(r)
  BY <1>1, MessagesTyped, MessagesHonest DEF ReplyMessage
<1>4. h \in Message /\ Waits(n, h) /\ h.from \in Running /\ FromEngine(h)
  BY <1>1, HeadWaits DEF QueueInv, Timely, SendersRun, HonestMail
<1>5. /\ CallsOK(call') /\ \A k \in Node \ {n} : call'[k] = call[k]
      /\ inbox'[n] = t /\ \A k \in Node \ {n} : inbox'[k] = inbox[k]
      /\ \A p \in net' : p \in net \/ (h.type = "Probe" /\ p.to = h.from /\ p.msg = r)
      /\ \A k \in Node, x \in Message : Waits(k, x)' => Waits(k, x) \/ x = r
  <2>1. CASE HandleEcho(n)
    <3>1. inbox' = [inbox EXCEPT ![n] = Tail(@)] /\ net' = net /\ Polled(n, FALSE)
      BY <2>1 DEF HandleEcho
    <3> QED
      BY <1>1, <3>1, PolledFacts, TakenFacts, TakenMail
  <2>2. CASE HandleAnnouncement(n, h)
    <3>1. inbox' = [inbox EXCEPT ![n] = Tail(@)] /\ net' = net /\ Polled(n, TRUE)
      BY <2>2 DEF HandleAnnouncement
    <3> QED
      BY <1>1, <3>1, PolledFacts, TakenFacts, TakenMail
  <2>3. CASE HandleProbe(n, h) /\ h.from # n
    <3>1. Polled(n, TRUE) /\ h.type = "Probe"
      BY <2>3 DEF HandleProbe
    <3>2. CallsOK(call') /\ \A k \in Node \ {n} : call'[k] = call[k]
      BY <1>1, <3>1, PolledFacts
    <3>3. /\ inbox'[n] = t /\ \A k \in Node \ {n} : inbox'[k] = inbox[k]
          /\ \A p \in net' : p \in net \/ (p.to = h.from /\ p.msg = r)
      <4> DEFINE to == ReplyReceivers(h.from)
                 asker == h.from
      <4>1. to = {asker} /\ asker # n
        BY <1>1, <1>4, <2>3, OwnSocketReplies
      <4>2. /\ net' = net \cup {[to |-> k, msg |-> r] : k \in to \ {n}}
            /\ \A k \in Node \ {n} : inbox'[k] = inbox[k]
            /\ inbox'[n] = IF n \in to THEN Append(t, r) ELSE t
        BY <1>1, <2>3, HandleProbeFacts
      <4> HIDE DEF to, t, r, asker
      <4>3. \A p \in net' : p \in net \/ (p.to = asker /\ p.msg = r)
        BY <4>1, <4>2
      <4> QED
        BY <4>1, <4>2, <4>3 DEF asker
    <3>4. \A k \in Node, x \in Message : Waits(k, x)' => Waits(k, x) \/ x = r
      <4> HIDE DEF h
      <4> QED
        BY <1>1, <2>3, HandleProbeMail
    <3> QED
      BY <3>1, <3>2, <3>3, <3>4
  <2> QED
    BY <2>1, <2>2, <2>3 DEF Recv
<1>6. t \in Seq(Message) /\ Range(t) \subseteq Range(inbox[n])
  BY <1>1, TailFacts
<1> HIDE DEF r, h
<1>7. \A k \in Node : Ages(k)' = Ages(k)
  BY <1>1 DEF Ages, AgesOf, Now
<1>8. SendersRun'
  BY <1>2, <1>3, <1>5 DEF QueueInv, Timely, SendersRun
<1>9. JustSent'
  <2> SUFFICES ASSUME NEW k \in Node, NEW x \in Way(k)' PROVE Ages(k)[x] =< 0
    BY <1>7 DEF JustSent
  <2>1. x \in Way(k) \/ (h.type = "Probe" /\ k = h.from /\ x = r)
    BY <1>5 DEF Way
  <2>2. CASE x \in Way(k)
    BY <2>2 DEF QueueInv, Timely, JustSent
  <2>3. CASE h.type = "Probe" /\ k = h.from /\ x = r
    <3>1. Ages(n)[h] =< LongestWait /\ Ages(n)[h] = ProbeGap - quiet[k]
      BY <1>1, <1>4, <2>3, AgeBound, AgesFacts
    <3>2. Ages(k)[x] = ProbeGap - quiet[k] - LongestWait
      BY <1>1, <1>3, <2>3, AgesFacts
    <3>3. quiet[k] \in 0..ProbeGap /\ ProbeGap \in Nat /\ LongestWait \in Nat
      BY <1>1, NetworkConstants, WaitFacts DEF TypedInv
    <3> QED
      BY <3>1, <3>2, <3>3
  <2> QED
    BY <2>1, <2>2, <2>3
<1>10. ReadInTime'
  <2> SUFFICES ASSUME NEW k \in Node PROVE InTime(inbox'[k], Rest(k)', Ages(k))
    BY <1>7 DEF ReadInTime
  <2>1. CASE k # n
    <3>1. Rest(k)' = Rest(k) /\ InTime(inbox[k], Rest(k), Ages(k))
      BY <1>5, <2>1 DEF Rest, QueueInv, Timely, ReadInTime
    <3> QED
      BY <1>5, <2>1, <3>1
  <2>2. CASE k = n
    <3> DEFINE rest == Rest(n)'
               age == Ages(n)
    <3>1. rest \in 0..MaxIdle
      BY <1>5, NetworkConstants DEF CallsOK, Calling, Rest
    <3>2. InTime(inbox[n], 0, age)
      BY <1>1 DEF Rest, QueueInv, Timely, ReadInTime
    <3>3. \A y \in Range(inbox[n]) : age[y] \in Int
      BY QueueSenders, AgesFacts DEF QueueInv
    <3> HIDE DEF rest, age
    <3>4. InTime(t, rest, age)
      BY <1>1, <3>1, <3>2, <3>3, InTimeTail
    <3> QED
      BY <1>5, <2>2, <3>4 DEF rest, age
  <2> QED
    BY <2>1, <2>2
<1>11. OutOfUse'
  BY <1>2, <1>5 DEF QueueInv, Timely, OutOfUse
<1> QED
  BY <1>8, <1>9, <1>10, <1>11 DEF Timely

LEMMA DeliverTimely ==
  ASSUME OwnersInTime, QueueInv, OneEach', NEW p \in net, Deliver(p)
  PROVE  Timely'
<1>1. p.to \in Node /\ p.msg \in Message /\ p = [to |-> p.to, msg |-> p.msg] /\ TypedInv
  BY DEF QueueInv, TypedInv, MailOK
<1>2. /\ inbox' = Enqueued(p.to, p.msg) /\ net' = net \ {p}
      /\ UNCHANGED <<order, announced, call, quiet>>
  BY DEF Deliver, engineVars
<1>3. /\ \A k \in Node \ {p.to} : inbox'[k] = inbox[k]
      /\ \/ inbox'[p.to] = inbox[p.to]
         \/ p.to \in Running /\ inbox'[p.to] = Append(inbox[p.to], p.msg)
  BY <1>1, <1>2, EnqueuedFacts, TypedIsTypeOK
<1>4. \A k \in Node, x \in Message : Waits(k, x)' => Waits(k, x)
  BY <1>1, DeliverMail
<1>5. p.msg \in Way(p.to) /\ Waits(p.to, p.msg)
  BY <1>1 DEF Way, Waits
<1>6. /\ FromEngine(p.msg) /\ (p.msg.type = "Reply" => p.msg.from # p.to)
      /\ Ages(p.to)[p.msg] \in Int /\ Ages(p.to)[p.msg] =< 0
  BY <1>1, <1>5, AgesFacts DEF QueueInv, HonestMail, FromEngine, OneExchange, Timely, JustSent
<1>7. \A k \in Node : Ages(k)' = Ages(k)
  BY <1>2 DEF Ages, AgesOf, Now
<1>8. SendersRun'
  BY <1>2, <1>4 DEF QueueInv, Timely, SendersRun, Running
<1>9. JustSent'
  BY <1>2, <1>7 DEF QueueInv, Timely, JustSent, Way
<1>10. ReadInTime'
  <2> SUFFICES ASSUME NEW k \in Node PROVE InTime(inbox'[k], Rest(k), Ages(k))
    BY <1>2, <1>7 DEF ReadInTime, Rest
  <2>1. InTime(inbox[k], Rest(k), Ages(k)) /\ Rest(k) \in 0..MaxIdle
    BY RestFacts DEF QueueInv, TypedInv, Timely, ReadInTime
  <2>2. CASE inbox'[k] = inbox[k]
    BY <2>1, <2>2
  <2>3. CASE k = p.to /\ inbox'[k] = Append(inbox[k], p.msg)
    <3> DEFINE age == Ages(k)
               rest == Rest(k)
               way == Way(k)'
               msg == p.msg
    <3>1. inbox[k] \in Seq(Message) /\ Distinct(Append(inbox[k], msg), way)
      BY <1>1, <2>3 DEF OneEach, TypedInv, MailOK
    <3>2. \A y \in Range(inbox[k]) \cup {msg} : FromEngine(y) /\ (y.type = "Reply" => y.from # k)
      BY <1>6, <2>3, QueueSenders DEF QueueInv, OneExchange
    <3>3. /\ InTime(inbox[k], rest, age) /\ rest \in 0..MaxIdle
          /\ age[msg] \in Int /\ age[msg] =< 0 /\ msg \in Message
      BY <1>1, <1>6, <2>1, <2>3
    <3> HIDE DEF age, rest, way, msg
    <3>4. InTime(Append(inbox[k], msg), rest, age)
      BY <3>1, <3>2, <3>3, ArrivalInTime
    <3> QED
      BY <2>3, <3>4 DEF rest, age, msg
  <2> QED
    BY <1>3, <2>2, <2>3
<1>11. OutOfUse'
  BY <1>1, <1>2, <1>3 DEF QueueInv, Timely, OutOfUse, Running
<1> QED
  BY <1>8, <1>9, <1>10, <1>11 DEF Timely

(* Time passes only when nothing is under way and every owner waits; then  *)
(* a queue that is not empty is one whose owner rests, and has one tick    *)
(* less left to rest.                                                      *)
LEMMA TickTimely ==
  ASSUME OwnersInTime, QueueInv, Tick
  PROVE  Timely'
<1>1. TypedInv /\ UNCHANGED <<order, inbox, net>>
  BY DEF QueueInv, Tick
<1>2. net = {}
  <2> SUFFICES ASSUME NEW p \in net PROVE FALSE
    OBVIOUS
  <2>1. p.to \in Node /\ "delay" \in May[p.to]
    BY <1>1 DEF Tick, MayTick, TypedInv, MailOK
  <2> QED
    BY <2>1 DEF OwnersInTime
<1>3. \A k \in Node, x \in Message : Waits(k, x)' <=> Waits(k, x)
  BY <1>1 DEF Waits
<1>4. SendersRun'
  BY <1>1, <1>3 DEF QueueInv, Timely, SendersRun, Running
<1>5. JustSent'
  BY <1>1, <1>2 DEF JustSent, Way
<1>6. /\ announced' \in [Node -> 0..Now] /\ quiet' \in [Node -> 0..ProbeGap]
      /\ \A n \in Node : /\ announced[n] \in 0..Now /\ announced'[n] \in 0..Now
                         /\ announced[n] =< announced'[n] + 1
      /\ \A n \in Node : /\ quiet[n] \in 0..ProbeGap /\ quiet'[n] \in 0..ProbeGap
                         /\ quiet[n] =< quiet'[n] + 1
  <2>1. ASSUME NEW n \in Node
        PROVE  announced[n] \in 0..Now /\ announced'[n] \in 0..Now /\ announced[n] =< announced'[n] + 1
    <3>1. announced[n] \in 0..Now /\ announced'[n] \in 0..Now /\ announced'[n] = Older(announced[n])
      BY <1>1, TickFacts DEF TypedInv
    <3> QED
      BY <3>1, NetworkConstants, OlderFacts
  <2> QED
    BY <1>1, <2>1, TickFacts DEF TypedInv
(* Nothing grows older by more than a tick. *)
<1>7. ASSUME NEW k \in Node, NEW x \in Message, FromEngine(x)
      PROVE  /\ Ages(k)[x] \in Int /\ Ages(k)'[x] \in Int
             /\ Ages(k)'[x] =< Ages(k)[x] + 1
  <2> DEFINE m == x.from
             age == Ages(k)[x]
             later == Ages(k)'[x]
  <2>1. m \in Node /\ x.type \in {"Announce", "Probe", "Reply"}
    BY <1>7 DEF FromEngine
  <2>2. /\ x.type = "Announce" => age = Now - announced[m]
        /\ x.type = "Probe" => age = ProbeGap - quiet[m]
        /\ x.type = "Reply" => age = ProbeGap - quiet[k] - LongestWait
        /\ age \in Int
    BY <1>1, <1>7, AgesFacts
  <2>3. /\ x.type = "Announce" => later = Now - announced'[m]
        /\ x.type = "Probe" => later = ProbeGap - quiet'[m]
        /\ x.type = "Reply" => later = ProbeGap - quiet'[k] - LongestWait
        /\ later \in Int
    BY <1>6, <1>7, AgesAfter
  <2>4. Now \in Nat /\ ProbeGap \in Nat /\ LongestWait \in Nat
    BY NetworkConstants, WaitFacts
  <2> HIDE DEF age, later, m
  <2>5. later =< age + 1
    BY <1>6, <2>1, <2>2, <2>3, <2>4
  <2> QED
    BY <2>2, <2>3, <2>5 DEF age, later
<1>8. ReadInTime'
  <2> SUFFICES ASSUME NEW k \in Node PROVE InTime(inbox[k], Rest(k)', Ages(k)')
    BY <1>1 DEF ReadInTime
  <2>1. InTime(inbox[k], Rest(k), Ages(k))
    BY DEF QueueInv, Timely, ReadInTime
  <2>2. CASE inbox[k] = <<>>
    BY <2>2, NothingQueued DEF InTime
  <2>3. CASE inbox[k] # <<>>
    <3>1. k \in Running /\ call[k].pc # "recv"
      BY <1>1, <2>3, TickCalls DEF QueueInv, Timely, OutOfUse
    <3>2. call[k].pc = "idle" /\ call'[k].pc = "idle" /\ call'[k].idle = call[k].idle + 1
      BY <1>1, <3>1, TickCalls
    <3>3. call[k] \in Calling /\ call'[k] \in Calling
      BY <1>1, TickCalls DEF TypedInv, CallsOK
    <3>4. Rest(k) = MaxIdle - call[k].idle /\ Rest(k)' = MaxIdle - (call[k].idle + 1)
      BY <3>2 DEF Rest
    <3>5. call[k].idle \in 0..MaxIdle /\ call[k].idle + 1 \in 0..MaxIdle /\ MaxIdle \in Nat
      BY <3>2, <3>3, NetworkConstants DEF Calling
    <3> DEFINE rest == Rest(k)
               less == Rest(k)'
               age == Ages(k)
               later == Ages(k)'
    <3>6. rest \in 0..MaxIdle /\ less \in 0..MaxIdle /\ less + 1 = rest
      BY <3>4, <3>5
    <3>7. \A y \in Range(inbox[k]) : age[y] \in Int /\ later[y] \in Int /\ later[y] =< age[y] + 1
      BY <1>7, QueueSenders DEF QueueInv
    <3>8. inbox[k] \in Seq(Message) /\ InTime(inbox[k], rest, age)
      BY <1>1, <2>1 DEF TypedInv, MailOK
    <3> HIDE DEF rest, less, age, later
    <3>9. \A y \in Range(inbox[k]) :
            age[y] \in Int /\ later[y] \in Int /\ later[y] + less =< age[y] + rest
      BY <3>6, <3>7, NetworkConstants
    <3>10. InTime(inbox[k], less, later)
      BY <3>6, <3>8, <3>9, InTimeLess
    <3> QED
      BY <3>10 DEF less, later
  <2> QED
    BY <2>2, <2>3
<1>9. OutOfUse'
  BY <1>1, TickCalls DEF QueueInv, Timely, OutOfUse, Running
<1> QED
  BY <1>4, <1>5, <1>8, <1>9 DEF Timely

LEMMA StepTimely ==
  ASSUME OwnersInTime, OwnSockets, QueueInv, OneEach', [Next]_vars
  PROVE  Timely'
<1>1. TypedInv /\ ReadInTime
  BY DEF QueueInv, Timely
<1>2. ASSUME NEW n \in Node, NEW k \in 1..MaxBatch, PollMany(n, k) PROVE Timely'
  <2>1. /\ UNCHANGED <<order, net, inbox, announced, quiet>> /\ n \in Running /\ call[n].pc = "idle"
        /\ call'[n] = [pc |-> "loop", todo |-> k, left |-> 0, idle |-> 0]
        /\ \A m \in Node \ {n} : call'[m] = call[m]
    BY <1>1, <1>2, PollManyTyped DEF PollMany
  <2>2. Rest(n) \in 0..MaxIdle /\ Rest(n)' = 0 /\ MaxIdle \in Nat
    BY <1>1, <2>1, RestFacts, NetworkConstants DEF Rest, TypedInv
  <2>3. InTime(inbox[n], 0, Ages(n))
    <3> DEFINE rest == Rest(n)
               age == Ages(n)
    <3>1. /\ InTime(inbox[n], rest, age) /\ rest \in 0..MaxIdle /\ inbox[n] \in Seq(Message)
          /\ \A y \in Range(inbox[n]) : age[y] \in Int
      BY <1>1, <2>2, QueueSenders, AgesFacts DEF QueueInv, ReadInTime, MailOK, TypedInv
    <3> HIDE DEF rest, age
    <3>2. \A y \in Range(inbox[n]) : age[y] \in Int /\ age[y] + 0 =< age[y] + rest
      BY <3>1, NetworkConstants
    <3>3. 0 \in 0..MaxIdle
      BY <2>2
    <3>4. InTime(inbox[n], 0, age)
      BY <3>1, <3>2, <3>3, InTimeLess
    <3> QED
      BY <3>4 DEF age
  <2>4. InTime(inbox[n], Rest(n)', Ages(n))
    BY <2>2, <2>3
  <2> QED
    BY <2>1, <2>4, StaysTimely DEF Running
<1>3. ASSUME NEW n \in Node, PollEnd(n) PROVE Timely'
  <2>1. /\ UNCHANGED <<order, net, inbox, announced, quiet>> /\ call[n].pc = "loop" /\ call[n].todo = 0
        /\ call'[n] = NoCall
        /\ \A m \in Node \ {n} : call'[m] = call[m]
    BY <1>1, <1>3 DEF PollEnd, TypedInv, CallsOK
  <2>2. Rest(n) = MaxIdle /\ Rest(n)' = MaxIdle
    BY <2>1, NetworkConstants DEF Rest, NoCall
  <2>3. n \in Running /\ InTime(inbox[n], Rest(n)', Ages(n))
    BY <1>1, <2>1, <2>2, CallersRun DEF ReadInTime
  <2> QED
    BY <2>1, <2>3, StaysTimely DEF Running
<1>4. ASSUME NEW n \in Node, RecvTimeout(n) PROVE Timely'
  <2>1. /\ UNCHANGED <<order, net, inbox, announced, quiet>> /\ call[n].pc = "recv" /\ inbox[n] = <<>>
        /\ \A m \in Node \ {n} : call'[m] = call[m]
    BY <1>1, <1>4, PolledFacts DEF RecvTimeout, TypedInv
  <2>2. n \in Running /\ InTime(inbox[n], Rest(n)', Ages(n))
    BY <2>1, CallersRun, NothingQueued DEF InTime
  <2> QED
    BY <2>1, <2>2, StaysTimely DEF Running
<1>5. ASSUME NEW n \in Node, Stop(n) \/ Crash(n) PROVE FALSE
  BY <1>5 DEF OwnersInTime, Stop, Crash
<1>6. ASSUME NEW p \in net, Lose(p) PROVE FALSE
  BY <1>1, <1>6 DEF OwnersInTime, Lose, TypedInv, MailOK
<1>7. CASE UNCHANGED vars
  BY <1>7 DEF vars, engineVars, QueueInv, Timely, SendersRun, JustSent, ReadInTime, OutOfUse,
     Running, Way, Waits, Rest, Now, InTime, Ages, AgesOf
<1> QED
  BY <1>2, <1>3, <1>4, <1>5, <1>6, <1>7, StartTimely, ProbeNowTimely, PollBeginTimely, RecvTimely,
     DeliverTimely, TickTimely DEF Next, Poll

LEMMA AlwaysInTime == ASSUME OwnersInTime, OwnSockets PROVE Spec => []QueueInv
<1>1. Init => QueueInv
  BY InitTyped, InitHonest, InitTimely DEF QueueInv
<1>2. QueueInv /\ [Next]_vars => QueueInv'
  BY StepTyped, StepHonest, StepUnique, StepTimely DEF QueueInv
<1> QED
  BY <1>1, <1>2, PTL DEF Spec

(* In every network whose owners poll in time and leave a gap between two  *)
(* probes of their own, no queue ever fills, however many nodes it has,    *)
(* whatever order they start and poll in, and however many of them probe   *)
(* at once: a socket needs room for an announcement and a question of each *)
(* node and an answer of each other one (poll_many, handle_probe,          *)
(* maybe_announce, probe_now).                                             *)
THEOREM QueuesAlwaysDrain ==
  ASSUME OwnersInTime, OwnSockets PROVE Spec => []QueuesDrain
<1>1. QueueInv => QueuesDrain
  BY QueueRoom DEF QueueInv
<1> QED
  BY <1>1, AlwaysInTime, PTL

(* There, too, every probe finds everyone who heard it, though others      *)
(* probe at the same time: that the queues have room need not be assumed   *)
(* (handle_probe, handle_reply).                                           *)
THEOREM ProbeFindsInTime ==
  ASSUME OwnersInTime, OwnSockets PROVE Spec => []ProbeFinds
<1>1. NothingLost
  BY DEF OwnersInTime, NothingLost
<1> QED
  BY <1>1, QueuesAlwaysDrain, ProbeAlwaysFinds, PTL

-----------------------------------------------------------------------------
(* Nobody is given up *)

(* Every broadcast reaches every node that runs. *)
EveryoneHears ==
  \A n, m \in Node :
    /\ Config[n].broadcast_host = "broadcast" /\ Config[n].enable_broadcast
    /\ Config[m].bind_host = "any" /\ Config[m].bind_port = Config[n].broadcast_port

(* The longest time between two announcements of a node: one that is not   *)
(* yet due when a poll begins waits for that poll's receive to time out,   *)
(* and for the owner to call again.                                        *)
LongestSilence == 2 * AnnounceInterval - 1 + MaxIdle

(* The stale window is longer than a silence and the wait in a queue.      *)
PatientPeers == LongestSilence + LongestWait < StaleAfter

LEMMA HearersRun ==
  ASSUME TypeOK, EveryoneHears, NEW n \in Node
  PROVE  /\ CanBroadcast(n)
         /\ Receivers(n, Config[n].broadcast_host, Config[n].broadcast_port) = Running
<1>1. CanBroadcast(n)
  BY DEF EveryoneHears, CanBroadcast
<1>2. Config[n].broadcast_host = "broadcast"
  BY DEF EveryoneHears
<1>3. Receivers(n, Config[n].broadcast_host, Config[n].broadcast_port)
        = {m \in Node : /\ Listening(m, Config[n].broadcast_port)
                        /\ Config[m].bind_host = "any"}
  BY <1>2 DEF Receivers
<1> QED
  BY <1>1, <1>3, RunningNodes DEF EveryoneHears, Listening

(* How far beyond that a call may be, wherever it is, and when the last    *)
(* announcement was at t.                                                  *)
Late(c) ==
  IF c.pc = "recv" THEN 0 - c.left
  ELSE IF c.pc = "idle" THEN c.idle
  ELSE IF c.todo = 0 THEN 0
  ELSE MaxIdle

OnTime(c, t) ==
  /\ c.pc = "recv" => IsValidTime(t)
  /\ IsValidTime(t) => Now - t =< 2 * AnnounceInterval - 1 + Late(c)

EachAnnounces == \A n \in Running : OnTime(call[n], announced[n])

LEMMA SilenceFacts ==
  ASSUME NEW c \in Calling, NEW t \in 0..Now, OnTime(c, t), IsValidTime(t)
  PROVE  Now - t =< LongestSilence
BY NetworkConstants DEF Calling, OnTime, Late, LongestSilence

LEMMA StepAnnounces ==
  ASSUME OwnersInTime, EveryoneHears, QueueInv, EachAnnounces, [Next]_vars
  PROVE  EachAnnounces'
<1> SUFFICES ASSUME NEW k \in Running' PROVE OnTime(call'[k], announced'[k])
  BY DEF EachAnnounces, OnTime, Late, Now
<1>1. /\ TypedInv /\ TypeOK /\ CallsOK(call) /\ Running \subseteq Node
      /\ \A n \in Node : call[n] \in Calling /\ announced[n] \in 0..Now
  BY TypedIsTypeOK, RunningNodes DEF QueueInv, TypedInv, CallsOK
<1>2. AnnounceInterval \in Nat \ {0} /\ MaxIdle \in Nat /\ Now \in Nat /\ IsValidTime(Now)
  BY NetworkConstants
<1>3. ASSUME k \in Running, call'[k] = call[k], announced'[k] = announced[k]
      PROVE  OnTime(call'[k], announced'[k])
  BY <1>3 DEF EachAnnounces
<1>4. ASSUME NEW n \in Node, Start(n) PROVE OnTime(call'[k], announced'[k])
  <2>1. Running' = Running \cup {n}
    BY <1>1, <1>4, OrderAppend DEF TypedInv, OrderOK, Start, Running
  <2>2. CASE k = n
    <3>1. call'[k] = NoCall /\ announced'[k] = NoTime
      BY <1>1, <1>4, <2>2 DEF Start, TypedInv, CallsOK
    <3> QED
      BY <3>1 DEF OnTime, NoCall, IsValidTime, NoTime
  <2>3. CASE k # n
    BY <1>1, <1>3, <1>4, <2>1, <2>3 DEF Start
  <2> QED
    BY <2>2, <2>3
<1>5. ASSUME NEW n \in Node, ProbeNow(n) PROVE OnTime(call'[k], announced'[k])
  BY <1>3, <1>5 DEF ProbeNow, engineVars, Running
<1>6. ASSUME NEW n \in Node, NEW j \in 1..MaxBatch, PollMany(n, j)
      PROVE  OnTime(call'[k], announced'[k])
  <2>1. /\ k \in Running /\ k \in Node /\ announced' = announced /\ call[n].pc = "idle"
        /\ call'[n] = [pc |-> "loop", todo |-> j, left |-> 0, idle |-> 0]
        /\ \A m \in Node \ {n} : call'[m] = call[m]
    BY <1>1, <1>6, PollManyTyped DEF PollMany, Running
  <2>2. CASE k = n
    <3>1. OnTime(call[n], announced[n]) /\ call[n].idle =< MaxIdle /\ call[n].idle \in Nat
      BY <1>1, <1>2, <2>1, <2>2 DEF EachAnnounces, Calling
    <3>2. Late(call[n]) = call[n].idle /\ Late(call'[n]) = MaxIdle /\ call'[n].pc = "loop"
      BY <2>1 DEF Late
    <3> QED
      BY <1>1, <1>2, <2>1, <2>2, <3>1, <3>2 DEF OnTime
  <2> QED
    BY <1>3, <2>1, <2>2
<1>7. ASSUME NEW n \in Node, PollEnd(n) PROVE OnTime(call'[k], announced'[k])
  <2>1. /\ k \in Running /\ k \in Node /\ announced' = announced
        /\ call[n].pc = "loop" /\ call[n].todo = 0 /\ call'[n] = NoCall
        /\ \A m \in Node \ {n} : call'[m] = call[m]
    BY <1>1, <1>7 DEF PollEnd, Running, TypedInv, CallsOK
  <2>2. CASE k = n
    <3>1. Late(call[n]) = 0 /\ Late(call'[n]) = 0 /\ call'[n].pc = "idle"
      BY <2>1 DEF Late, NoCall
    <3> QED
      BY <2>1, <2>2, <3>1 DEF EachAnnounces, OnTime
  <2> QED
    BY <1>3, <2>1, <2>2
<1>8. ASSUME NEW n \in Node, PollBegin(n) PROVE OnTime(call'[k], announced'[k])
  <2>1. /\ k \in Running /\ k \in Node
        /\ call'[n].pc = "recv" /\ call'[n].left = AnnounceInterval
        /\ \A m \in Node \ {n} : call'[m] = call[m] /\ announced'[m] = announced[m]
    BY <1>1, <1>8, ReceiveCall, MaybeAnnounceFacts DEF PollBegin, Running
  <2>2. CASE k = n
    <3>1. CanBroadcast(n)
      BY <1>1, HearersRun
    <3>2. \/ announced'[n] = Now
          \/ ~ AnnounceDue(n) /\ announced'[n] = announced[n]
      BY <1>1, <1>8, <3>1, MaybeAnnounceFacts DEF PollBegin
    <3>3. IsValidTime(announced'[n]) /\ announced'[n] \in 0..Now /\ Now - announced'[n] < AnnounceInterval
      BY <1>1, <1>2, <3>2 DEF AnnounceDue
    <3>4. Late(call'[n]) = 0 - AnnounceInterval
      BY <2>1 DEF Late
    <3> QED
      BY <1>2, <2>2, <3>3, <3>4 DEF OnTime
  <2> QED
    BY <1>3, <2>1, <2>2
<1>9. ASSUME NEW n \in Node, Recv(n) \/ RecvTimeout(n) PROVE OnTime(call'[k], announced'[k])
  <2>1. /\ k \in Running /\ k \in Node /\ announced' = announced /\ call[n].pc = "recv"
        /\ \E processed \in BOOLEAN : Polled(n, processed)
    BY <1>1, <1>9 DEF Recv, RecvTimeout, HandleEcho, HandleAnnouncement, HandleProbe, Running
  <2>2. /\ \A m \in Node \ {n} : call'[m] = call[m]
        /\ \/ call'[n] = [pc |-> "loop", todo |-> call[n].todo - 1, left |-> 0, idle |-> 0]
           \/ call'[n] = NoCall
    BY <1>1, <2>1, PolledFacts
  <2>3. CASE k = n
    <3>1. call[n].left \in Nat /\ Late(call[n]) = 0 - call[n].left
      BY <1>1, <2>1 DEF Calling, Late
    <3>2. Late(call'[n]) \in Nat /\ call'[n].pc # "recv"
      BY <1>2, <2>2 DEF Late, NoCall
    <3>3. OnTime(call[n], announced[n])
      BY <2>1, <2>3 DEF EachAnnounces
    <3> QED
      BY <1>1, <1>2, <2>1, <2>3, <3>1, <3>2, <3>3 DEF OnTime
  <2> QED
    BY <1>3, <2>1, <2>2, <2>3
<1>10. CASE Tick
  <2>1. k \in Running /\ k \in Node /\ announced'[k] = Older(announced[k])
    BY <1>1, <1>10, TickFacts DEF Tick, Running
  <2>2. /\ Older(announced[k]) \in Nat /\ announced[k] =< Older(announced[k]) + 1
        /\ IsValidTime(announced[k]) <=> IsValidTime(Older(announced[k]))
    BY <1>1, <1>2, <2>1, OlderFacts
  <2>3. OnTime(call[k], announced[k]) /\ call'[k].pc = call[k].pc
    BY <1>1, <1>10, <2>1, TickCalls DEF EachAnnounces
  <2>4. Late(call'[k]) = Late(call[k]) + 1 /\ Late(call[k]) \in Int
    <3>1. CASE call[k].pc = "recv"
      BY <1>1, <1>10, <2>1, <2>3, <3>1, TickCalls DEF Late, Calling
    <3>2. CASE call[k].pc # "recv"
      BY <1>1, <1>10, <2>1, <2>3, <3>2, TickCalls DEF Late, Calling
    <3> QED
      BY <3>1, <3>2
  <2> QED
    BY <1>1, <1>2, <2>1, <2>2, <2>3, <2>4 DEF OnTime
<1>11. ASSUME NEW p \in net, Deliver(p) PROVE OnTime(call'[k], announced'[k])
  BY <1>3, <1>11 DEF Deliver, engineVars, Running
<1>12. ASSUME NEW n \in Node, Stop(n) \/ Crash(n) PROVE FALSE
  BY <1>12 DEF OwnersInTime, Stop, Crash
<1>13. ASSUME NEW p \in net, Lose(p) PROVE FALSE
  BY <1>1, <1>13 DEF OwnersInTime, Lose, TypedInv, MailOK
<1>14. CASE UNCHANGED vars
  BY <1>3, <1>14 DEF vars, engineVars, Running
<1> QED
  BY <1>4, <1>5, <1>6, <1>7, <1>8, <1>9, <1>10, <1>11, <1>12, <1>13, <1>14 DEF Next, Poll

(* Whoever announced itself or answered has announced itself before. *)
SpokenBefore ==
  \A n \in Node, x \in Message :
    Waits(n, x) /\ x.type # "Probe" => IsValidTime(announced[x.from])

LEMMA StepSpoken ==
  ASSUME OwnersInTime, EveryoneHears, QueueInv, EachAnnounces, SpokenBefore, [Next]_vars
  PROVE  SpokenBefore'
<1> SUFFICES ASSUME NEW k \in Node, NEW x \in Message, Waits(k, x)', x.type # "Probe"
             PROVE  IsValidTime(announced'[x.from])
  BY DEF SpokenBefore
<1>1. /\ TypedInv /\ TypeOK /\ CallsOK(call) /\ IsValidTime(Now)
      /\ \A n \in Node : announced[n] \in 0..Now /\ Now \in Nat
  BY TypedIsTypeOK, NetworkConstants DEF QueueInv, TypedInv
<1>2. Waits(k, x) => IsValidTime(announced[x.from]) /\ x.from \in Running /\ x.from \in Node
  BY DEF SpokenBefore, QueueInv, Timely, SendersRun, HonestMail, FromEngine
<1>3. ASSUME NEW n \in Node, Start(n) PROVE IsValidTime(announced'[x.from])
  <2>1. Waits(k, x) /\ n \notin Running /\ \A m \in Node \ {n} : announced'[m] = announced[m]
    BY <1>1, <1>3 DEF Start, Waits, TypedInv
  <2> QED
    BY <1>2, <2>1
<1>4. ASSUME NEW n \in Node, ProbeNow(n) PROVE IsValidTime(announced'[x.from])
  <2>1. Waits(k, x) \/ x = ProbeMessage(n)
    BY <1>1, <1>4, MessagesTyped, BroadcastMail DEF ProbeNow
  <2>2. Waits(k, x) /\ announced' = announced
    BY <1>4, <2>1 DEF ProbeMessage, ProbeNow, engineVars
  <2> QED
    BY <1>2, <2>2
<1>5. ASSUME NEW n \in Node, PollBegin(n) PROVE IsValidTime(announced'[x.from])
  <2>1. \A m \in Node \ {n} : announced'[m] = announced[m]
    BY <1>1, <1>5, MaybeAnnounceFacts DEF PollBegin
  <2>2. CASE UNCHANGED <<net, inbox, announced>>
    BY <1>2, <2>2 DEF Waits
  <2>3. CASE Broadcast(n, AnnounceMessage(n)) /\ announced'[n] = Now
    <3>1. Waits(k, x) \/ x = AnnounceMessage(n)
      BY <1>1, <2>3, MessagesTyped, BroadcastMail
    <3>2. x.from = n \/ Waits(k, x)
      BY <3>1 DEF AnnounceMessage
    <3> QED
      BY <1>1, <1>2, <2>1, <2>3, <3>2
  <2> QED
    BY <1>1, <1>5, <2>2, <2>3, MaybeAnnounceFacts DEF PollBegin
<1>6. ASSUME NEW n \in Node, Recv(n) PROVE IsValidTime(announced'[x.from])
  <2>1. inbox[n] # <<>> /\ announced' = announced /\ call[n].pc = "recv"
    BY <1>6 DEF Recv
  <2>2. Waits(k, x) \/ x = ReplyMessage(n)
    <3>1. CASE HandleProbe(n, Head(inbox[n]))
      BY <1>1, <2>1, <3>1, HandleProbeMail
    <3>2. CASE HandleEcho(n) \/ HandleAnnouncement(n, Head(inbox[n]))
      BY <1>1, <2>1, <3>2, TakenMail DEF HandleEcho, HandleAnnouncement
    <3> QED
      BY <1>6, <3>1, <3>2 DEF Recv
  <2>3. IsValidTime(announced[n])
    BY <2>1, CallersRun DEF EachAnnounces, OnTime
  <2>4. x.from = n \/ Waits(k, x)
    BY <2>2 DEF ReplyMessage
  <2> QED
    BY <1>2, <2>1, <2>3, <2>4
<1>7. CASE Tick
  <2>1. Waits(k, x)
    BY <1>7 DEF Tick, Waits
  <2>2. announced'[x.from] = Older(announced[x.from]) /\ announced[x.from] \in Nat
    BY <1>1, <1>2, <1>7, <2>1, TickFacts
  <2> QED
    BY <1>2, <2>1, <2>2, OlderFacts
<1>8. ASSUME NEW p \in net, Deliver(p) PROVE IsValidTime(announced'[x.from])
  <2>1. Waits(k, x) /\ announced' = announced
    BY <1>1, <1>8, DeliverMail DEF Deliver, engineVars
  <2> QED
    BY <1>2, <2>1
<1>9. CASE UNCHANGED <<net, inbox, announced>>
  BY <1>2, <1>9 DEF Waits
<1>10. ASSUME NEW n \in Node,
              (\E j \in 1..MaxBatch : PollMany(n, j)) \/ PollEnd(n) \/ RecvTimeout(n)
       PROVE  UNCHANGED <<net, inbox, announced>>
  BY <1>10 DEF PollMany, PollEnd, RecvTimeout
<1>11. ASSUME NEW n \in Node, Stop(n) \/ Crash(n) PROVE FALSE
  BY <1>11 DEF OwnersInTime, Stop, Crash
<1>12. ASSUME NEW p \in net, Lose(p) PROVE FALSE
  BY <1>1, <1>12 DEF OwnersInTime, Lose, TypedInv, MailOK
<1>13. UNCHANGED vars => UNCHANGED <<net, inbox, announced>>
  BY DEF vars, engineVars
<1> QED
  BY <1>3, <1>4, <1>5, <1>6, <1>7, <1>8, <1>9, <1>10, <1>11, <1>12, <1>13 DEF Next, Poll

(* Who is known is alive, and has been heard since it last announced       *)
(* itself; or that announcement waits to be read, and was in time.         *)
AnnouncementDue(n, m) ==
  \E x \in Message : x.type = "Announce" /\ x.from = m /\ Waits(n, x)

Fresh(seen, t) == t - seen =< LongestSilence

HeardOf(n, m) ==
  /\ n \in Running /\ m \in Running /\ m # n
  /\ IsValidTime(announced[m])
  /\ peers[n][m].state = "Alive"
  /\ \/ announced[m] =< peers[n][m].last_seen
     \/ AnnouncementDue(n, m) /\ Fresh(peers[n][m].last_seen, announced[m])

AllHeard == \A n \in Node : \A m \in DOMAIN peers[n] : HeardOf(n, m)

(* Where an entry, its node's instant and the mail for it stay.            *)
LEMMA HeardKept ==
  ASSUME TypedInv, NEW n \in Node, NEW m \in Node, HeardOf(n, m), Running \subseteq Running',
         peers'[n][m] = peers[n][m], announced'[m] = announced[m],
         \A x \in Message : x.from = m /\ x.type = "Announce" /\ Waits(n, x) => Waits(n, x)'
  PROVE  HeardOf(n, m)'
<1>1. AnnouncementDue(n, m) => AnnouncementDue(n, m)'
  BY DEF AnnouncementDue
<1> QED
  BY <1>1 DEF HeardOf, Fresh, LongestSilence

(* An entry that was heard of is younger than the stale window: refreshing *)
(* leaves it as it is.                                                     *)
LEMMA HeardStaysAlive ==
  ASSUME OwnersInTime, PatientPeers, QueueInv, EachAnnounces, NEW n \in Node,
         NEW m \in DOMAIN peers[n], HeardOf(n, m)
  PROVE  RefreshPeer(peers[n][m], Now, StaleAfter, PeerTtl) = peers[n][m]
<1> DEFINE seen == peers[n][m].last_seen
           at == announced[m]
<1>1. /\ LongestWait \in Nat /\ Now \in Nat /\ StaleAfter \in Nat /\ PeerTtl \in Nat
      /\ StaleAfter =< PeerTtl /\ AnnounceInterval \in Nat \ {0} /\ MaxIdle \in Nat
  BY NetworkConstants, WaitFacts
<1>2. LongestSilence \in Nat
  BY <1>1 DEF LongestSilence
<1>3. m \in Node /\ seen \in Nat
  BY DEF QueueInv, TypedInv, PeersOK, IsRegistry, Peer
<1>4. at \in 0..Now /\ Now - at =< LongestSilence
  <2>1. call[m] \in Calling /\ announced[m] \in 0..Now /\ OnTime(call[m], announced[m])
    BY <1>3 DEF QueueInv, TypedInv, CallsOK, EachAnnounces, HeardOf
  <2> QED
    BY <2>1, SilenceFacts DEF HeardOf
<1>5. Now - seen < StaleAfter
  <2>1. CASE at =< seen
    <3> HIDE DEF at, seen
    <3> QED
      BY <1>1, <1>2, <1>3, <1>4, <2>1 DEF PatientPeers
  <2>2. CASE AnnouncementDue(n, m) /\ Fresh(seen, at)
    <3>1. PICK x \in Message : x.type = "Announce" /\ x.from = m /\ Waits(n, x)
      BY <2>2 DEF AnnouncementDue
    <3>2. Now - at =< LongestWait
      BY <1>3, <3>1, AgeBound, AgesFacts DEF QueueInv
    <3>3. at - seen =< LongestSilence
      BY <2>2 DEF Fresh
    <3> HIDE DEF at, seen
    <3> QED
      BY <1>1, <1>2, <1>3, <1>4, <3>2, <3>3 DEF PatientPeers
  <2> QED
    BY <2>1, <2>2 DEF HeardOf
<1> HIDE DEF at, seen
<1>6. ~ (Now - seen >= PeerTtl) /\ ~ (Now - seen >= StaleAfter)
  BY <1>1, <1>3, <1>5
<1> QED
  BY <1>6 DEF RefreshPeer, seen

LEMMA HeardAtPollBegin ==
  ASSUME OwnersInTime, EveryoneHears, PatientPeers, QueueInv, EachAnnounces, AllHeard,
         NEW n \in Node, PollBegin(n)
  PROVE  AllHeard'
<1> SUFFICES ASSUME NEW k \in Node, NEW m \in DOMAIN peers'[k] PROVE HeardOf(k, m)'
  BY DEF AllHeard
<1> DEFINE msg == AnnounceMessage(n)
<1>1. TypedInv /\ TypeOK /\ UNCHANGED order
  BY TypedIsTypeOK DEF QueueInv, PollBegin
<1>2. /\ DOMAIN peers'[k] = DOMAIN peers[k]
      /\ k # n => peers'[k] = peers[k]
      /\ k = n => peers'[k][m] = RefreshPeer(peers[k][m], Now, StaleAfter, PeerTtl)
  BY <1>1, RefreshFacts DEF PollBegin
<1>3. m \in DOMAIN peers[k] /\ HeardOf(k, m) /\ m \in Node
  BY <1>1, <1>2 DEF AllHeard, TypedInv, PeersOK, IsRegistry
<1>4. peers'[k][m] = peers[k][m]
  BY <1>2, <1>3, HeardStaysAlive
<1>5. Running' = Running
  BY <1>1 DEF Running
<1>6. CanBroadcast(n) /\ Receivers(n, Config[n].broadcast_host, Config[n].broadcast_port) = Running
  BY <1>1, HearersRun
<1>7. CASE UNCHANGED <<net, inbox, announced>>
  <2>1. \A x \in Message : Waits(k, x) => Waits(k, x)'
    BY <1>7 DEF Waits
  <2> QED
    BY <1>1, <1>3, <1>4, <1>5, <1>7, <2>1, HeardKept
<1>8. CASE ~ UNCHANGED <<net, inbox, announced>>
  <2>1. /\ AnnounceDue(n) /\ Broadcast(n, msg) /\ announced'[n] = Now
        /\ \A l \in Node \ {n} : announced'[l] = announced[l]
    BY <1>1, <1>8, MaybeAnnounceFacts DEF PollBegin
  <2>2. msg \in Message /\ msg.type = "Announce" /\ msg.from = n
    BY <1>1, MessagesTyped DEF AnnounceMessage
  <2> HIDE DEF msg
  <2>3. /\ \A x \in Message : Waits(k, x) => Waits(k, x)'
        /\ k \in Running /\ k # n => \A x \in Message : x = msg => Waits(k, x)'
    BY <1>1, <1>6, <2>1, <2>2, BroadcastMail
  <2>4. CASE m # n
    BY <1>1, <1>3, <1>4, <1>5, <2>1, <2>3, <2>4, HeardKept
  (* Whoever knows n has heard of its last announcement, and will hear of  *)
  (* this one.                                                             *)
  <2>5. CASE m = n
    <3>1. ~ AnnouncementDue(k, m)
      BY <2>1, <2>5, DueMeansRead DEF AnnouncementDue
    <3> DEFINE seen == peers[k][m].last_seen
    <3>2. announced[m] =< seen /\ IsValidTime(announced[m]) /\ m \in Running /\ k \in Running /\ k # n
      BY <1>3, <2>5, <3>1 DEF HeardOf
    <3>3. Now - announced[m] =< LongestSilence
      <4>1. call[m] \in Calling /\ announced[m] \in 0..Now /\ OnTime(call[m], announced[m])
        BY <1>1, <1>3, <3>2 DEF TypedInv, CallsOK, EachAnnounces
      <4> QED
        BY <3>2, <4>1, SilenceFacts
    <3>4. seen \in Nat /\ announced[m] \in Nat /\ Now \in Nat /\ IsValidTime(Now) /\ LongestSilence \in Int
      BY <1>1, <1>3, NetworkConstants DEF TypedInv, PeersOK, IsRegistry, Peer, LongestSilence
    <3>5. Fresh(seen, Now)
      BY <3>2, <3>3, <3>4 DEF Fresh
    <3>6. AnnouncementDue(k, m)'
      BY <2>2, <2>3, <2>5, <3>2 DEF AnnouncementDue
    <3>7. announced'[m] = Now
      BY <2>1, <2>5
    <3> QED
      BY <1>3, <1>4, <1>5, <3>4, <3>5, <3>6, <3>7 DEF HeardOf, Fresh, LongestSilence
  <2> QED
    BY <2>4, <2>5
<1> QED
  BY <1>7, <1>8

LEMMA HeardAtRecv ==
  ASSUME QueueInv, EachAnnounces, SpokenBefore, AllHeard, NEW n \in Node, Recv(n)
  PROVE  AllHeard'
<1> SUFFICES ASSUME NEW k \in Node, NEW m \in DOMAIN peers'[k] PROVE HeardOf(k, m)'
  BY DEF AllHeard
<1> DEFINE h == Head(inbox[n])
<1>1. /\ TypedInv /\ inbox[n] # <<>> /\ call[n].pc = "recv"
      /\ UNCHANGED <<order, life, announced, quiet, asked>>
  BY DEF QueueInv, Recv
<1>2. Running' = Running /\ n \in Running
  BY <1>1, CallersRun DEF Running
<1>3. h \in Message /\ Waits(n, h) /\ FromEngine(h) /\ h.from \in Running
  BY <1>1, HeadWaits DEF QueueInv, HonestMail, Timely, SendersRun
<1>4. \A x \in Message : Waits(k, x) => Waits(k, x)' \/ (k = n /\ x = h)
  <2>1. CASE HandleProbe(n, h)
    BY <1>1, <2>1, HandleProbeMail
  <2>2. CASE HandleEcho(n) \/ HandleAnnouncement(n, h)
    BY <1>1, <2>2, TakenMail DEF HandleEcho, HandleAnnouncement
  <2> QED
    BY <2>1, <2>2, <1>1 DEF Recv
<1>5. \A j \in DOMAIN peers[k] : j \in Node /\ HeardOf(k, j)
  BY <1>1 DEF AllHeard, TypedInv, PeersOK, IsRegistry
(* What was heard of stays so, unless the message is from there. *)
<1>6. ASSUME m \in DOMAIN peers[k], peers'[k][m] = peers[k][m],
             k = n => h.from # m \/ h.type # "Announce"
      PROVE  HeardOf(k, m)'
  <2>1. \A x \in Message : x.from = m /\ x.type = "Announce" /\ Waits(k, x) => Waits(k, x)'
    BY <1>4, <1>6
  <2> QED
    BY <1>1, <1>2, <1>5, <1>6, <2>1, HeardKept
<1>7. CASE HandleAnnouncement(n, h) /\ h.from # n
  <2>1. /\ \A l \in Node \ {n} : peers'[l] = peers[l]
        /\ DOMAIN peers'[n] = DOMAIN peers[n] \cup {h.ann.node_id}
        /\ peers'[n][h.ann.node_id] = [ann |-> h.ann, state |-> "Alive", last_seen |-> Now]
        /\ \A j \in DOMAIN peers[n] \ {h.ann.node_id} : peers'[n][j] = peers[n][j]
    BY <1>1, <1>7, HandleAnnouncementFacts
  <2>2. h.type # "Probe" /\ h.ann.node_id = h.from
    BY <1>3, <1>7 DEF HandleAnnouncement, FromEngine
  <2> HIDE DEF h
  <2>3. CASE k = n /\ m = h.from
    <3>1. peers'[k][m].state = "Alive" /\ peers'[k][m].last_seen = Now
      BY <2>1, <2>2, <2>3
    <3>2. IsValidTime(announced[m]) /\ announced[m] =< Now
      BY <1>1, <1>3, <2>2, <2>3, RunningNodes, TypedIsTypeOK, NetworkConstants DEF SpokenBefore, TypedInv
    <3> QED
      BY <1>1, <1>2, <1>3, <1>7, <2>3, <3>1, <3>2 DEF HeardOf
  <2>4. CASE k = n /\ m # h.from
    BY <1>6, <2>1, <2>2, <2>4
  <2>5. CASE k # n
    BY <1>6, <2>1, <2>5
  <2> QED
    BY <2>3, <2>4, <2>5
<1>8. CASE HandleEcho(n) /\ h.from = n
  <2>1. peers' = peers
    BY <1>8 DEF HandleEcho
  <2>2. k = n => h.from # m
    BY <1>5, <1>8, <2>1 DEF HeardOf
  <2> QED
    BY <1>6, <2>1, <2>2
<1>9. CASE HandleProbe(n, h)
  <2>1. peers' = peers /\ h.type = "Probe"
    BY <1>9 DEF HandleProbe
  <2> QED
    BY <1>6, <2>1
<1> QED
  BY <1>7, <1>8, <1>9 DEF Recv

LEMMA StepHeard ==
  ASSUME OwnersInTime, EveryoneHears, PatientPeers, QueueInv, EachAnnounces, SpokenBefore, AllHeard,
         [Next]_vars
  PROVE  AllHeard'
<1>1. /\ TypedInv /\ TypeOK /\ QueuesDrain
      /\ \A k \in Node : \A m \in DOMAIN peers[k] : m \in Node /\ HeardOf(k, m)
  BY TypedIsTypeOK, QueueRoom DEF QueueInv, AllHeard, TypedInv, PeersOK, IsRegistry
(* The steps that leave the entries alone. *)
<1>2. ASSUME peers' = peers, Running \subseteq Running',
             \A m \in Running : announced'[m] = announced[m],
             \A k \in Running, x \in Message : Waits(k, x) => Waits(k, x)'
      PROVE  AllHeard'
  <2> SUFFICES ASSUME NEW k \in Node, NEW m \in DOMAIN peers[k] PROVE HeardOf(k, m)'
    BY <1>2 DEF AllHeard
  <2>1. HeardOf(k, m) /\ m \in Node /\ k \in Running /\ m \in Running
    BY <1>1 DEF HeardOf
  <2> QED
    BY <1>1, <1>2, <2>1, HeardKept
<1>3. ASSUME NEW n \in Node, Start(n) PROVE AllHeard'
  <2>1. Running' = Running \cup {n} /\ n \notin Running
    BY <1>1, <1>3, OrderAppend DEF TypedInv, OrderOK, Start, Running
  <2>2. \A m \in Running : announced'[m] = announced[m]
    BY <1>1, <1>3, <2>1, RunningNodes DEF TypedInv, Start
  <2>3. peers' = peers /\ \A k, x : Waits(k, x) => Waits(k, x)'
    BY <1>3 DEF Start, Waits
  <2> QED
    BY <1>2, <2>1, <2>2, <2>3
<1>4. ASSUME NEW n \in Node, ProbeNow(n) PROVE AllHeard'
  <2>1. UNCHANGED <<order, peers, announced>> /\ Broadcast(n, ProbeMessage(n))
    BY <1>4 DEF ProbeNow, engineVars
  <2>2. \A k \in Running, x \in Message : Waits(k, x) => Waits(k, x)'
    BY <1>1, <2>1, BroadcastMail, MessagesTyped, RunningNodes
  <2> QED
    BY <1>2, <2>1, <2>2 DEF Running
<1>5. ASSUME NEW n \in Node,
             (\E j \in 1..MaxBatch : PollMany(n, j)) \/ PollEnd(n) \/ RecvTimeout(n)
      PROVE  AllHeard'
  <2>1. UNCHANGED <<order, peers, announced, net, inbox>>
    BY <1>5 DEF PollMany, PollEnd, RecvTimeout
  <2> QED
    BY <1>2, <2>1 DEF Running, Waits
<1>6. ASSUME NEW p \in net, Deliver(p) PROVE AllHeard'
  <2>1. UNCHANGED <<order, peers, announced>>
    BY <1>6 DEF Deliver, engineVars
  <2>2. \A k \in Running, x \in Message : Waits(k, x) => Waits(k, x)'
    BY <1>1, <1>6, DeliverMail, RunningNodes DEF QueuesDrain
  <2> QED
    BY <1>2, <2>1, <2>2 DEF Running
<1>7. CASE Tick
  <2> SUFFICES ASSUME NEW k \in Node, NEW m \in DOMAIN peers'[k] PROVE HeardOf(k, m)'
    BY DEF AllHeard
  <2>1. /\ m \in DOMAIN peers[k]
        /\ peers'[k][m].state = peers[k][m].state
        /\ peers'[k][m].last_seen = Older(peers[k][m].last_seen)
    BY <1>1, <1>7, TickFacts
  <2>2. HeardOf(k, m) /\ m \in Node /\ UNCHANGED <<order, net, inbox>>
    BY <1>1, <1>7, <2>1 DEF Tick
  <2>3. Running' = Running /\ announced'[m] = Older(announced[m])
    BY <1>1, <1>7, <2>2, TickFacts DEF Running
  <2>4. AnnouncementDue(k, m)' <=> AnnouncementDue(k, m)
    BY <2>2 DEF AnnouncementDue, Waits
  <2> DEFINE seen == peers[k][m].last_seen
             at == announced[m]
  <2>5. seen \in Nat /\ at \in Nat /\ LongestSilence \in Nat
    BY <1>1, <2>1, <2>2, NetworkConstants DEF TypedInv, PeersOK, IsRegistry, Peer, LongestSilence
  <2>6. IsValidTime(at) /\ (at =< seen \/ (AnnouncementDue(k, m) /\ Fresh(seen, at)))
    BY <2>2 DEF HeardOf
  <2> HIDE DEF seen, at
  <2>7. IsValidTime(Older(at))
    BY <2>5, <2>6, OlderFacts
  <2>8. at =< seen => Older(at) =< Older(seen)
    BY <2>5 DEF Older
  <2>9. Fresh(seen, at) => Fresh(Older(seen), Older(at))
    BY <2>5, <2>6 DEF Older, Fresh, IsValidTime, NoTime
  <2> QED
    BY <2>1, <2>2, <2>3, <2>4, <2>6, <2>7, <2>8, <2>9 DEF HeardOf, Fresh, LongestSilence, seen, at
<1>8. ASSUME NEW n \in Node, Stop(n) \/ Crash(n) PROVE FALSE
  BY <1>8 DEF OwnersInTime, Stop, Crash
<1>9. ASSUME NEW p \in net, Lose(p) PROVE FALSE
  BY <1>1, <1>9 DEF OwnersInTime, Lose, TypedInv, MailOK
<1>10. CASE UNCHANGED vars
  <2>1. UNCHANGED <<order, peers, announced, net, inbox>>
    BY <1>10 DEF vars, engineVars
  <2> QED
    BY <1>2, <2>1 DEF Running, Waits
<1> QED
  BY <1>3, <1>4, <1>5, <1>6, <1>7, <1>8, <1>9, <1>10, HeardAtPollBegin, HeardAtRecv DEF Next, Poll

(* In every network whose owners poll in time, where every broadcast       *)
(* reaches everybody and the stale window is longer than two announcement  *)
(* intervals, an idle spell and the wait in a queue, nobody who is there   *)
(* is ever given up, by anybody (maybe_announce, refresh_peer_states).     *)
THEOREM NobodyEverGivenUp ==
  ASSUME OwnersInTime, OwnSockets, EveryoneHears, PatientPeers
  PROVE  Spec => []NobodyGivenUp
<1>1. Init => EachAnnounces /\ SpokenBefore /\ AllHeard
  <2> SUFFICES ASSUME Init PROVE EachAnnounces /\ SpokenBefore /\ AllHeard
    OBVIOUS
  <2>1. Running = {} /\ \A n \in Node : DOMAIN peers[n] = {}
    BY NothingQueued, NoPeersFacts DEF Init, Running
  <2>2. \A n \in Node, x \in Message : ~ Waits(n, x)
    BY NothingQueued DEF Init, Waits
  <2> QED
    BY <2>1, <2>2 DEF EachAnnounces, SpokenBefore, AllHeard
<1>2. QueueInv /\ EachAnnounces /\ SpokenBefore /\ AllHeard /\ [Next]_vars
        => EachAnnounces' /\ SpokenBefore' /\ AllHeard'
  BY StepAnnounces, StepSpoken, StepHeard
<1>3. AllHeard /\ TypedInv => NobodyGivenUp
  BY RunningNodes, TypedIsTypeOK DEF AllHeard, HeardOf, NobodyGivenUp
<1>4. Spec => []QueueInv
  BY AlwaysInTime
<1>5. QueueInv => TypedInv
  BY DEF QueueInv
<1> QED
  BY <1>1, <1>2, <1>3, <1>4, <1>5, PTL DEF Spec

-----------------------------------------------------------------------------
(* Nobody is made up *)

(* Of every process the node counts as, and of everything it announced.    *)
Counted == \A n \in Node : life[n] \in 1..Lives[n]

WasThere(a) == a.node_id \in Node /\ a.addr \in 1..life[a.node_id]

RealMail ==
  \A n \in Node, x \in Message : Waits(n, x) /\ x.type # "Probe" => WasThere(x.ann)

(* Whoever is listed has run, at the endpoint it is listed with, and is    *)
(* not the node itself; and a node that does not run lists nobody.         *)
OnlyRealPeers ==
  \A n \in Node : \A m \in DOMAIN peers[n] :
    /\ n \in Running /\ m # n
    /\ peers[n][m].ann.node_id = m
    /\ peers[n][m].ann.addr \in 1..life[m]

InCallRuns == \A n \in Node : call[n].pc # "idle" => n \in Running

RealInv == Counted /\ InCallRuns /\ RealMail /\ OnlyRealPeers

LEMMA StepCounted ==
  ASSUME TypedInv, Counted, [Next]_vars
  PROVE  Counted' /\ \A n \in Node : life[n] =< life'[n]
<1>1. \A n \in Node : Lives[n] \in Nat \ {0} /\ life[n] \in 1..Lives[n]
  BY NetworkAssumption DEF Counted
<1>2. ASSUME NEW n \in Node, Crash(n) PROVE Counted' /\ \A k \in Node : life[k] =< life'[k]
  <2>1. life' = [life EXCEPT ![n] = life[n] + 1] /\ life[n] < Lives[n]
    BY <1>2 DEF Crash
  <2>2. life'[n] = life[n] + 1 /\ \A k \in Node \ {n} : life'[k] = life[k]
    BY <2>1 DEF TypedInv
  <2> QED
    BY <1>1, <2>1, <2>2 DEF Counted
<1>3. CASE life' = life
  BY <1>1, <1>3 DEF Counted
<1>4. ASSUME NEW n \in Node, Start(n) \/ Stop(n) \/ ProbeNow(n) \/ Poll(n) PROVE life' = life
  BY <1>4 DEF Start, Stop, ProbeNow, Poll, PollMany, PollBegin, PollEnd, Recv, RecvTimeout
<1>5. ASSUME NEW p \in net, Deliver(p) \/ Lose(p) PROVE life' = life
  BY <1>5 DEF Deliver, Lose
<1>6. Tick \/ UNCHANGED vars => life' = life
  BY DEF Tick, vars
<1> QED
  BY <1>2, <1>3, <1>4, <1>5, <1>6 DEF Next

(* What was there before a step was there after it. *)
LEMMA WasThereKept ==
  ASSUME TypedInv, Counted, \A n \in Node : life[n] =< life'[n],
         \A n \in Node : life'[n] \in Nat, NEW a, WasThere(a)
  PROVE  WasThere(a)'
BY NetworkAssumption DEF Counted, WasThere

LEMMA MessagesReal ==
  ASSUME Counted, NEW n \in Node
  PROVE  WasThere(LocalAnnouncement(n))
BY NetworkAssumption DEF Counted, WasThere, LocalAnnouncement

LEMMA StepRealMail ==
  ASSUME TypedInv, HonestMail, Counted, RealMail, [Next]_vars
  PROVE  RealMail'
<1>1. /\ \A n \in Node : life[n] =< life'[n] /\ life'[n] \in Nat
      /\ \A n \in Node : WasThere(LocalAnnouncement(n))
  BY StepCounted, MessagesReal, NetworkAssumption DEF Counted
<1> SUFFICES ASSUME NEW k \in Node, NEW x \in Message, Waits(k, x)', x.type # "Probe", ~ WasThere(x.ann)
             PROVE  FALSE
  BY <1>1, WasThereKept DEF RealMail, WasThere
<1>2. ~ Waits(k, x)
  BY DEF RealMail
<1>3. ASSUME NEW n \in Node, ProbeNow(n) PROVE FALSE
  <2>1. x = ProbeMessage(n)
    BY <1>2, <1>3, BroadcastMail, MessagesTyped, TypedIsTypeOK DEF ProbeNow
  <2> QED
    BY <2>1 DEF ProbeMessage
<1>4. ASSUME NEW n \in Node, PollBegin(n) PROVE FALSE
  <2>1. UNCHANGED <<net, inbox>> \/ Broadcast(n, AnnounceMessage(n))
    BY <1>4, MaybeAnnounceFacts DEF PollBegin
  <2>2. x = AnnounceMessage(n)
    BY <1>2, <2>1, BroadcastMail, MessagesTyped, TypedIsTypeOK DEF Waits
  <2> QED
    BY <1>1, <2>2 DEF AnnounceMessage
<1>5. ASSUME NEW n \in Node, Recv(n) PROVE FALSE
  <2> DEFINE m == Head(inbox[n])
  <2>1. inbox[n] # <<>>
    BY <1>5 DEF Recv
  <2>2. CASE HandleEcho(n) \/ HandleAnnouncement(n, m)
    BY <1>2, <2>1, <2>2, TakenMail DEF HandleEcho, HandleAnnouncement
  <2>3. CASE HandleProbe(n, m)
    <3>1. x = ReplyMessage(n)
      BY <1>2, <2>1, <2>3, HandleProbeMail
    <3> QED
      BY <1>1, <3>1 DEF ReplyMessage
  <2> QED
    BY <1>5, <2>2, <2>3 DEF Recv
<1>6. ASSUME NEW n \in Node, Stop(n) \/ Crash(n) PROVE FALSE
  <2>1. Leave(n) /\ net' = net
    BY <1>6 DEF Stop, Crash
  <2> QED
    BY <1>2, <2>1, LeaveMail
<1>7. ASSUME NEW n \in Node,
             Start(n) \/ (\E j \in 1..MaxBatch : PollMany(n, j)) \/ PollEnd(n) \/ RecvTimeout(n)
      PROVE  FALSE
  <2>1. UNCHANGED <<net, inbox>>
    BY <1>7 DEF Start, PollMany, PollEnd, RecvTimeout
  <2> QED
    BY <1>2, <2>1 DEF Waits
<1>8. ASSUME NEW p \in net, Deliver(p) PROVE FALSE
  BY <1>2, <1>8, DeliverMail
<1>9. ASSUME NEW p \in net, Lose(p) PROVE FALSE
  BY <1>2, <1>9 DEF Lose, Waits
<1>10. CASE Tick \/ UNCHANGED vars
  BY <1>2, <1>10 DEF Tick, vars, Waits
<1> QED
  BY <1>3, <1>4, <1>5, <1>6, <1>7, <1>8, <1>9, <1>10 DEF Next, Poll

LEMMA StepInCallRuns ==
  ASSUME TypedInv, InCallRuns, [Next]_vars
  PROVE  InCallRuns'
<1>1. ASSUME NEW n \in Node, n \in Running', Running \subseteq Running',
             \A k \in Node \ {n} : call'[k] = call[k]
      PROVE  InCallRuns'
  BY <1>1 DEF InCallRuns
<1>2. ASSUME NEW n \in Node, Start(n) PROVE InCallRuns'
  <2>1. Running' = Running \cup {n} /\ \A k \in Node \ {n} : call'[k] = call[k]
    BY <1>2, OrderAppend DEF TypedInv, OrderOK, CallsOK, Start, Running
  <2> QED
    BY <1>1, <2>1
<1>3. ASSUME NEW n \in Node, Stop(n) \/ Crash(n) PROVE InCallRuns'
  <2>1. Running' = Running \ {n} /\ \A k \in Node \ {n} : call'[k] = call[k]
    BY <1>3, LeaveFacts DEF Stop, Crash
  <2>2. call'[n].pc = "idle"
    BY <1>3 DEF TypedInv, CallsOK, Stop, Crash, Leave, NoCall
  <2> QED
    BY <2>1, <2>2 DEF InCallRuns
<1>4. ASSUME NEW n \in Node, Poll(n) PROVE InCallRuns'
  <2>1. n \in Running /\ order' = order
    BY <1>4 DEF InCallRuns, Poll, PollMany, PollBegin, PollEnd, Recv, RecvTimeout
  <2>2. \A k \in Node \ {n} : call'[k] = call[k]
    BY <1>4 DEF TypedInv, CallsOK, Poll, PollMany, PollBegin, PollEnd, Recv, RecvTimeout, Polled,
                HandleEcho, HandleAnnouncement, HandleProbe
  <2> QED
    BY <1>1, <2>1, <2>2 DEF Running
<1>5. CASE Tick
  <2>1. order' = order /\ \A k \in Node : call'[k].pc = call[k].pc
    BY <1>5, TickCalls DEF Tick
  <2> QED
    BY <2>1 DEF InCallRuns, Running
<1>6. CASE UNCHANGED <<order, call>>
  BY <1>6 DEF InCallRuns, Running
<1>7. \A n \in Node : ProbeNow(n) => UNCHANGED <<order, call>>
  BY DEF ProbeNow, engineVars
<1>8. \A p \in net : Deliver(p) \/ Lose(p) => UNCHANGED <<order, call>>
  BY DEF Deliver, Lose, engineVars
<1>9. UNCHANGED vars => UNCHANGED <<order, call>>
  BY DEF vars, engineVars
<1> QED
  BY <1>2, <1>3, <1>4, <1>5, <1>6, <1>7, <1>8, <1>9 DEF Next

LEMMA StepRealPeers ==
  ASSUME TypedInv, HonestMail, RealInv, [Next]_vars
  PROVE  OnlyRealPeers'
<1>1. \A n \in Node : life[n] =< life'[n] /\ life[n] \in Nat /\ life'[n] \in Nat
  BY StepCounted, NetworkAssumption DEF RealInv, Counted
<1> SUFFICES ASSUME NEW k \in Node, NEW m \in DOMAIN peers'[k]
             PROVE  /\ k \in Running' /\ m # k
                    /\ peers'[k][m].ann.node_id = m
                    /\ peers'[k][m].ann.addr \in 1..life'[m]
  BY DEF OnlyRealPeers
<1> DEFINE Listed == /\ k \in Running' /\ m # k
                     /\ peers'[k][m].ann.node_id = m
                     /\ peers'[k][m].ann.addr \in 1..life'[m]
<1>2. ASSUME m \in DOMAIN peers[k], peers'[k][m].ann = peers[k][m].ann, k \in Running => k \in Running'
      PROVE  Listed
  <2>1. m \in Node
    BY <1>2 DEF TypedInv, PeersOK, IsRegistry
  <2> QED
    BY <1>1, <1>2, <2>1 DEF RealInv, OnlyRealPeers
<1>3. ASSUME NEW n \in Node, Start(n) PROVE Listed
  <2>1. Running' = Running \cup {n} /\ peers' = peers
    BY <1>3, OrderAppend DEF TypedInv, OrderOK, Start, Running
  <2> QED
    BY <1>2, <2>1
<1>4. ASSUME NEW n \in Node, Stop(n) \/ Crash(n) PROVE Listed
  <2>1. /\ DOMAIN peers'[n] = {} /\ Running' = Running \ {n}
        /\ \A j \in Node \ {n} : peers'[j] = peers[j]
    BY <1>4, LeaveFacts DEF Stop, Crash
  <2> QED
    BY <1>2, <2>1
<1>5. ASSUME NEW n \in Node, PollBegin(n) PROVE Listed
  <2>1. /\ \A j \in Node \ {n} : peers'[j] = peers[j]
        /\ DOMAIN peers'[n] = DOMAIN peers[n]
        /\ \A j \in DOMAIN peers[n] :
             peers'[n][j] = RefreshPeer(peers[n][j], Now, StaleAfter, PeerTtl)
        /\ Running' = Running
    BY <1>5, RefreshFacts DEF PollBegin, Running
  <2>2. ASSUME NEW j \in DOMAIN peers[n] PROVE peers'[n][j].ann = peers[n][j].ann
    <3>1. peers[n][j] \in Peer
      BY DEF TypedInv, PeersOK, IsRegistry
    <3> QED
      BY <2>1, <3>1, NetworkConstants, RefreshPeerFacts
  <2> QED
    BY <1>2, <2>1, <2>2
<1>6. ASSUME NEW n \in Node, Recv(n) PROVE Listed
  <2> DEFINE h == Head(inbox[n])
  <2>1. inbox[n] # <<>> /\ call[n].pc = "recv" /\ UNCHANGED <<order, life>>
    BY <1>6 DEF Recv
  <2>2. Running' = Running /\ n \in Running
    BY <2>1 DEF Running, RealInv, InCallRuns
  <2>3. h \in Message /\ Waits(n, h)
    BY <2>1, HeadWaits
  <2>4. CASE HandleAnnouncement(n, h)
    <3>1. /\ \A j \in Node \ {n} : peers'[j] = peers[j]
          /\ DOMAIN peers'[n] = DOMAIN peers[n] \cup {h.ann.node_id}
          /\ peers'[n][h.ann.node_id] = [ann |-> h.ann, state |-> "Alive", last_seen |-> Now]
          /\ \A j \in DOMAIN peers[n] \ {h.ann.node_id} : peers'[n][j] = peers[n][j]
      BY <2>1, <2>4, HandleAnnouncementFacts
    <3>2. h.type # "Probe" /\ h.ann.node_id # n
      BY <2>4 DEF HandleAnnouncement, Accepts
    <3>3. WasThere(h.ann)
      BY <2>3, <3>2 DEF RealInv, RealMail
    <3> HIDE DEF h
    <3>4. CASE k = n /\ m = h.ann.node_id
      BY <2>1, <2>2, <2>4, <3>1, <3>2, <3>3, <3>4 DEF WasThere
    <3>5. CASE ~ (k = n /\ m = h.ann.node_id)
      BY <1>2, <2>2, <3>1, <3>5
    <3> QED
      BY <3>4, <3>5
  <2>5. CASE HandleEcho(n) \/ HandleProbe(n, h)
    <3>1. peers' = peers
      BY <2>5 DEF HandleEcho, HandleProbe
    <3> QED
      BY <1>2, <2>2, <3>1
  <2> QED
    BY <1>6, <2>4, <2>5 DEF Recv
<1>7. CASE Tick
  <2>1. Running' = Running
    BY <1>7 DEF Tick, Running
  <2> QED
    BY <1>2, <1>7, <2>1, TickFacts
<1>8. CASE UNCHANGED <<order, peers>>
  BY <1>2, <1>8 DEF Running
<1>9. ASSUME NEW n \in Node,
             ProbeNow(n) \/ (\E j \in 1..MaxBatch : PollMany(n, j)) \/ PollEnd(n) \/ RecvTimeout(n)
      PROVE  UNCHANGED <<order, peers>>
  BY <1>9 DEF ProbeNow, PollMany, PollEnd, RecvTimeout, engineVars
<1>10. ASSUME NEW p \in net, Deliver(p) \/ Lose(p) PROVE UNCHANGED <<order, peers>>
  BY <1>10 DEF Deliver, Lose, engineVars
<1>11. UNCHANGED vars => UNCHANGED <<order, peers>>
  BY DEF vars, engineVars
<1> QED
  BY <1>3, <1>4, <1>5, <1>6, <1>7, <1>8, <1>9, <1>10, <1>11 DEF Next, Poll

(* Whatever is lost, delayed or left half done, a registry names only      *)
(* nodes that ran, each at an endpoint it announced itself; no node ever   *)
(* lists itself, and stopping leaves no peer behind (handle_announcement,  *)
(* handle_peer_announcement, local_announcement, stop).                    *)
THEOREM OnlyRealPeersKnown == Spec => []OnlyRealPeers
<1>1. Init => RealInv
  <2> SUFFICES ASSUME Init PROVE RealInv
    OBVIOUS
  <2>1. \A n \in Node : DOMAIN peers[n] = {}
    BY NoPeersFacts DEF Init
  <2>2. \A n \in Node, x \in Message : ~ Waits(n, x)
    BY NothingQueued DEF Init, Waits
  <2>3. Counted
    <3> SUFFICES ASSUME NEW n \in Node PROVE life[n] \in 1..Lives[n]
      BY DEF Counted
    <3>1. Lives[n] \in Nat \ {0}
      BY NetworkAssumption
    <3>2. life[n] = 1
      BY DEF Init
    <3> QED
      BY <3>1, <3>2
  <2>4. InCallRuns
    BY DEF Init, InCallRuns, NoCall
  <2> QED
    BY <2>1, <2>2, <2>3, <2>4 DEF RealInv, RealMail, OnlyRealPeers
<1>2. TypedInv /\ HonestMail /\ RealInv /\ [Next]_vars => RealInv'
  BY StepCounted, StepInCallRuns, StepRealMail, StepRealPeers DEF RealInv
<1>3. RealInv => OnlyRealPeers
  BY DEF RealInv
<1> QED
  BY <1>1, <1>2, <1>3, AlwaysTyped, AlwaysHonest, PTL DEF Spec
=============================================================================
