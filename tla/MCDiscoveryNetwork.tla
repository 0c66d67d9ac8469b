--------------------------- MODULE MCDiscoveryNetwork ---------------------------
(* Two nodes that both use one preset, on one machine or on several. *)
EXTENDS DiscoveryNetwork

CONSTANTS n1, n2

const_Two == {n1, n2}

const_Addr == {1, 2}

(* One process each, or a second one of n2 after a crash. *)
const_OneLife == [n \in Node |-> 1]

const_SecondLife == [n \in Node |-> IF n = n2 THEN 2 ELSE 1]

(* Owners that only poll; owners that probe as well; one that stops and    *)
(* starts again and one that crashes, on a network that works badly.       *)
const_Poll == [n \in Node |-> {}]

const_Probe == [n \in Node |-> {"probe"}]

const_Faults ==
  [n \in Node |-> {"lose", "delay"} \cup (IF n = n1 THEN {"stop"} ELSE {"crash"})]

Presets ==
  INSTANCE DiscoveryConfiguration WITH
    Id <- Node, NoId <- NoNode, Host <- {"any", "loopback", "broadcast"}, NoHost <- "",
    DwordMod <- 4096

const_Lan == [n \in Node |-> Presets!LanConfig(n, 9400, 7000)]

const_Local == [n \in Node |-> Presets!LocalConfig(n, 9400, 7000)]

const_OneMachine == [n \in Node |-> "m"]

const_Machines == [n \in Node |-> n]

Symmetry == Permutations(Node)

(* Finds, for the node that keeps running and the one that comes back from *)
(* a crash: whatever was late or lost, n1 lists n2's endpoint (update).    *)
Discovers == Finds(n1, n2)

(* Forgets, for the same two: n1 does not offer a dead n2 for ever         *)
(* (refresh_states).                                                       *)
GhostsFade == Forgets(n1, n2)
=============================================================================
