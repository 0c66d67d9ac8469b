-------------------------- MODULE MCDiscoveryService --------------------------
(* One service, two nodes it may hear of, one endpoint.                     *)
EXTENDS DiscoveryService, TLC

CONSTANTS self, n1, n2, a1

const_Node == {self, n1, n2}

const_Addr == {a1}

(* What the service does has nothing to do with the transport, whose part   *)
(* DiscoveryEngine's own run shows.                                         *)
TransportDown == ~ transport_running

Symmetry == Permutations({n1, n2})
=============================================================================
