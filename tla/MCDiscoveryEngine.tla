--------------------------- MODULE MCDiscoveryEngine ---------------------------
(* One engine, one node it may hear of besides itself, two endpoints.       *)
EXTENDS DiscoveryEngine

CONSTANTS self, n1, a1, a2

const_Pair == {self, n1}

const_Addr == {a1, a2}
=============================================================================
