------------------------- MODULE MCDiscoveryRegistry -------------------------
(* One registry, small sets of ids and endpoints, two refresh windows: the  *)
(* engine's (half the time to live, the time to live) and one in which the  *)
(* caller swapped the two arguments.                                        *)
EXTENDS DiscoveryRegistry, TLC

CONSTANTS n1, n2, a1, a2

const_Node == {n1, n2}

const_Addr == {a1, a2}

const_Windows == {<<1, 2>>, <<2, 1>>}

Symmetry == Permutations(const_Node) \cup Permutations(const_Addr)
=============================================================================
