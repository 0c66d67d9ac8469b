----------------------------- MODULE PeerPresence -----------------------------
(***************************************************************************)
(* What discovery promises to an application, without messages, clocks and *)
(* windows: the sets of the nodes it knows and of those it offers.  A node *)
(* is offered only after something was heard of it while discovery was up, *)
(* nothing is learnt while discovery is down, and going down forgets       *)
(* everything.                                                             *)
(*                                                                         *)
(* DiscoveryEngine implements this specification.                          *)
(***************************************************************************)
CONSTANT Other       \* the nodes that may be heard of: all but this one

VARIABLES up,        \* discovery has been started
          known,     \* the nodes in the registry
          available  \* those that are offered as available

presenceVars == <<up, known, available>>

PresenceInit == up = FALSE /\ known = {} /\ available = {}

GoUp == ~ up /\ up' = TRUE /\ UNCHANGED <<known, available>>

GoDown == up' = FALSE /\ known' = {} /\ available' = {}

Hear(n) ==
  /\ up
  /\ known' = known \cup {n}
  /\ available' = available \cup {n}
  /\ UNCHANGED up

(* Silence can only take nodes off the list. *)
Fade ==
  /\ up
  /\ available' \subseteq available
  /\ UNCHANGED <<up, known>>

PresenceNext == GoUp \/ GoDown \/ (\E n \in Other : Hear(n)) \/ Fade

PresenceSpec == PresenceInit /\ [][PresenceNext]_presenceVars
=============================================================================
