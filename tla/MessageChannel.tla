---------------------------- MODULE MessageChannel ----------------------------
(***************************************************************************)
(* What a backend promises to the engine (backend/IDiscoveryBackend.hpp):  *)
(* a channel of whole messages that may be lost, duplicated and reordered, *)
(* and that hands over messages only while it is up.                       *)
(***************************************************************************)
CONSTANTS Payload,   \* the messages the network may carry
          Nothing    \* a poll that returned no message

VARIABLES up,        \* is_running()
          offered,   \* messages that may still arrive
          got        \* what the last poll returned

channelVars == <<up, offered, got>>

ChannelInit ==
  /\ up = FALSE
  /\ offered = {}
  /\ got = Nothing

Up ==
  /\ up' \in BOOLEAN
  /\ UNCHANGED <<offered, got>>

Offer ==
  /\ offered \subseteq offered'
  /\ offered' \ offered \subseteq Payload
  /\ UNCHANGED <<up, got>>

Lose ==
  /\ offered' \subseteq offered
  /\ UNCHANGED <<up, got>>

Take ==
  /\ up
  /\ got' \in offered \cup {Nothing}
  /\ offered' \subseteq offered
  /\ UNCHANGED up

ChannelNext == Up \/ Offer \/ Lose \/ Take

ChannelSpec == ChannelInit /\ [][ChannelNext]_channelVars
=============================================================================
