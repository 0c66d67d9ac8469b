----------------------- MODULE MCDiscoveryConfiguration -----------------------
(***************************************************************************)
(* An application takes the options of a preset, changes the public fields *)
(* one by one.                                                             *)
(***************************************************************************)
EXTENDS DiscoveryConfiguration

CONSTANTS Ports,      \* the ports it tries
          Durations   \* the durations it tries

ASSUME UseAssumption == Ports \subseteq Port /\ Durations \subseteq Int

(* Around zero, around a second, and around the values of a DWORD. *)
const_Durations == {-1, 0, 1, 999, 1500, DwordMod, DwordMod + 1}

VARIABLE options

Hosts == Host \cup {NoHost}

Init ==
  options \in
    {DefaultOptions} \cup
    {LocalOptions(id, b, a) : id \in Id, b \in Ports, a \in Ports} \cup
    {LanOptions(id, b, a) : id \in Id, b \in Ports, a \in Ports}

SetHost(field, host) == options' = [options EXCEPT ![field] = host]

SetPort(field, port) == options' = [options EXCEPT ![field] = port]

SetDuration(field, ms) == options' = [options EXCEPT ![field] = ms]

SetNodeId(id) == options' = [options EXCEPT !.node_id = id]

SetBroadcast(on) == options' = [options EXCEPT !.enable_broadcast = on]

Next ==
  \/ \E f \in {"bind_host", "announce_host"}, h \in Hosts : SetHost(f, h)
  \/ \E f \in {"bind_port", "broadcast_port", "announce_port"}, p \in Ports : SetPort(f, p)
  \/ \E f \in {"announce_interval", "peer_ttl"}, d \in Durations : SetDuration(f, d)
  \/ \E id \in Id \cup {NoId} : SetNodeId(id)
  \/ \E on \in BOOLEAN : SetBroadcast(on)

Spec == Init /\ [][Next]_options

(* The service tests its options and the backend and the engine test the   *)
(* config made of them: the three must agree, or start() gets past the     *)
(* first test and leaves a Failed engine behind (DiscoveryService::start). *)
VerdictsAgree == ValidOptions(options) <=> ValidConfig(ToConfig(options))

(* The presets exist twice, for options and for configs: whichever an      *)
(* application uses, it gets the same node (local, lan, to_config).        *)
PresetsAgree ==
  LET id == options.node_id
      bind_port == options.bind_port
      announce_port == options.announce_port
  IN  /\ ToConfig(LocalOptions(id, bind_port, announce_port)) =
           LocalConfig(id, bind_port, announce_port)
      /\ ToConfig(LanOptions(id, bind_port, announce_port)) =
           LanConfig(id, bind_port, announce_port)
      /\ ToConfig(NewOptions(id, announce_port)) =
           NewConfig(id, DefaultOptions.bind_port, announce_port)

(* The timeouts made of a duration: neither is zero, and but for the limit *)
(* of a DWORD each is exactly the duration.                                *)
TimevalExact(millis) ==
  LET tv == MakeTimeval(millis)
  IN  /\ tv.sec > 0 \/ tv.usec > 0
      /\ 0 =< tv.usec /\ tv.usec < 1000000
      /\ tv.sec * 1000000 + tv.usec = millis * 1000

TimeoutMsExact(millis) ==
  /\ MakeTimeoutMs(millis) \in 1..UINT32_MAX
  /\ millis =< UINT32_MAX => MakeTimeoutMs(millis) = millis

(* To both platforms a timeout of zero means no timeout, and poll_once     *)
(* would never come back: a valid interval, however short or long, gives a *)
(* timeout that is not zero (make_timeval, make_timeout_ms).               *)
WaitsEnd ==
  ValidOptions(options) =>
    TimevalExact(options.announce_interval) /\ TimeoutMsExact(options.announce_interval)
=============================================================================
