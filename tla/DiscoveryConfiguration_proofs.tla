----------------------- MODULE DiscoveryConfiguration_proofs -----------------------
(***************************************************************************)
(* The properties of configurations, for every node id, host, port and     *)
(* duration.  Of the options they only use which fields there are and that *)
(* the announce interval is an integer.                                    *)
(***************************************************************************)
EXTENDS MCDiscoveryConfiguration, TLAPS

OptionsFields == {"node_id", "bind_host", "bind_port", "broadcast_host", "broadcast_port",
                  "announce_host", "announce_port", "announce_interval", "peer_ttl",
                  "enable_broadcast"}

IsOptions(o) == DOMAIN o = OptionsFields /\ o["announce_interval"] \in Int

LEMMA WithFields ==
  ASSUME NEW record, NEW fields
  PROVE  /\ DOMAIN With(record, fields) = DOMAIN record
         /\ \A f \in DOMAIN record :
              With(record, fields)[f] = IF f \in DOMAIN fields THEN fields[f] ELSE record[f]
BY DEF With

(* Options and the config made of them pass or fail together. *)
LEMMA ConversionKeepsVerdict ==
  ASSUME NEW o, IsOptions(o)
  PROVE  ValidOptions(o) <=> ValidConfig(ToConfig(o))
<1> DEFINE c == ToConfig(o)
<1>1. /\ DOMAIN DefaultConfig = OptionsFields \cup {"max_datagram_size"}
      /\ DefaultConfig["max_datagram_size"] > 0
  BY SMT DEF DefaultConfig, OptionsFields
<1>2. \A f \in OptionsFields : c[f] = o[f]
  BY <1>1, WithFields DEF ToConfig, IsOptions
<1>3. "max_datagram_size" \notin OptionsFields
  BY SMT DEF OptionsFields
<1>4. c["max_datagram_size"] = DefaultConfig["max_datagram_size"]
  BY <1>1, <1>3, WithFields DEF ToConfig, IsOptions
<1> HIDE DEF c
<1>5. /\ c.node_id = o.node_id
      /\ c.bind_host = o.bind_host /\ c.bind_port = o.bind_port
      /\ c.broadcast_host = o.broadcast_host /\ c.broadcast_port = o.broadcast_port
      /\ c.announce_host = o.announce_host /\ c.announce_port = o.announce_port
      /\ c.announce_interval = o.announce_interval /\ c.peer_ttl = o.peer_ttl
  BY ONLY SMT, <1>2 DEF OptionsFields
<1>6. c.max_datagram_size > 0
  BY SMT, <1>1, <1>4
<1>7. ValidOptions(o) <=> ValidConfig(c)
  BY ONLY <1>5, <1>6 DEF ValidOptions, ValidConfig
<1> QED
  BY <1>7 DEF c

(* What each preset is a preset of. *)
LEMMA PresetsAreOptions ==
  ASSUME NEW id, NEW b, NEW a
  PROVE  /\ IsOptions(DefaultOptions)
         /\ IsOptions(LocalOptions(id, b, a))
         /\ IsOptions(LanOptions(id, b, a))
<1>1. IsOptions(DefaultOptions)
  BY SMT DEF IsOptions, OptionsFields, DefaultOptions
<1>2. ASSUME NEW record, NEW fields, IsOptions(record), "announce_interval" \notin DOMAIN fields
      PROVE  IsOptions(With(record, fields))
  <2>1. "announce_interval" \in OptionsFields
    BY DEF OptionsFields
  <2> QED
    BY <1>2, <2>1, WithFields DEF IsOptions
<1>3. IsOptions(NewOptions(id, a))
  BY <1>1, <1>2 DEF NewOptions
<1>4. IsOptions(LocalOptions(id, b, a))
  BY <1>2, <1>3 DEF LocalOptions
<1>5. IsOptions(LanOptions(id, b, a))
  BY <1>2, <1>3 DEF LanOptions
<1> QED
  BY <1>1, <1>4, <1>5

(* Seconds and microseconds of a duration add up to it. *)
LEMMA TimevalAlwaysExact ==
  ASSUME NEW millis \in Int, millis > 0
  PROVE  TimevalExact(millis)
<1> DEFINE s == millis \div 1000
           r == millis % 1000
<1>1. MakeTimeval(millis).sec = s /\ MakeTimeval(millis).usec = r * 1000
  BY SMT DEF MakeTimeval
<1>2. r \in 0..999 /\ s \in Int /\ millis = (1000 * s) + r
  BY SMT
<1> HIDE DEF s, r
<1>3. s > 0 \/ r > 0
  BY SMT, <1>2
<1>4. r \in Int /\ 0 =< r /\ r =< 999
  BY SMT, <1>2
<1>6. 0 =< r * 1000 /\ r * 1000 < 1000000
  BY ONLY SMT, <1>4
<1>7. (s * 1000000) + (r * 1000) = millis * 1000
  BY SMT, <1>2, <1>4
<1>5. s > 0 \/ r * 1000 > 0
  BY SMT, <1>2, <1>3
<1> QED
  BY SMT, <1>1, <1>5, <1>6, <1>7 DEF TimevalExact

LEMMA TimeoutMsAlwaysExact ==
  ASSUME NEW millis \in Int, millis > 0
  PROVE  TimeoutMsExact(millis)
BY ConfigurationAssumption DEF TimeoutMsExact, MakeTimeoutMs, UINT32_MAX

-----------------------------------------------------------------------------
(* Every set of options an application can build is one. *)

OptionsOK == IsOptions(options)

LEMMA OptionsTyped == Spec => []OptionsOK
<1>1. Init => OptionsOK
  BY PresetsAreOptions DEF Init, OptionsOK
<1>2. OptionsOK /\ [Next]_options => OptionsOK'
  <2> SUFFICES ASSUME OptionsOK, [Next]_options PROVE OptionsOK'
    OBVIOUS
  <2>1. ASSUME NEW f, NEW x, f = "announce_interval" => x \in Int,
               options' = [options EXCEPT ![f] = x]
        PROVE  OptionsOK'
    BY <2>1 DEF OptionsOK, IsOptions, OptionsFields
  <2>2. CASE \E f \in {"bind_host", "announce_host"}, h \in Hosts : SetHost(f, h)
    BY <2>1, <2>2 DEF SetHost
  <2>3. CASE \E f \in {"bind_port", "broadcast_port", "announce_port"}, p \in Ports : SetPort(f, p)
    BY <2>1, <2>3 DEF SetPort
  <2>4. CASE \E f \in {"announce_interval", "peer_ttl"}, d \in Durations : SetDuration(f, d)
    BY <2>1, <2>4, UseAssumption DEF SetDuration
  <2>5. CASE \E id \in Id \cup {NoId} : SetNodeId(id)
    BY <2>5 DEF SetNodeId, OptionsOK, IsOptions, OptionsFields
  <2>6. CASE \E on \in BOOLEAN : SetBroadcast(on)
    BY <2>6 DEF SetBroadcast, OptionsOK, IsOptions, OptionsFields
  <2>7. CASE UNCHANGED options
    BY <2>7 DEF OptionsOK
  <2> QED
    BY <2>2, <2>3, <2>4, <2>5, <2>6, <2>7 DEF Next
<1> QED
  BY <1>1, <1>2, PTL DEF Spec

(* Whatever an application sets, service, backend and engine agree on      *)
(* whether it is usable.                                                   *)
THEOREM VerdictsAlwaysAgree == Spec => []VerdictsAgree
<1>1. OptionsOK => VerdictsAgree
  BY ConversionKeepsVerdict DEF OptionsOK, VerdictsAgree
<1> QED
  BY <1>1, OptionsTyped, PTL

(* No valid announce interval makes a receive wait without limit, on       *)
(* either platform, and none loses a millisecond below the limit.          *)
THEOREM WaitsAlwaysEnd == Spec => []WaitsEnd
<1>1. OptionsOK => WaitsEnd
  <2>1. OptionsOK /\ ValidOptions(options) =>
          options.announce_interval \in Int /\ options.announce_interval > 0
    BY DEF OptionsOK, IsOptions, ValidOptions
  <2> QED
    BY <2>1, TimevalAlwaysExact, TimeoutMsAlwaysExact DEF WaitsEnd
<1> QED
  BY <1>1, OptionsTyped, PTL

-----------------------------------------------------------------------------
(* The two families of presets *)

ConfigFields == OptionsFields \cup {"max_datagram_size"}

(* Two configs made from the default agree if all their fields do. *)
LEMMA SameConfig ==
  ASSUME NEW c, NEW d, DOMAIN c = ConfigFields, DOMAIN d = ConfigFields,
         c = [f \in DOMAIN c |-> c[f]], d = [f \in DOMAIN d |-> d[f]],
         \A f \in ConfigFields : c[f] = d[f]
  PROVE  c = d
BY Zenon

LEMMA WithIsFunction ==
  ASSUME NEW record, NEW fields
  PROVE  With(record, fields) = [f \in DOMAIN With(record, fields) |-> With(record, fields)[f]]
BY DEF With

LEMMA PresetDomains ==
  ASSUME NEW id, NEW b, NEW a
  PROVE  /\ DOMAIN DefaultConfig = ConfigFields
         /\ DOMAIN NewConfig(id, b, a) = ConfigFields
         /\ DOMAIN LocalConfig(id, b, a) = ConfigFields
         /\ DOMAIN LanConfig(id, b, a) = ConfigFields
<1>1. DOMAIN DefaultConfig = ConfigFields
  BY DEF DefaultConfig, ConfigFields, OptionsFields
<1>2. DOMAIN NewConfig(id, b, a) = ConfigFields
  BY <1>1, WithFields DEF NewConfig
<1> QED
  BY <1>1, <1>2, WithFields DEF LocalConfig, LanConfig

(* Options that hold the same fields as a config but for the one they have *)
(* no field for are converted into it.                                     *)
LEMMA ConversionGives ==
  ASSUME NEW o, NEW c, DOMAIN o = OptionsFields, DOMAIN c = ConfigFields,
         c = [f \in DOMAIN c |-> c[f]],
         c["max_datagram_size"] = DefaultConfig["max_datagram_size"],
         \A f \in OptionsFields : c[f] = o[f]
  PROVE  ToConfig(o) = c
<1>1. DOMAIN ToConfig(o) = ConfigFields
  BY PresetDomains, WithFields DEF ToConfig
<1>2. \A f \in ConfigFields : ToConfig(o)[f] = c[f]
  BY PresetDomains, WithFields DEF ToConfig, ConfigFields, OptionsFields
<1>3. ToConfig(o) = [f \in DOMAIN ToConfig(o) |-> ToConfig(o)[f]]
  BY WithIsFunction DEF ToConfig
<1> QED
  BY ONLY <1>1, <1>2, <1>3, SameConfig, DOMAIN c = ConfigFields, c = [f \in DOMAIN c |-> c[f]]

(* But for the ports, the two defaults are the same. *)
LEMMA DefaultsAgree ==
  /\ DOMAIN DefaultOptions = OptionsFields
  /\ \A f \in OptionsFields \ {"bind_port", "broadcast_port"} :
       DefaultOptions[f] = DefaultConfig[f]
  /\ \A f \in {"bind_port", "broadcast_port"} : DefaultOptions[f] = DefaultOptions.bind_port
<1>1. DOMAIN DefaultOptions = OptionsFields
  BY SMT DEF DefaultOptions, OptionsFields
<1>2. /\ DefaultOptions.node_id = DefaultConfig.node_id
      /\ DefaultOptions.bind_host = DefaultConfig.bind_host
      /\ DefaultOptions.broadcast_host = DefaultConfig.broadcast_host
      /\ DefaultOptions.announce_host = DefaultConfig.announce_host
      /\ DefaultOptions.announce_port = DefaultConfig.announce_port
      /\ DefaultOptions.announce_interval = DefaultConfig.announce_interval
      /\ DefaultOptions.peer_ttl = DefaultConfig.peer_ttl
      /\ DefaultOptions.enable_broadcast = DefaultConfig.enable_broadcast
  BY SMT DEF DefaultOptions, DefaultConfig
<1>3. DefaultOptions.broadcast_port = DefaultOptions.bind_port
  BY SMT DEF DefaultOptions
<1> QED
  BY ONLY SMT, <1>1, <1>2, <1>3 DEF OptionsFields

(* What the constructors set. *)
LEMMA NewFields ==
  ASSUME NEW id, NEW b, NEW a
  PROVE  /\ DOMAIN NewOptions(id, a) = OptionsFields
         /\ \A f \in OptionsFields :
              NewOptions(id, a)[f] =
                CASE f = "node_id" -> id
                  [] f = "announce_port" -> a
                  [] OTHER -> DefaultOptions[f]
         /\ \A f \in ConfigFields :
              NewConfig(id, b, a)[f] =
                CASE f = "node_id" -> id
                  [] f = "announce_port" -> a
                  [] f \in {"bind_port", "broadcast_port"} -> b
                  [] OTHER -> DefaultConfig[f]
<1>1. DOMAIN DefaultOptions = OptionsFields /\ DOMAIN DefaultConfig = ConfigFields
  BY DefaultsAgree, PresetDomains
<1> QED
  BY SMT, <1>1 DEF NewOptions, NewConfig, With

LEMMA NewConverted ==
  ASSUME NEW id, NEW a
  PROVE  ToConfig(NewOptions(id, a)) = NewConfig(id, DefaultOptions.bind_port, a)
<1> DEFINE o == NewOptions(id, a)
           c == NewConfig(id, DefaultOptions.bind_port, a)
<1>1. DOMAIN o = OptionsFields
  BY NewFields
<1>2. DOMAIN c = ConfigFields /\ c = [f \in DOMAIN c |-> c[f]]
  BY PresetDomains, WithIsFunction DEF NewConfig
<1>3. \A f \in OptionsFields : c[f] = o[f]
  BY NewFields, DefaultsAgree DEF ConfigFields
<1>4. c["max_datagram_size"] = DefaultConfig["max_datagram_size"]
  BY NewFields DEF ConfigFields
<1> QED
  BY ONLY <1>1, <1>2, <1>3, <1>4, ConversionGives

(* What the presets set beyond that. *)
LEMMA LocalFields ==
  ASSUME NEW id, NEW b, NEW a
  PROVE  /\ DOMAIN LocalOptions(id, b, a) = OptionsFields
         /\ \A f \in OptionsFields :
              LocalOptions(id, b, a)[f] =
                CASE f \in {"bind_host", "broadcast_host", "announce_host"} -> "loopback"
                  [] f \in {"bind_port", "broadcast_port"} -> b
                  [] OTHER -> NewOptions(id, a)[f]
         /\ \A f \in ConfigFields :
              LocalConfig(id, b, a)[f] =
                CASE f \in {"bind_host", "broadcast_host", "announce_host"} -> "loopback"
                  [] OTHER -> NewConfig(id, b, a)[f]
<1>1. DOMAIN NewOptions(id, a) = OptionsFields
  BY NewFields
<1>2. DOMAIN NewConfig(id, b, a) = ConfigFields
  BY PresetDomains
<1>3. DOMAIN LocalOptions(id, b, a) = OptionsFields
  BY <1>1, WithFields DEF LocalOptions
<1>4. \A f \in OptionsFields :
        LocalOptions(id, b, a)[f] =
          CASE f \in {"bind_host", "broadcast_host", "announce_host"} -> "loopback"
            [] f \in {"bind_port", "broadcast_port"} -> b
            [] OTHER -> NewOptions(id, a)[f]
  BY SMT, <1>1 DEF LocalOptions, With
<1>5. \A f \in ConfigFields :
        LocalConfig(id, b, a)[f] =
          CASE f \in {"bind_host", "broadcast_host", "announce_host"} -> "loopback"
            [] OTHER -> NewConfig(id, b, a)[f]
  BY SMT, <1>2 DEF LocalConfig, With
<1> QED
  BY ONLY <1>3, <1>4, <1>5

LEMMA LanFields ==
  ASSUME NEW id, NEW b, NEW a
  PROVE  /\ DOMAIN LanOptions(id, b, a) = OptionsFields
         /\ \A f \in OptionsFields \ {"enable_broadcast"} :
              LanOptions(id, b, a)[f] =
                IF f = "bind_host" THEN "any"
                ELSE IF f = "broadcast_host" THEN "broadcast"
                ELSE IF f = "announce_host" THEN "loopback"
                ELSE IF f \in {"bind_port", "broadcast_port"} THEN b
                ELSE NewOptions(id, a)[f]
         /\ \A f \in ConfigFields \ {"enable_broadcast"} :
              LanConfig(id, b, a)[f] =
                IF f = "bind_host" THEN "any"
                ELSE IF f = "broadcast_host" THEN "broadcast"
                ELSE IF f = "announce_host" THEN "loopback"
                ELSE NewConfig(id, b, a)[f]
<1>1. DOMAIN NewOptions(id, a) = OptionsFields
  BY NewFields
<1>2. DOMAIN NewConfig(id, b, a) = ConfigFields
  BY PresetDomains
<1>3. DOMAIN LanOptions(id, b, a) = OptionsFields
  BY <1>1, WithFields DEF LanOptions
<1>4. \A f \in OptionsFields \ {"enable_broadcast"} :
        LanOptions(id, b, a)[f] =
          IF f = "bind_host" THEN "any"
          ELSE IF f = "broadcast_host" THEN "broadcast"
          ELSE IF f = "announce_host" THEN "loopback"
          ELSE IF f \in {"bind_port", "broadcast_port"} THEN b
          ELSE NewOptions(id, a)[f]
  BY SMT, <1>1 DEF LanOptions, With
<1>5. \A f \in ConfigFields \ {"enable_broadcast"} :
        LanConfig(id, b, a)[f] =
          IF f = "bind_host" THEN "any"
          ELSE IF f = "broadcast_host" THEN "broadcast"
          ELSE IF f = "announce_host" THEN "loopback"
          ELSE NewConfig(id, b, a)[f]
  BY SMT, <1>2 DEF LanConfig, With
<1> QED
  BY ONLY <1>3, <1>4, <1>5

LEMMA LanBroadcasts ==
  ASSUME NEW id, NEW b, NEW a
  PROVE  LanConfig(id, b, a)["enable_broadcast"] = LanOptions(id, b, a)["enable_broadcast"]
<1>1. DOMAIN NewOptions(id, a) = OptionsFields
  BY NewFields
<1>2. DOMAIN NewConfig(id, b, a) = ConfigFields
  BY PresetDomains
<1>3. "enable_broadcast" \in OptionsFields /\ "enable_broadcast" \in ConfigFields
  BY DEF OptionsFields, ConfigFields
<1>4. LanOptions(id, b, a)["enable_broadcast"] = TRUE
  BY <1>1, <1>3, WithFields DEF LanOptions
<1>5. LanConfig(id, b, a)["enable_broadcast"] = TRUE
  BY <1>2, <1>3, WithFields DEF LanConfig
<1> QED
  BY <1>4, <1>5, Zenon

(* A preset of the options differs from the same preset of the config in   *)
(* nothing but the datagram size the options have no field for.            *)
LEMMA LocalConverted ==
  ASSUME NEW id, NEW b, NEW a
  PROVE  ToConfig(LocalOptions(id, b, a)) = LocalConfig(id, b, a)
<1> DEFINE o == LocalOptions(id, b, a)
           c == LocalConfig(id, b, a)
<1>1. DOMAIN c = ConfigFields /\ c = [f \in DOMAIN c |-> c[f]]
  BY PresetDomains, WithIsFunction DEF LocalConfig
<1>2. \A f \in OptionsFields : c[f] = o[f]
  <2>1. ASSUME NEW f \in OptionsFields PROVE f \in ConfigFields
    BY DEF ConfigFields
  <2> QED
    BY <2>1, LocalFields, NewFields, DefaultsAgree
<1>3. c["max_datagram_size"] = DefaultConfig["max_datagram_size"]
  BY LocalFields, NewFields DEF ConfigFields
<1> HIDE DEF o, c
<1> QED
  BY <1>1, <1>2, <1>3, LocalFields, ConversionGives DEF o, c

LEMMA LanConverted ==
  ASSUME NEW id, NEW b, NEW a
  PROVE  ToConfig(LanOptions(id, b, a)) = LanConfig(id, b, a)
<1> DEFINE o == LanOptions(id, b, a)
           c == LanConfig(id, b, a)
<1>1. DOMAIN c = ConfigFields /\ c = [f \in DOMAIN c |-> c[f]]
  BY PresetDomains, WithIsFunction DEF LanConfig
<1>2. \A f \in OptionsFields : c[f] = o[f]
  <2>1. ASSUME NEW f \in OptionsFields PROVE f \in ConfigFields
    BY DEF ConfigFields
  <2>2. ASSUME NEW f \in OptionsFields \ {"enable_broadcast"} PROVE c[f] = o[f]
    BY <2>1, LanFields, NewFields, DefaultsAgree
  <2>3. c["enable_broadcast"] = o["enable_broadcast"]
    BY LanBroadcasts
  <2> QED
    BY <2>2, <2>3, Zenon
<1>3. c["max_datagram_size"] = DefaultConfig["max_datagram_size"]
  BY LanFields, NewFields DEF ConfigFields
<1> HIDE DEF o, c
<1> QED
  BY <1>1, <1>2, <1>3, LanFields, ConversionGives DEF o, c

(* Whether an application takes a preset of the options or of the config,  *)
(* it configures the same node.                                            *)
THEOREM PresetsAlwaysAgree == Spec => []PresetsAgree
<1>1. PresetsAgree
  BY NewConverted, LocalConverted, LanConverted DEF PresetsAgree
<1> QED
  BY <1>1, PTL
=============================================================================
