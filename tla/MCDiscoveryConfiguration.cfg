SPECIFICATION Spec
CONSTANTS
  Id = {n1}
  NoId = NoId
  Host = {"any", "loopback", "broadcast"}
  NoHost = NoHost
  Ports = {0, 9401}
  DwordMod = 4096
  Durations <- const_Durations
INVARIANTS
  VerdictsAgree
  PresetsAgree
  WaitsEnd
