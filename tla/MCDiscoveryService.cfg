SPECIFICATION ServiceSpec
CONSTANTS
  self = self
  n1 = n1
  n2 = n2
  a1 = a1
  NoNode = NoNode
  NoAddr = NoAddr
  Node <- const_Node
  Addr <- const_Addr
  Self = self
  AnnounceInterval = 1
  PeerTtl = 2
  MaxTime = 3
  MaxBatch = 2
  MaxSignals = 0
  MaxDepth = 2
CONSTRAINT TransportDown
SYMMETRY Symmetry
INVARIANTS
  ServiceTypeOK
  BackendInStep
  KnownBounds
  CallbacksBounded
PROPERTIES
  ImplementsEngine
