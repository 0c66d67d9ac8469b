SPECIFICATION FairSpec
CONSTANTS
  self = self
  n1 = n1
  a1 = a1
  a2 = a2
  NoNode = NoNode
  NoAddr = NoAddr
  Node <- const_Pair
  Addr <- const_Addr
  Self = self
  AnnounceInterval = 2
  PeerTtl = 5
  MaxTime = 10
  MaxBatch = 2
  MaxSignals = 1
INVARIANTS
  TypeOK
  NoSelf
  StoppedForgets
  VerdictsAreEarned
  AvailableIsRecent
  AnnounceFresh
PROPERTIES
  NewsNeedsMessage
  ImplementsPresence
  PollReturns
