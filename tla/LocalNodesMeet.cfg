SPECIFICATION FairSpec
CONSTANTS
  n1 = n1
  n2 = n2
  NoNode = NoNode
  NoAddr = NoAddr
  Node <- const_Two
  Addr <- const_Addr
  AnnounceInterval = 1
  PeerTtl = 2
  Lives <- const_OneLife
  MaxBatch = 1
  MaxIdle = 0
  ProbeGap = 0
  MaxInbox = 2
  Config <- const_Local
  Machine <- const_OneMachine
  May <- const_Poll
PROPERTIES
  Discovers
