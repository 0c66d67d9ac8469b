SPECIFICATION FairSpec
CONSTANTS
  n1 = n1
  n2 = n2
  NoNode = NoNode
  NoAddr = NoAddr
  Node <- const_Two
  Addr <- const_Addr
  AnnounceInterval = 1
  PeerTtl = 2
  Lives <- const_SecondLife
  MaxBatch = 1
  MaxIdle = 0
  ProbeGap = 0
  MaxInbox = 2
  Config <- const_Lan
  Machine <- const_Machines
  May <- const_Faults
INVARIANTS
  TypeOK
PROPERTIES
  Discovers
  GhostsFade
