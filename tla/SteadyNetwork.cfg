SPECIFICATION Spec
CONSTANTS
  n1 = n1
  n2 = n2
  NoNode = NoNode
  NoAddr = NoAddr
  Node <- const_Two
  Addr <- const_Addr
  AnnounceInterval = 6
  PeerTtl = 36
  Lives <- const_OneLife
  MaxBatch = 1
  MaxIdle = 1
  ProbeGap = 11
  MaxInbox = 6
  Config <- const_Lan
  Machine <- const_Machines
  May <- const_Probe
SYMMETRY Symmetry
INVARIANTS
  NobodyGivenUp
  QueuesDrain
  ProbeFinds
