SPECIFICATION Spec
CONSTANTS
  n1 = n1
  n2 = n2
  a1 = a1
  a2 = a2
  NoNode = NoNode
  NoAddr = NoAddr
  Node <- const_Node
  Addr <- const_Addr
  Windows <- const_Windows
  MaxTime = 3
SYMMETRY Symmetry
INVARIANT
  OldPeersExpire
