SPECIFICATION Spec
CONSTANTS
  LenMod = 9
  NoMessage = NoMessage
  NoAnn = NoAnn
  Fd <- const_Fd
  NoFd <- const_NoFd
  MaxDatagram = 7
  MaxPacket = 8
  Messages <- const_Messages
  Foreign <- const_Foreign
  MaxWire = 2
INVARIANTS
  TypeOK
  SocketInStep
  WholeOrNothing
  FittingAccepted
PROPERTIES
  ImplementsChannel
