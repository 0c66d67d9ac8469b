SPECIFICATION BufferSpec
CHECK_DEADLOCK FALSE
CONSTANTS
  LenMod = 4
  NoMessage = NoMessage
  NoAnn = NoAnn
  MaxCell = 2
  MaxLen = 9
INVARIANTS
  MessagesCanonical
  AnnouncementsCanonical
  CutsRejected
  RoundTrip
