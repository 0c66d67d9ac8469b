SPECIFICATION Spec
CONSTANTS
  Engine = {e1, e2, e3}
INVARIANTS
  NoOrphanBackend
  PeersNeedRun
