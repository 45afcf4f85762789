\* One client and one Remote: gameplay, changes of the tree, and liveness.
SPECIFICATION Spec
CONSTANTS
  Clients = {c1}
  Remotes = {r1}
  HandshakeTimeoutTicks = 2
  MaxPeers = 1
  MaxBurst = 3
  MaxBacklog = 2
  MaxFires = 1
  MaxFaults = 1
  MaxTreeChanges = 1
INVARIANTS
  ReliableNeverRejected
  PublishedKnown
  RegistrationsExact
  SidesAgree
PROPERTIES
  HandshakeSettles
  EndsMeet
CHECK_DEADLOCK FALSE
