SPECIFICATION FairSpec
CONSTANTS
  p1 = p1
  p2 = p2
  p3 = p3
  NoPeer = NoPeer
  Peer = {p1, p2, p3}
  Roles <- ThreeRoles
  MaxFaults = 1
INVARIANTS TypeOK KeyFitsBundle Agreement NothingOwed FailsOnlyByMisreading
PROPERTIES PeersMeet
CHECK_DEADLOCK FALSE
