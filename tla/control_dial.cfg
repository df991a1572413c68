SPECIFICATION Spec
CONSTANTS
  p1 = p1
  p2 = p2
  p3 = p3
  NoPeer = NoPeer
  Peer = {p1, p2}
  Roles <- TwoRoles
  MaxFaults = 0
INVARIANTS NeitherFails
CHECK_DEADLOCK FALSE
