SPECIFICATION FairSpec
CONSTANTS
  a = a
  b = b
  c = c
  Peer = {a, b, c}
  Capacity = 2
  MaxAttempts = 1
  MaxSockets = 2
  MaxJoins = 3
  MaxFaults = 1
INVARIANTS TypeOK ViewsFollowRoom
PROPERTIES RefusedOnlyWhenFull StayersMeet
CHECK_DEADLOCK FALSE
