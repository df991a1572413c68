SPECIFICATION FairSpec
CONSTANTS
    c1 = c1
    c2 = c2
    Path = {1, 2, 3}
    Content = {c1, c2}
    None = None
    Tombstone = Tombstone
    NoState = NoState
    Fold <- TwoCases
    FollowerFolders <- EmptyOrOne
    MaxPublished = 3
    MaxEdits = 1
    MaxFaults = 1
INVARIANTS TypeOK
PROPERTIES RemovalsArePublished Follows
CHECK_DEADLOCK FALSE
