SPECIFICATION Spec
CONSTANTS
    c1 = c1
    c2 = c2
    c3 = c3
    Path <- Paths
    Content = {c1, c2}
    None = None
    Tombstone = Tombstone
    NoState = NoState
    Fold <- SameCase
    Host = Host
    Joiner = Joiner
    HostFolders <- FirstFile
    JoinerFolders <- NoFiles
    Editors = {Host, Joiner}
    UserOps = {"write", "delete", "rename"}
    MaxEdits = 2
    MaxFaults = 1
CHECK_DEADLOCK FALSE
INVARIANTS TypeOK
PROPERTIES RemovalsAreDeletions
