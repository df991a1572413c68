SPECIFICATION SyncedSpec
CONSTANTS
    c1 = c1
    c2 = c2
    c3 = c3
    Path <- Paths
    Content = {c1, c2, c3}
    None = None
    Tombstone = Tombstone
    NoState = NoState
    Fold <- Distinct
    Host = Host
    Joiner = Joiner
    HostFolders <- FirstFile
    JoinerFolders <- NoFiles
    Editors = {Host, Joiner}
    UserOps = {"write"}
    MaxEdits = 2
    MaxFaults = 0
CHECK_DEADLOCK FALSE
INVARIANTS NoLostEdit
