SPECIFICATION Spec
CONSTANTS
    c1 = c1
    Path = {1, 2, 3, 4}
    Content = {c1, c2}
    None = None
    Tombstone = Tombstone
    Fold <- Distinct
    Bases <- SomeManifests
    MaxStops = 1
CHECK_DEADLOCK FALSE
INVARIANTS TypeOK MergesAll CopiesConflicts Executable OldOrNew
