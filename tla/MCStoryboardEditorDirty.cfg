\* What is not saved is always known as dirty (refuted).
CONSTANTS
    version = version
    l1 = l1
    l2 = l2
    None = None
    Version = version
    Shots <- MCShots
    Values <- MCValues
    Blank = "blank"
    Loads <- MCLoads
    FirstLoad = l1
    MaxRevision = 2
    MaxQueued = 2
SPECIFICATION Spec
INVARIANTS
    UnsavedIsDirty
CHECK_DEADLOCK FALSE
