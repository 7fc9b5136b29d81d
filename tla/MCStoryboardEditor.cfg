\* The page on a version with others at work: its first load and another, two revisions
\* on, two patches in the queues.
CONSTANTS
    version = version
    l1 = l1
    l2 = l2
    None = None
    Version = version
    Shots <- MCShots
    Values <- MCValues
    Blank = "blank"
    Loads <- MCLoads
    FirstLoad = l1
    MaxRevision = 2
    MaxQueued = 2
SPECIFICATION FairSpec
INVARIANTS
    TypeOK
    ConflictsAreReal
PROPERTIES
    NoSilentOverwrite
    SavesEnd
\* The page may stop: the version is locked and its loads are used up.
CHECK_DEADLOCK FALSE
