\* Two requests at a time; a storyboard's first version and two derived from it.
CONSTANTS
    w1 = w1
    w2 = w2
    v1 = v1
    v2 = v2
    v3 = v3
    k1 = k1
    None = None
    Workers <- MCWorkers
    VersionIds <- MCVersions
    Root = v1
    Shots <- MCShots
    Values <- MCValues
    Blank = "blank"
    Keys <- MCKeys
    MaxRevision <- MCMaxRevision
    MaxMerged = 1
SPECIFICATION Spec
SYMMETRY Symmetry
INVARIANTS
    TypeOK
    DerivedMatchesParent
    DerivedOncePerKey
PROPERTIES
    CheckedEditsLandOnRead
    LockedIsKept
    ImplementsStore
