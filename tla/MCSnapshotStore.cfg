SPECIFICATION Spec
CONSTANTS
    s1 = s1
    s2 = s2
    s3 = s3
    a = a
    b = b
    Snapshots <- ThreeSnapshots
    Dates = {d1, d2, d3}
    MACs <- TwoMACs
    Finds <- OneFind
    Known <- KnownOne
    MaxCrashes = 1
SYMMETRY Symmetry
INVARIANTS
    EntriesAreOwn
    StoredIsWhole
    DeletedIsGone
    DetailsAreWhole
CHECK_DEADLOCK FALSE
