SPECIFICATION Spec
CONSTANTS
    a = a
    b = b
    s = s
    u = u
    MACs <- TwoMACs
    Seen <- FewSeen
    StoreThreads = {s}
    UpdateThreads = {u}
    MaxJobs = 2
INVARIANTS
    StoredOrLost
    TypesAgree
    NotStuckOnItself
PROPERTIES
    KnowledgeKept
CHECK_DEADLOCK FALSE
