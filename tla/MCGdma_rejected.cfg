CONSTANTS
    t1 = t1
    t2 = t2
    c1 = c1
    c2 = c2
    c3 = c3
    None = None
    Tasks <- TwoTasks
    Channels <- TwoChannels
    GroupCount = 1
    PairsPerGroup = 1
    PeriphIds = {}
    CallerLiberties = {"sameDirection"}
    MaxGroupRefs = 3
SPECIFICATION Spec
SYMMETRY Symmetry
INVARIANTS
    NoDanglingHandle
CHECK_DEADLOCK FALSE
