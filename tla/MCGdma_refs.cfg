CONSTANTS
    t1 = t1
    t2 = t2
    c1 = c1
    c2 = c2
    c3 = c3
    None = None
    Tasks <- TwoTasks
    Channels <- TwoChannels
    GroupCount = 2
    PairsPerGroup = 1
    PeriphIds = {}
    CallerLiberties = {}
    MaxGroupRefs = 3
SPECIFICATION Spec
SYMMETRY Symmetry
INVARIANTS
    TypeOK
    RefCounts
    NoDanglingHandle
    ExclusivePositions
    OccupiedWhenTaken
CHECK_DEADLOCK FALSE
