SPECIFICATION SearchSpec
CONSTANTS
    t1 = t1
    t2 = t2
    c1 = c1
    c2 = c2
    c3 = c3
    None = None
    Tasks <- TwoTasks
    Channels <- ThreeChannels
    GroupCount = 1
    PairsPerGroup = 2
    PeriphIds = {}
    CallerLiberties = {"sameDirection"}
    MaxGroupRefs = 3
INVARIANTS
    AssertsHold
PROPERTIES
    CallsReturn
CHECK_DEADLOCK FALSE
