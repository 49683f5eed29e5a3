CONSTANTS
    t1 = t1
    t2 = t2
    c1 = c1
    c2 = c2
    c3 = c3
    None = None
    Tasks <- TwoTasks
    Channels <- ThreeChannels
    GroupCount = 1
    PairsPerGroup = 1
    PeriphIds = {}
    CallerLiberties = {}
    MaxGroupRefs = 6
SPECIFICATION Spec
SYMMETRY Symmetry
INVARIANTS
    CallbackArmed
CHECK_DEADLOCK FALSE
