SPECIFICATION Spec
CONSTANTS
    t1 = t1
    t2 = t2
    rd1 = rd1
    None = None
    Tasks <- TwoTasks
    Readers <- OneReader
    Width <- WidthOf
    LastReg = 2
    BlockOf <- OneTwo
    Counts = {1, 2}
    MaxNest = 2
    MaxDepth = 2
INVARIANTS
    Quiescent
CHECK_DEADLOCK FALSE
