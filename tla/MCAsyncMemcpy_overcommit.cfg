SPECIFICATION Spec
CONSTANTS
    r1 = r1
    r2 = r2
    r3 = r3
    Requests <- ThreeRequests
    Backlog = 2
    MaxSize = 1
    Cores = 1
    Liberties = {"overcommit"}
    None = None
INVARIANTS
    NoCallbackLost
