SPECIFICATION FairSpec
CONSTANTS
    r1 = r1
    r2 = r2
    r3 = r3
    Requests <- ThreeRequests
    Backlog = 4
    MaxSize = 3
    Cores = 2
    Liberties = {}
    None = None
INVARIANTS
    BuffersHeld
    NeverRefused
    NoCallbackLost
PROPERTIES
    InOrderOnce
    EveryoneCalled
