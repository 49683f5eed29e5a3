SPECIFICATION Spec
CONSTANTS
    c1 = c1
    c2 = c2
    i1 = i1
    i2 = i2
    Clients <- OneClient
    Idle <- TwoIdle
    Timeout = 2
    MaxCalls = 1
    MaxJoins = 2
    Liberties = {}
SYMMETRY Symmetry
INVARIANTS
    TypeOK
    SomebodyLate
    NoSilentHang
    NoFalseAlarm
    NobodyUnwatched
