SPECIFICATION Spec
SYMMETRY Symmetry
CONSTANTS
    x1 = x1
    x2 = x2
    x3 = x3
    t1 = t1
    t2 = t2
    None = None
INVARIANTS
    TypesOK
    AtomicReads
    Outcome
    ProtectionLast
    ChainsKept
    HandlersMatch
    Routing
    CacheOffSafe
    Exclusive
    AssertsHold
    NoReasonLost
    StallHolds
    CacheAgrees
    NothingForgotten
    CounterExact
    UsersKept
    HangsShow
    SamePace
PROPERTIES
    Promised
CHECK_DEADLOCK FALSE
