SPECIFICATION FairSpec
CONSTANTS
    c1 = c1
    c2 = c2
    c3 = c3
    None = None
    Callers <- TwoCallers
    Cores <- TwoCores
    CallersPriority = TRUE
    MaxGcov = 1
INVARIANTS
    TypeOK
    OwnArgument
PROPERTIES
    KeepsPromise
    CallsGoOn
CHECK_DEADLOCK FALSE
