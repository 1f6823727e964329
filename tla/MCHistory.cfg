SPECIFICATION FairSpec
CONSTANTS
    Accounts = {a1, a2}
    Flushers = {home, map}
    None = None
    Orderly = TRUE
    PairsOpen = 2
    MaxFlushes = 2
    MaxAsks = 2
    MaxTokens = 2
    MaxFaults = 1
INVARIANTS
    TypeOK
    
PROPERTIES
    
    AsksDieDown
CHECK_DEADLOCK FALSE
