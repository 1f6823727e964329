SPECIFICATION FairSpec
CONSTANTS
    Items <- MCItems
    Packs = {"old", "new"}
    PackOf <- MCPackOf
    Flushers = {f1}
    JournalLimit = 2
    BatchMax = 2
    PairsOpen = 1
    MaxAnswers = 3
    MaxFaults = 1
    StoreFaults = {"read", "write"}
    MaxStoreFaults = 1
INVARIANTS
    JournalSendable
    
PROPERTIES
    JournalDrains
CHECK_DEADLOCK FALSE
