SPECIFICATION FairSession
CONSTANTS
    None = None
    Creds = {k1, k2, k3}
    Patient = TRUE
    Throttles = FALSE
    MaxTrouble = 2

    
PROPERTIES
    
    SpentIsReplaced
    DisownedIsLetGo
