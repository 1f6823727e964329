SPECIFICATION FairSpec
CONSTANTS
    None = None
    Accounts = {a1, a2}
    PackIds = {k1, k2}
    Asks = {h1, h2}
    Fetches = {m1}
    Settled = TRUE
    MaxShips = 2
    MaxTrouble = 1
INVARIANTS
    TypeOK
    

    
    
