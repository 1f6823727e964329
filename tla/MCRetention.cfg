SPECIFICATION FairRetention
CONSTANTS
    k1 = k1
    i1 = i1
    i2 = i2
    i3 = i3
    s1 = s1
    Packs = {k1}
    Items = {i1, i2, i3}
    PackOf <- MCPackOf
    SessionOf <- MCSessionOf
    SkillOf <- MCSkillOf
    Moving = {i1, i2, i3}
    PackLife = 1
    KeepAttempts = 3
    KeepSources = 3
    MaxLate = 1
    LastDay = 7
    MaxDeaths = 1
    None = None
    Gone = Gone
INVARIANTS
    EntriesKeepTheirNumber
PROPERTIES
    
    ExpiredGoes
CHECK_DEADLOCK FALSE
