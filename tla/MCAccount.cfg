SPECIFICATION FairSpec
CONSTANTS
    None = None
    Accounts = {a1, a2}
    Tokens = {1, 2, 3}
    Ids = {d1, d2}
    OtherId = other
    Calls = {c1, c2}
    Worlds = {{}, {"retry", "refusal", "unkept"}, {"others", "erase"}}
    MaxTrouble = 1
INVARIANTS
    TypeOK
    StateIsOfThisSession
    LinkVerdictsAreTrue
PROPERTIES
    LinksInTheEnd
