SPECIFICATION FairSpec
CONSTANTS
    anna = anna
    bert = bert
    p1 = p1
    p2 = p2
    good = good
    other = other
    forged = forged
    late = late
    nobody = nobody
    NoOne = NoOne
    Malformed = Malformed
    Requests = {1, 2, 3}
    Accounts = {anna, bert}
    Players = {p1}
    Conns = {c1, c2}
    Tokens = {good, other, forged, late, nobody}
    InForce = {good, other, forged, nobody}
    Offered <- MCOffered
    SignedWith <- MCSignedWith
    Subject <- MCSubject
    MaxFaults = 1
INVARIANTS
    TypeOK
    ConnectionsRestClean
    WritesAreKnown
PROPERTIES
    EveryRequestAnswered
CHECK_DEADLOCK FALSE
