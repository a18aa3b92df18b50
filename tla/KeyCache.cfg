SPECIFICATION FairSpec
CONSTANTS
    Caller = {a, b}
    Key = {k1}
    NoKey = NoKey
    NoEntry = NoEntry
    Nobody = Nobody
    TTL = 3
    Transit = 2
INVARIANTS
    TypeOK
PROPERTIES
    JudgedByRecentKeys
    FetchedOncePerTTL
    ValidationsAnswered
