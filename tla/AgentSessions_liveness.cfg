SPECIFICATION FairSpec
CONSTANTS
    s1 = s1
    Session = {s1}
    Handler = {h1, h2}
    SessionOf <- OneSession
    Tenant = {t1}
    NoTenant = NoTenant
    NoSession = NoSession
    Requests = {"refresh", "logout", "enrich"}
    RedisReplies = {"ok", "failed", "lost"}
    IdpReplies = {"ok", "refused", "lost"}
    RefreshTokens = "kept"
    Crashes = TRUE
    MaxIssued = 3
    MaxLapses = 1
INVARIANT RefreshStoresNewest
PROPERTIES
    RequestsAnswered
    LockGivenUp
