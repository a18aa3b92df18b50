SPECIFICATION Spec
CONSTANTS
    s1 = s1
    Session = {s1}
    Handler = {h1, h2, h3}
    SessionOf <- OneSession
    Tenant = {t1}
    NoTenant = NoTenant
    NoSession = NoSession
    Requests = {"refresh", "logout", "enrich", "resolve"}
    RedisReplies = {"ok", "failed", "lost"}
    IdpReplies = {"ok", "refused", "lost"}
    RefreshTokens = "retired"
    Crashes = TRUE
    MaxIssued = 3
    MaxLapses = 2
SYMMETRY HandlerSymmetry
INVARIANTS
    TypeOK
    RefreshesBounded
    StaysRefreshable
PROPERTIES
    GoneForGood
    ImplementsExclusion
