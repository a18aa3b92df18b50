SPECIFICATION Spec
CONSTANTS
    s1 = s1
    Session = {s1}
    Handler = {h1, h2}
    SessionOf <- OneSession
    Tenant = {t1}
    NoTenant = NoTenant
    NoSession = NoSession
    Requests = {"refresh", "logout"}
    RedisReplies = {"ok"}
    IdpReplies = {"ok", "refused"}
    RefreshTokens = "rotated"
    Crashes = FALSE
    MaxIssued = 3
    MaxLapses = 0
INVARIANT LogoutIsFinal
