SPECIFICATION Spec
CONSTANTS
    Login = {l1, l2}
    Handler = {h1, h2, h3}
    Session = {s1, s2, s3}
    NoLogin = NoLogin
    NoSession = NoSession
    RedisReplies = {"ok", "failed", "lost"}
    SingleUse = TRUE
    WideCookie = FALSE
    Cancels = TRUE
    Restarts = TRUE
SYMMETRY IdSymmetry
INVARIANTS
    TypeOK
    OneSessionPerLogin
    CookieNamesLogin
PROPERTIES
    LoginIsOver
    ImplementsOneTimeLogin
