SPECIFICATION Spec
CONSTANTS
    Login = {l1, l2}
    Handler = {h1, h2}
    Session = {s1, s2}
    NoLogin = NoLogin
    NoSession = NoSession
    RedisReplies = {"ok"}
    SingleUse = TRUE
    WideCookie = FALSE
    Cancels = FALSE
    Restarts = FALSE
PROPERTY
    TurnedAwayOnlyWhenDown
