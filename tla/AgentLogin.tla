----------------------------- MODULE AgentLogin -----------------------------
(***************************************************************************)
(* Signing in and out through the agent (internal/agent): GET /login sends *)
(* a browser to the identity provider, GET /callback turns the code it     *)
(* comes back with into a session and a cookie, and /logout ends both.     *)
(* The requests of one browser run side by side (tabs, reloads), every     *)
(* call that leaves a handler is a step, and the process may restart.      *)
(*                                                                         *)
(* A login is named by its state value; its code, verifier and nonce go    *)
(* with it.  What becomes of a session once it is signed in is the subject *)
(* of AgentSessions.                                                       *)
(***************************************************************************)
EXTENDS Naturals

CONSTANTS
    Login,        \* logins, by their state value
    Handler,      \* slots for callbacks and logouts being served
    Session,      \* session ids generateSessionID may return
    NoLogin, NoSession,
    RedisReplies, \* how Redis calls end: "ok", "failed", "lost" (applied, with an error)
    SingleUse,    \* whether the provider exchanges a code once only
    WideCookie,   \* whether cookie_domain is wider than the agent's own host
    Cancels,      \* whether a client may give up while its request is served
    Restarts      \* whether the process may restart

ASSUME RedisPossible == RedisReplies \subseteq {"ok", "failed", "lost"} /\ "ok" \in RedisReplies
ASSUME SwitchesBoolean ==
    /\ SingleUse \in BOOLEAN /\ WideCookie \in BOOLEAN
    /\ Cancels \in BOOLEAN /\ Restarts \in BOOLEAN
ASSUME NothingIsNoId == NoLogin \notin Login /\ NoSession \notin Session

VARIABLES
    pkce,       \* Redis: the logins whose PKCE state is stored
    store,      \* Redis: the sessions that are stored
    jar,        \* the session the browser's cookie names
    phase,      \* how far the browser has come with a login
    up,         \* whether the provider answers
    spent,      \* provider: the codes it has exchanged
    discovery,  \* agent: the outcome sync.Once keeps of the discovery
    pc,         \* the next call of a handler
    login,      \* the login of the callback a handler serves
    made,       \* the session a handler has made, or is to end
    owner       \* history: the login a session was stored for

vars == <<pkce, store, jar, phase, up, spent, discovery, pc, login, made, owner>>
redis == <<pkce, store, owner>>
provider == <<up, spent>>
handlers == <<pc, login, made>>

CallbackPC == {"pkceGet", "pkceDelete", "exchange", "validate", "sessionSet", "welcome"}
LogoutPC == {"logoutGet", "logoutDelete", "endURL"}
PC == {"idle", "clear"} \cup CallbackPC \cup LogoutPC

TypeOK ==
    /\ pkce \subseteq Login
    /\ store \subseteq Session
    /\ jar \in Session \cup {NoSession}
    /\ phase \in [Login -> {"none", "begun", "asked", "authenticated"}]
    /\ up \in BOOLEAN
    /\ spent \subseteq Login
    /\ discovery \in {"unknown", "cached", "failed"}
    /\ pc \in [Handler -> PC]
    /\ login \in [Handler -> Login \cup {NoLogin}]
    /\ \A h \in Handler : login[h] # NoLogin <=> pc[h] \in CallbackPC
    /\ made \in [Handler -> Session \cup {NoSession}]
    /\ owner \in [Session -> Login \cup {NoLogin}]

Init ==
    /\ pkce = {}
    /\ store = {}
    /\ jar = NoSession
    /\ phase = [l \in Login |-> "none"]
    /\ up \in BOOLEAN
    /\ spent = {}
    /\ discovery = "unknown"
    /\ pc = [h \in Handler |-> "idle"]
    /\ login = [h \in Handler |-> NoLogin]
    /\ made = [h \in Handler |-> NoSession]
    /\ owner = [s \in Session |-> NoLogin]

-----------------------------------------------------------------------------
(* The provider's discovery document.                                      *)

\* The first caller fetches the document, with the context of its request;
\* sync.Once keeps what came of it, an error included.
HaveDocument ==
    \/ discovery = "cached" /\ UNCHANGED discovery
    \/ discovery = "unknown" /\ up /\ discovery' = "cached"

NoDocument ==
    \/ discovery = "failed" /\ UNCHANGED discovery
    \/ discovery = "unknown" /\ (~up \/ Cancels) /\ discovery' = "failed"

-----------------------------------------------------------------------------
(* Signing in.                                                             *)

\* GET /login stores the PKCE state, then asks the provider plugin where to
\* send the browser.
LoginStart(l) ==
    /\ phase[l] = "none"
    /\ \/ /\ pkce' = pkce \cup {l}
          /\ \/ /\ HaveDocument
                /\ phase' = [phase EXCEPT ![l] = "asked"]
             \/ /\ NoDocument
                /\ phase' = [phase EXCEPT ![l] = "begun"]
             \/ /\ "lost" \in RedisReplies
                /\ phase' = [phase EXCEPT ![l] = "begun"]
                /\ UNCHANGED discovery
       \/ /\ "failed" \in RedisReplies
          /\ phase' = [phase EXCEPT ![l] = "begun"]
          /\ UNCHANGED <<pkce, discovery>>
    /\ UNCHANGED <<store, jar, provider, handlers, owner>>

\* The user signs in at the provider, which issues the code of the login.
Authenticate(l) ==
    /\ up
    /\ phase[l] = "asked"
    /\ phase' = [phase EXCEPT ![l] = "authenticated"]
    /\ UNCHANGED <<redis, jar, provider, discovery, handlers>>

Goto(h, call) == pc' = [pc EXCEPT ![h] = call]

\* The handler gives its callback up: the answer clears the cookie.
GiveUp(h) ==
    /\ Goto(h, "clear")
    /\ login' = [login EXCEPT ![h] = NoLogin]
    /\ UNCHANGED made

\* The request is over; on its own, an answer that leaves the cookie alone.
AbandonKeepsLogin(h) ==
    /\ Goto(h, "idle")
    /\ made' = [made EXCEPT ![h] = NoSession]
    /\ UNCHANGED login
Abandon(h) ==
    /\ Goto(h, "idle")
    /\ login' = [login EXCEPT ![h] = NoLogin]
    /\ made' = [made EXCEPT ![h] = NoSession]

\* A callback arrives: with a code, as often as the browser sends it, or with
\* an error of the provider, which leaves the PKCE state where it is.
Callback(h) ==
    /\ pc[h] = "idle"
    /\ \E l \in Login :
          \/ /\ phase[l] = "authenticated"
             /\ Goto(h, "pkceGet")
             /\ login' = [login EXCEPT ![h] = l]
          \/ /\ phase[l] \in {"asked", "authenticated"}
             /\ Goto(h, "clear")
             /\ UNCHANGED login
    /\ UNCHANGED <<redis, jar, phase, provider, discovery, made>>

PkceGetUnchecked(h) ==
    /\ pc[h] = "pkceGet"
    /\ Goto(h, "pkceDelete")
    /\ UNCHANGED <<redis, jar, phase, provider, discovery, login, made>>
PkceGet(h) ==
    /\ pc[h] = "pkceGet"
    /\ \/ /\ login[h] \in pkce
          /\ Goto(h, "pkceDelete")
          /\ UNCHANGED <<login, made>>
       \/ /\ login[h] \notin pkce \/ RedisReplies # {"ok"}
          /\ GiveUp(h)
    /\ UNCHANGED <<redis, jar, phase, provider, discovery>>

\* The error of the DEL is dropped.
PkceDelete(h) ==
    /\ pc[h] = "pkceDelete"
    /\ \/ pkce' = pkce \ {login[h]}
       \/ "failed" \in RedisReplies /\ UNCHANGED pkce
    /\ Goto(h, "exchange")
    /\ UNCHANGED <<store, owner, jar, phase, provider, discovery, login, made>>

\* The provider exchanges the code; the answer may not arrive.
ExchangeCode(h) ==
    /\ pc[h] = "exchange"
    /\ \/ /\ HaveDocument
          /\ up
          /\ SingleUse => login[h] \notin spent
          /\ spent' = spent \cup {login[h]}
          /\ \/ Goto(h, "validate") /\ UNCHANGED <<login, made>>
             \/ GiveUp(h)
       \/ /\ HaveDocument \/ NoDocument
          /\ GiveUp(h)
          /\ UNCHANGED spent
    /\ UNCHANGED <<redis, jar, phase, up>>

\* The ID token is checked against the issuer's keys, which a cache may hold.
ValidateIDToken(h) ==
    /\ pc[h] = "validate"
    /\ \/ Goto(h, "sessionSet") /\ UNCHANGED <<login, made>>
       \/ GiveUp(h)
    /\ UNCHANGED <<redis, jar, phase, provider, discovery>>

\* A random session id is new.
FreshOrReused(s) == \A h \in Handler : made[h] # s
Fresh(s) == owner[s] = NoLogin /\ \A h \in Handler : made[h] # s

\* A session is stored under a new id.  The answer follows when the webhook,
\* if there is one, has returned: its outcome is dropped.
StoreSession(h, s) ==
    /\ store' = store \cup {s}
    /\ owner' = [owner EXCEPT ![s] = login[h]]

SessionSetRetries(h) ==
    /\ pc[h] = "sessionSet"
    /\ \E s \in Session :
          /\ Fresh(s)
          /\ StoreSession(h, s)
          /\ \/ /\ Goto(h, "welcome")
                /\ made' = [made EXCEPT ![h] = s]
                /\ UNCHANGED login
             \/ "lost" \in RedisReplies /\ UNCHANGED <<pc, login, made>>
    /\ UNCHANGED <<pkce, jar, phase, provider, discovery>>
SessionSetUnchecked(h) ==
    /\ pc[h] = "sessionSet"
    /\ \E s \in Session :
          /\ Fresh(s)
          /\ \/ StoreSession(h, s)
             \/ "failed" \in RedisReplies /\ UNCHANGED <<store, owner>>
          /\ Goto(h, "welcome")
          /\ made' = [made EXCEPT ![h] = s]
    /\ UNCHANGED <<pkce, jar, phase, provider, discovery, login>>
SessionSet(h) ==
    /\ pc[h] = "sessionSet"
    /\ \/ \E s \in Session :
             /\ Fresh(s)
             /\ StoreSession(h, s)
             /\ \/ /\ Goto(h, "welcome")
                   /\ made' = [made EXCEPT ![h] = s]
                   /\ UNCHANGED login
                \/ "lost" \in RedisReplies /\ Abandon(h)
       \/ /\ "failed" \in RedisReplies
          /\ Abandon(h)
          /\ UNCHANGED <<store, owner>>
    /\ UNCHANGED <<pkce, jar, phase, provider, discovery>>

\* The browser gets the answer of a callback that went well.
Welcome(h) ==
    /\ pc[h] = "welcome"
    /\ jar' = made[h]
    /\ Abandon(h)
    /\ UNCHANGED <<redis, phase, provider, discovery>>

\* The browser gets an answer that clears the cookie.  The clearing Set-Cookie
\* names no Domain, so it does not reach a cookie that was set with one.
Cleared == jar' = IF WideCookie THEN jar ELSE NoSession

Clear(h) ==
    /\ pc[h] = "clear"
    /\ Cleared
    /\ Abandon(h)
    /\ UNCHANGED <<redis, phase, provider, discovery>>

-----------------------------------------------------------------------------
(* Signing out.                                                            *)

\* A logout arrives with the cookie of that moment; without one there is no
\* session to read.
Logout(h) ==
    /\ pc[h] = "idle"
    /\ made' = [made EXCEPT ![h] = jar]
    /\ Goto(h, IF jar = NoSession THEN "endURL" ELSE "logoutGet")
    /\ UNCHANGED <<redis, jar, phase, provider, discovery, login>>

\* The error of the GET is dropped: then nothing is deleted.
LogoutGet(h) ==
    /\ pc[h] = "logoutGet"
    /\ \/ /\ made[h] \in store
          /\ Goto(h, "logoutDelete")
       \/ /\ made[h] \notin store \/ RedisReplies # {"ok"}
          /\ Goto(h, "endURL")
    /\ UNCHANGED <<redis, jar, phase, provider, discovery, login, made>>

LogoutDelete(h) ==
    /\ pc[h] = "logoutDelete"
    /\ \/ store' = store \ {made[h]}
       \/ "failed" \in RedisReplies /\ UNCHANGED store
    /\ Goto(h, "endURL")
    /\ UNCHANGED <<pkce, owner, jar, phase, provider, discovery, login, made>>

\* Where to send the browser: to the provider, or back when there is no
\* discovery document; the answer clears the cookie in either case.
EndSessionURL(h) ==
    /\ pc[h] = "endURL"
    /\ HaveDocument \/ NoDocument
    /\ Goto(h, "clear")
    /\ UNCHANGED <<redis, jar, phase, provider, login, made>>

-----------------------------------------------------------------------------
(* Time and failures.                                                      *)

PkceExpires(l) ==
    /\ l \in pkce
    /\ pkce' = pkce \ {l}
    /\ UNCHANGED <<store, owner, jar, phase, provider, discovery, handlers>>

SessionExpires(s) ==
    /\ s \in store
    /\ store' = store \ {s}
    /\ UNCHANGED <<pkce, owner, jar, phase, provider, discovery, handlers>>

\* The Max-Age of the cookie ends.
CookieExpires ==
    /\ jar # NoSession
    /\ jar' = NoSession
    /\ UNCHANGED <<redis, phase, provider, discovery, handlers>>

ProviderFlips ==
    /\ up' = ~up
    /\ UNCHANGED <<redis, jar, phase, spent, discovery, handlers>>

\* The process restarts: its requests end without an answer, and the
\* discovery is to be done again.
Restart ==
    /\ Restarts
    /\ discovery' = "unknown"
    /\ pc' = [h \in Handler |-> "idle"]
    /\ login' = [h \in Handler |-> NoLogin]
    /\ made' = [h \in Handler |-> NoSession]
    /\ UNCHANGED <<redis, jar, phase, provider>>

Serve(h) ==
    \/ PkceGet(h) \/ PkceDelete(h) \/ ExchangeCode(h) \/ ValidateIDToken(h)
    \/ SessionSet(h) \/ Welcome(h) \/ Clear(h)
    \/ LogoutGet(h) \/ LogoutDelete(h) \/ EndSessionURL(h)

Next ==
    \/ \E l \in Login : LoginStart(l) \/ Authenticate(l) \/ PkceExpires(l)
    \/ \E h \in Handler : Callback(h) \/ Logout(h) \/ Serve(h)
    \/ \E s \in Session : SessionExpires(s)
    \/ CookieExpires \/ ProviderFlips \/ Restart

Spec == Init /\ [][Next]_vars

-----------------------------------------------------------------------------
(* What the agent guarantees.                                              *)

\* With a provider that exchanges a code once, a login gives at most one
\* session, however often its callback is sent and whatever fails.
OneSessionPerLogin ==
    SingleUse => \A s, t \in Session :
        owner[s] # NoLogin /\ owner[s] = owner[t] => s = t

\* The cookie names a session that was stored, of a login the user completed
\* at the provider: no answer gives a cookie for a session that Redis refused.
CookieNamesLogin ==
    jar # NoSession =>
        /\ owner[jar] # NoLogin
        /\ phase[owner[jar]] = "authenticated"

\* A login whose PKCE state is gone, and that no callback in progress has
\* read, is over: no later callback makes a session of it.
Using(l) == {h \in Handler : login[h] = l /\ pc[h] \in CallbackPC \ {"pkceGet"}}
Over(l) == phase[l] # "none" /\ l \notin pkce /\ Using(l) = {}

LoginIsOver ==
    [][\A l \in Login : Over(l) =>
          /\ Over(l)'
          /\ \A s \in Session : owner'[s] = l => owner[s] = l]_vars

\* The login as a ticket: it is open while its PKCE state is stored, and
\* claimed by the handler that has read that.
Held(h) == pc[h] \in CallbackPC \ {"pkceGet"}
Tickets == [l \in Login |->
    CASE phase[l] = "none" -> "none" [] l \in pkce -> "open" [] OTHER -> "closed"]
Steps == [h \in Handler |->
    CASE pc[h] \in {"pkceDelete", "exchange"} -> "claimed"
      [] pc[h] \in {"validate", "sessionSet"} -> "redeemed"
      [] pc[h] = "welcome" -> "serving"
      [] OTHER -> "free"]
Claims == [h \in Handler |-> IF Held(h) THEN login[h] ELSE NoLogin]
Badges == [h \in Handler |-> IF pc[h] = "welcome" THEN made[h] ELSE NoSession]

Ticket == INSTANCE OneTimeLogin
    WITH ticket <- Tickets,
         completed <- {l \in Login : phase[l] = "authenticated"},
         redeemed <- spent, step <- Steps, claim <- Claims, badge <- Badges,
         live <- store

\* Callbacks, Redis and the provider together make of a login what OneTimeLogin
\* says, however often a callback is sent and whatever fails on the way.
ImplementsOneTimeLogin == Ticket!Spec

-----------------------------------------------------------------------------
(* What its comments say and the code does not do.                         *)

\* discovery.go: "Discovery fetches and caches the OIDC discovery document":
\* a login is turned away for want of it only while the provider is down.
TurnedAwayOnlyWhenDown ==
    [][\A l \in Login : LoginStart(l) /\ up => phase'[l] = "asked"]_vars
=============================================================================
