--------------------------- MODULE AgentSessions ---------------------------
(***************************************************************************)
(* The session operations of the agent (internal/agent/service) over the   *)
(* Redis store (internal/store/redis): any number of request handlers, of  *)
(* any number of agent processes, refresh, enrich, end and read the        *)
(* sessions of signed-in users.  Every call that leaves a handler (a Redis *)
(* command, a request to the identity provider) is one step, so that the   *)
(* steps of other handlers, the passing of time and failures come between. *)
(*                                                                         *)
(* Tokens are their generation: the n-th token set the provider issued for *)
(* a session is n.  A session record keeps the generation of its access    *)
(* token, that of its refresh token (0: none) and its tenant context.      *)
(***************************************************************************)
EXTENDS Naturals, FiniteSets

CONSTANTS
    Session,        \* session ids
    Handler,        \* slots for requests being served, over all processes
    SessionOf,      \* the session id in the cookie (or body) of a slot's requests
    Tenant,         \* tenant contexts an enrichment service attaches
    NoTenant,       \* the nil TenantContext
    NoSession,      \* the reply of Redis for a missing key
    Requests,       \* the kinds of request that arrive
    RedisReplies,   \* how Redis calls end, see below
    IdpReplies,     \* how calls to the provider end, see below
    RefreshTokens,  \* what the provider does with a refresh token when used
    Crashes,        \* whether a process may stop in the middle of a request
    MaxIssued,      \* bound: token sets issued for a session
    MaxLapses       \* bound: leases that a refresh in progress loses

\* "failed": the command was not applied.  "lost": it was applied, and its
\* answer did not arrive in time: the client sends it again, up to three times
\* (MaxRetries of go-redis), so that it may be applied late and more than once.
RedisReply == {"ok", "failed", "lost"}
\* "refused": an error answer.  "lost": tokens were issued, and the caller
\* got an error.
IdpReply == {"ok", "refused", "lost"}

\* "kept": the answer has no refresh token.  "rotated": it has a new one, and
\* the old one still works (cmd/mockidp).  "retired": it no longer works.
RefreshTokenPolicy == {"kept", "rotated", "retired"}

Record == [at : Nat, rt : Nat, tenant : Tenant \cup {NoTenant}]

ASSUME HandlersFinite == IsFiniteSet(Handler)
ASSUME CookieNamesSession == SessionOf \in [Handler -> Session]
ASSUME NoSessionIsNoRecord == NoSession \notin Record
ASSUME NoTenantIsNoTenant == NoTenant \notin Tenant
ASSUME RepliesPossible ==
    /\ Requests \subseteq {"refresh", "logout", "enrich", "resolve"}
    /\ RedisReplies \subseteq RedisReply /\ "ok" \in RedisReplies
    /\ IdpReplies \subseteq IdpReply /\ "refused" \in IdpReplies
    /\ RefreshTokens \in RefreshTokenPolicy
    /\ Crashes \in BOOLEAN
ASSUME BoundsNat == MaxIssued \in Nat /\ MaxLapses \in Nat

VARIABLES
    store,    \* Redis: the session records
    lock,     \* Redis: whether the refresh-lock key of a session exists
    due,      \* access tokens within SessionRefreshEarlySeconds of their expiry
    issued,   \* provider: token sets issued so far
    honoured, \* provider: the refresh token it honours, when it retires the others
    pc,       \* the next call of a handler
    copy,     \* the session record a handler has read (and modified)
    lapses,   \* history: leases that ended while a refresh was in progress
    revoked,  \* history: sessions a logout has deleted
    forfeited \* history: sessions that lost the refresh token the provider honours

vars == <<store, lock, due, issued, honoured, pc, copy, lapses, revoked, forfeited>>
redis == <<store, lock>>
provider == <<issued, honoured>>
history == <<lapses, revoked, forfeited>>

First(request) ==
    CASE request = "refresh" -> "refreshGet"
      [] request = "logout"  -> "logoutGet"
      [] request = "enrich"  -> "enrichGet"
      [] request = "resolve" -> "resolveGet"

\* The calls of a handler that has a copy of its session to write back.
WritingPC == {"obtain", "exchange", "refreshSet", "refreshSetAgain", "enrichSet"}
\* The calls made between the Obtain and the Release of the refresh lock.
CriticalPC == {"exchange", "refreshSet", "refreshSetAgain", "release"}
\* The calls by which a refresh stores its tokens.
StoringPC == {"refreshSet", "refreshSetAgain"}
PC == {"idle", "refreshGet", "releaseAgain", "logoutGet", "logoutDelete", "enrichGet",
       "resolveGet"} \cup WritingPC \cup CriticalPC

HandlersOf(s) == {h \in Handler : SessionOf[h] = s}
Writing(s) == {h \in HandlersOf(s) : pc[h] \in WritingPC}
Refreshing(s) == {h \in HandlersOf(s) : pc[h] \in CriticalPC}

TypeOK ==
    /\ store \in [Session -> Record \cup {NoSession}]
    /\ lock \in [Session -> BOOLEAN]
    /\ due \in [Session -> SUBSET Nat]
    /\ issued \in [Session -> Nat]
    /\ honoured \in [Session -> Nat]
    /\ pc \in [Handler -> PC]
    /\ copy \in [Handler -> Record \cup {NoSession}]
    /\ \A h \in Handler : copy[h] # NoSession <=> pc[h] \in WritingPC
    /\ lapses \in [Session -> Nat]
    /\ revoked \in [Session -> BOOLEAN]
    /\ forfeited \in [Session -> BOOLEAN]

\* Sessions as LoginEnd stores them, with or without a refresh token.
Init ==
    /\ \E rt \in {0, 1} :
          /\ store = [s \in Session |-> [at |-> 1, rt |-> rt, tenant |-> NoTenant]]
          /\ honoured = [s \in Session |-> rt]
    /\ lock = [s \in Session |-> FALSE]
    /\ due = [s \in Session |-> {}]
    /\ issued = [s \in Session |-> 1]
    /\ pc = [h \in Handler |-> "idle"]
    /\ copy = [h \in Handler |-> NoSession]
    /\ lapses = [s \in Session |-> 0]
    /\ revoked = [s \in Session |-> FALSE]
    /\ forfeited = [s \in Session |-> FALSE]

-----------------------------------------------------------------------------
(* Steps of a handler.                                                     *)

Goto(h, call) == pc' = [pc EXCEPT ![h] = call]

ForgetNothing(h) == UNCHANGED copy
Forget(h) == copy' = [copy EXCEPT ![h] = NoSession]

\* The handler answers its request.
Answer(h) == Goto(h, "idle") /\ Forget(h)

\* GET of the session key; an error and a missing key are the same to every
\* caller.
Found(s) == store[s] # NoSession
NotFound(s) == store[s] = NoSession \/ RedisReplies # {"ok"}

\* Session.NeedsRefresh.
NeedsRefresh(s, rec) == rec.at \in due[s]

\* The checks a refresh makes before it asks for the lock.
WorthRefreshing(s) ==
    Found(s) /\ store[s].rt # 0 /\ NeedsRefresh(s, store[s])

\* SET NX finds no key.
LockAlwaysFree(s) == TRUE
LockFree(s) == ~lock[s]

\* A write of the session key: SET with the full TTL, whatever is there.
SetSession(s, rec) == store' = [store EXCEPT ![s] = rec]

\* A lock key goes, and nothing tells a refresh that is in progress.
LoseLock(s) ==
    /\ lock[s]
    /\ lock' = [lock EXCEPT ![s] = FALSE]
    /\ IF Refreshing(s) = {}
       THEN UNCHANGED lapses
       ELSE /\ lapses[s] < MaxLapses
            /\ lapses' = [lapses EXCEPT ![s] = @ + 1]

Arrive(h) ==
    /\ pc[h] = "idle"
    /\ \E request \in Requests : Goto(h, First(request))
    /\ UNCHANGED <<redis, due, provider, copy, history>>

\* Resolve, Session and /me read the session and answer; no refresh is tried.
ResolveGet(h) ==
    /\ pc[h] = "resolveGet"
    /\ Answer(h)
    /\ UNCHANGED <<redis, due, provider, history>>

\* The session is read before the lock is taken.
RefreshGet(h) ==
    LET s == SessionOf[h] IN
    /\ pc[h] = "refreshGet"
    /\ \/ /\ WorthRefreshing(s)
          /\ copy' = [copy EXCEPT ![h] = store[s]]
          /\ Goto(h, "obtain")
       \/ /\ ~WorthRefreshing(s) \/ NotFound(s)
          /\ Answer(h)
    /\ UNCHANGED <<redis, due, provider, history>>

\* A request that does not get the lock answers 200 with nothing refreshed,
\* and has nothing to release.  So does one whose SET NX is sent again and meets
\* the key it has set itself.
MissedAfterDefer(h) == Answer(h) /\ lock' = [lock EXCEPT ![SessionOf[h]] = FALSE]
MissedRetries(h) == UNCHANGED <<pc, copy, lock>>
Missed(h) == Answer(h) /\ UNCHANGED lock

RefreshObtain(h) ==
    LET s == SessionOf[h] IN
    /\ pc[h] = "obtain"
    /\ \/ /\ LockFree(s)
          /\ lock' = [lock EXCEPT ![s] = TRUE]
          /\ \/ Goto(h, "exchange") /\ UNCHANGED copy
             \/ "lost" \in RedisReplies /\ UNCHANGED <<pc, copy>>
       \/ /\ ~LockFree(s) \/ "failed" \in RedisReplies
          /\ Missed(h)
    /\ UNCHANGED <<store, due, provider, history>>

-----------------------------------------------------------------------------
(* The exchange of the refresh token, and the end of a refresh.            *)

\* The provider issues the next token set of s for refresh token rt.
Issue(s, rt) ==
    /\ issued[s] < MaxIssued
    /\ RefreshTokens = "retired" => rt = honoured[s]
    /\ issued' = [issued EXCEPT ![s] = @ + 1]
    /\ honoured' = IF RefreshTokens = "kept" THEN honoured
                   ELSE [honoured EXCEPT ![s] = issued[s] + 1]

\* The session updated from a token response: its refresh token is replaced
\* only when the response has one.
UpdatedAccessTokenOnly(rec, n) == [rec EXCEPT !.at = n]
Updated(rec, n) ==
    [rec EXCEPT !.at = n, !.rt = IF RefreshTokens = "kept" THEN @ ELSE n]

\* The newest tokens of s never reach the store, or an older set replaces them.
Forfeit(s) == forfeited' = [forfeited EXCEPT ![s] = TRUE]

RefreshExchange(h) ==
    LET s == SessionOf[h] IN
    /\ pc[h] = "exchange"
    /\ \/ /\ "ok" \in IdpReplies
          /\ Issue(s, copy[h].rt)
          /\ copy' = [copy EXCEPT ![h] = Updated(@, issued[s] + 1)]
          /\ Goto(h, "refreshSet")
          /\ UNCHANGED forfeited
       \/ /\ "lost" \in IdpReplies
          /\ Issue(s, copy[h].rt)
          /\ Forget(h)
          /\ Goto(h, "release")
          /\ Forfeit(s)
       \/ /\ Forget(h)
          /\ Goto(h, "release")
          /\ UNCHANGED <<provider, forfeited>>
    /\ UNCHANGED <<redis, due, lapses, revoked>>

\* A refresh token the provider has retired, and no refresh about to store
\* the one it honours.
Outdated(s, rec) ==
    /\ rec.rt # honoured[s]
    /\ \A h \in HandlersOf(s) : pc[h] # "refreshSet"

\* The record is written back as it is in the hands of the handler, whatever
\* was stored since.
PutBack(h) ==
    LET s == SessionOf[h] IN
    /\ SetSession(s, copy[h])
    /\ IF Outdated(s, copy[h]) THEN Forfeit(s) ELSE UNCHANGED forfeited

RefreshSet(h) ==
    LET s == SessionOf[h] IN
    /\ pc[h] = "refreshSet"
    /\ \/ SetSession(s, copy[h]) /\ Forget(h) /\ Goto(h, "release") /\ UNCHANGED forfeited
       \/ /\ "lost" \in RedisReplies
          /\ SetSession(s, copy[h])
          /\ Goto(h, "refreshSetAgain")
          /\ UNCHANGED <<copy, forfeited>>
       \/ /\ "failed" \in RedisReplies
          /\ Forget(h)
          /\ Goto(h, "release")
          /\ Forfeit(s)
          /\ UNCHANGED store
    /\ UNCHANGED <<lock, due, provider, lapses, revoked>>

\* The SET is sent again, or has been answered by now or for the last time.
RefreshSetAgain(h) ==
    /\ pc[h] = "refreshSetAgain"
    /\ \/ PutBack(h) /\ UNCHANGED <<pc, copy>>
       \/ Forget(h) /\ Goto(h, "release") /\ UNCHANGED <<store, forfeited>>
    /\ UNCHANGED <<lock, due, provider, lapses, revoked>>

\* The deferred Release: a plain DEL of the lock key, whoever holds it now,
\* with the context of the request; its error is dropped.
RefreshRelease(h) ==
    /\ pc[h] = "release"
    /\ \/ lock' = [lock EXCEPT ![SessionOf[h]] = FALSE] /\ Goto(h, "idle")
       \/ "failed" \in RedisReplies /\ Goto(h, "idle") /\ UNCHANGED lock
       \/ /\ "lost" \in RedisReplies
          /\ lock' = [lock EXCEPT ![SessionOf[h]] = FALSE]
          /\ Goto(h, "releaseAgain")
    /\ UNCHANGED <<store, due, provider, copy, history>>

\* The DEL is sent again, when the lock may be somebody else's, or no more.
RefreshReleaseAgain(h) ==
    /\ pc[h] = "releaseAgain"
    /\ \/ LoseLock(SessionOf[h]) /\ UNCHANGED pc
       \/ Goto(h, "idle") /\ UNCHANGED <<lock, lapses>>
    /\ UNCHANGED <<store, due, provider, copy, revoked, forfeited>>

-----------------------------------------------------------------------------
(* Logout and enrichment.                                                  *)

LogoutGet(h) ==
    LET s == SessionOf[h] IN
    /\ pc[h] = "logoutGet"
    /\ \/ /\ Found(s)
          /\ Goto(h, "logoutDelete")
          /\ UNCHANGED copy
       \/ /\ NotFound(s)
          /\ Answer(h)
    /\ UNCHANGED <<redis, due, provider, history>>

LogoutDelete(h) ==
    LET s == SessionOf[h] IN
    /\ pc[h] = "logoutDelete"
    /\ \/ /\ SetSession(s, NoSession)
          /\ revoked' = [revoked EXCEPT ![s] = TRUE]
          /\ \/ Answer(h)
             \/ "lost" \in RedisReplies /\ UNCHANGED <<pc, copy>>
       \/ /\ "failed" \in RedisReplies
          /\ Answer(h)
          /\ UNCHANGED <<store, revoked>>
    /\ UNCHANGED <<lock, due, provider, lapses, forfeited>>

EnrichGetUpsert(h) ==
    LET s == SessionOf[h] IN
    /\ pc[h] = "enrichGet"
    /\ \E t \in Tenant :
          copy' = [copy EXCEPT ![h] =
                      IF Found(s) THEN [store[s] EXCEPT !.tenant = t]
                      ELSE [at |-> 0, rt |-> 0, tenant |-> t]]
    /\ Goto(h, "enrichSet")
    /\ UNCHANGED <<redis, due, provider, history>>
EnrichGet(h) ==
    LET s == SessionOf[h] IN
    /\ pc[h] = "enrichGet"
    /\ \/ /\ Found(s)
          /\ \E t \in Tenant :
                copy' = [copy EXCEPT ![h] = [store[s] EXCEPT !.tenant = t]]
          /\ Goto(h, "enrichSet")
       \/ /\ NotFound(s)
          /\ Answer(h)
    /\ UNCHANGED <<redis, due, provider, history>>

EnrichSet(h) ==
    /\ pc[h] = "enrichSet"
    /\ \/ /\ PutBack(h)
          /\ \/ Answer(h)
             \/ "lost" \in RedisReplies /\ UNCHANGED <<pc, copy>>
       \/ "failed" \in RedisReplies /\ Answer(h) /\ UNCHANGED <<store, forfeited>>
    /\ UNCHANGED <<lock, due, provider, lapses, revoked>>

-----------------------------------------------------------------------------
(* Time and failures.                                                      *)

\* An access token comes within SessionRefreshEarlySeconds of its expiry.
TokenAges(s) ==
    /\ \E n \in 1 .. issued[s] :
          /\ n \notin due[s]
          /\ due' = [due EXCEPT ![s] = @ \cup {n}]
    /\ UNCHANGED <<redis, provider, pc, copy, history>>

\* The TTL of a session key ends.
SessionExpires(s) ==
    /\ store[s] # NoSession
    /\ SetSession(s, NoSession)
    /\ UNCHANGED <<lock, due, provider, pc, copy, history>>

\* The TTL of a lock key ends.
LockKeptForever(s) == FALSE /\ UNCHANGED vars
LockExpires(s) ==
    /\ LoseLock(s)
    /\ UNCHANGED <<store, due, provider, pc, copy, revoked, forfeited>>

\* The process serving the request dies: no deferred call runs.
Crash(h) ==
    /\ Crashes
    /\ pc[h] # "idle"
    /\ IF pc[h] = "refreshSet" THEN Forfeit(SessionOf[h]) ELSE UNCHANGED forfeited
    /\ Answer(h)
    /\ UNCHANGED <<redis, due, provider, lapses, revoked>>

Serve(h) ==
    \/ ResolveGet(h)
    \/ RefreshGet(h) \/ RefreshObtain(h) \/ RefreshExchange(h)
    \/ RefreshSet(h) \/ RefreshSetAgain(h)
    \/ RefreshRelease(h) \/ RefreshReleaseAgain(h)
    \/ LogoutGet(h) \/ LogoutDelete(h)
    \/ EnrichGet(h) \/ EnrichSet(h)

Next ==
    \/ \E h \in Handler : Arrive(h) \/ Serve(h) \/ Crash(h)
    \/ \E s \in Session : TokenAges(s) \/ SessionExpires(s) \/ LockExpires(s)

Spec == Init /\ [][Next]_vars

\* A call of a handler returns (the clients of Redis and of the provider have
\* timeouts, and no command is sent for ever) and Redis ends the life of a key
\* that has a TTL.
MovesOn(h) == Serve(h) /\ pc'[h] # pc[h]
FairSpec ==
    /\ Spec
    /\ \A h \in Handler : WF_vars(MovesOn(h))
    /\ \A s \in Session : WF_vars(LockExpires(s))

-----------------------------------------------------------------------------
(* What the agent guarantees.                                              *)

\* The refresh lock lets one refresh of a session in at a time, and each
\* lease that a refresh in progress loses (it runs out, or the DEL of an earlier
\* refresh that is sent again takes it) lets in at most one more; the DEL of a
\* refresh that has outlived its lease lets in none.
RefreshesBounded ==
    \A s \in Session :
        Cardinality(Refreshing(s)) <= lapses[s] + (IF lock[s] THEN 1 ELSE 0)

\* The refresh lock implements the critical section with leases.
Exclusion == INSTANCE RefreshExclusion
    WITH inside <- [s \in Session |-> Refreshing(s)], lapsed <- lapses

ImplementsExclusion == Exclusion!Spec

\* While no lease of a session has been lost, the record a refresh is about to
\* store carries the newest tokens the provider issued for it: no refresh
\* puts back an older set.
RefreshStoresNewest ==
    \A s \in Session : lapses[s] = 0 =>
        \A h \in HandlersOf(s) : pc[h] \in StoringPC => copy[h].at = issued[s]

\* A session that is gone, and that no request in progress holds a copy of,
\* is gone for good: only a request that read it before can bring it back.
Gone(s) == store[s] = NoSession /\ Writing(s) = {}

GoneForGood == [][\A s \in Session : Gone(s) => Gone(s)']_vars

\* With a provider that retires refresh tokens, a session that no refresh is
\* about to store has the token the provider honours, so that it can be
\* refreshed again.  It takes an answer of the provider that is lost, a failed
\* SET or a crash between the exchange and the SET, an enrichment that read the
\* session before a refresh stored it, or a SET sent again after the tokens of a
\* later refresh were stored, to break that.  Leases that run out, sessions that
\* expire, logouts and every other failure do not.
StaysRefreshable ==
    RefreshTokens = "retired" =>
        \A s \in Session :
            \/ forfeited[s]
            \/ store[s] = NoSession
            \/ \E h \in HandlersOf(s) : pc[h] = "refreshSet"
            \/ store[s].rt = honoured[s]

\* A request is answered: no request waits for the refresh of another.
RequestsAnswered == \A h \in Handler : pc[h] # "idle" ~> pc[h] = "idle"

\* The lock of a session is given up even when its holder crashed or could
\* not reach Redis to release it.
LockGivenUp == \A s \in Session : lock[s] ~> ~lock[s]

-----------------------------------------------------------------------------
(* What its documents say and the code does not do.                        *)

\* agent-flows.md: "Agent obtains a refresh lock (per session) to avoid
\* concurrent refresh": no two requests exchange and store at the same time.
NoConcurrentRefresh ==
    \A g, h \in Handler :
        /\ SessionOf[g] = SessionOf[h]
        /\ {pc[g], pc[h]} \subseteq {"exchange", "refreshSet"}
        => g = h

\* store.go: "To revoke a session (e.g. logout), call Delete".
LogoutIsFinal == \A s \in Session : revoked[s] => store[s] = NoSession
=============================================================================
